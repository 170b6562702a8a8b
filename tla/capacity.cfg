SPECIFICATION FairSpec
CONSTANTS
    PpEnabled = TRUE
    Cables = {0, 20, 255}
    Requests = {40}
    HwLimits = {16, 100}
    Levels = {1, 2}
    Intervals = {0, 1}
    Fallbacks = {10}
    Temps = {0, 1, 3}
    Unit = 2000
    IntModulus = 65536
    MaxSince = 1
INVARIANTS
    TypeOK
    CapacityBounds
    OfferIsCapacity
    CableRespected
PROPERTIES
    ThrottleHolds
    HeartbeatLimitReturns
