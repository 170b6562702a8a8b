SPECIFICATION Spec
CONSTANTS
    HasCGMI = TRUE
    RelayPwm = FALSE
    BootLock = TRUE
    Checks0 <- AllChecks
    Toggles = {}
    Faults = {"gfi", "relay", "pp"}
    EvLevels <- AllLevels
    Temps = {0}
    Commands = {"FE", "FD", "FS", "FR", "reset"}
    DebounceA = 0
    Debounce = 1
    RelayDelay = 1
    NoGndRecord = 0
    ULWindow = 2
    SleepGrace = 2
    OcTimeout = 3
    GfiTimeout = 3
    RetryCount = 1
    TripCap = 1
INVARIANTS
    TypeOK
    Guarded
    FaultIsOpen
    TripOpensPromptly
    NoRecloseAfterTrip
    TripNotMasked
PROPERTIES
    SafelyCharges
    DisabledStays
    StuckRelayDebounced
