SPECIFICATION Spec
CONSTANTS
    HasCGMI = TRUE
    RelayPwm = TRUE
    BootLock = FALSE
    Checks0 <- AllChecks
    Toggles = {}
    Faults = {"gfi"}
    EvLevels = {"none", "ready", "charge"}
    Temps = {0}
    Commands = {}
    DebounceA = 0
    Debounce = 1
    RelayDelay = 1
    NoGndRecord = 0
    ULWindow = 2
    SleepGrace = 2
    OcTimeout = 3
    GfiTimeout = 3
    RetryCount = 1
    TripCap = 0
INVARIANTS
    NoRecloseAfterTrip
