SPECIFICATION Spec
CONSTANTS
    HasCGMI = FALSE
    RelayPwm = FALSE
    BootLock = TRUE
    Checks0 <- AllChecks
    Toggles = {"temp"}
    Faults = {"gnd", "relay", "pp"}
    EvLevels = {"none", "ready", "charge"}
    Temps = {0, 3, 4}
    Commands = {"FE", "FS"}
    DebounceA = 0
    Debounce = 1
    RelayDelay = 1
    NoGndRecord = 0
    ULWindow = 2
    SleepGrace = 2
    OcTimeout = 3
    GfiTimeout = 3
    RetryCount = 1
    TripCap = 0
INVARIANTS
    FaultIsOpen
PROPERTIES
    FaultOffersNothing
