SPECIFICATION FairSpec
CONSTANTS
    HasCGMI = FALSE
    RelayPwm = TRUE
    BootLock = FALSE
    Checks0 <- AllChecks
    Toggles = {}
    Faults = {"gfi", "gnd", "diode"}
    EvLevels = {"none", "ready", "charge"}
    Temps = {0}
    Commands = {"FE", "FS"}
    DebounceA = 0
    Debounce = 1
    RelayDelay = 1
    NoGndRecord = 0
    ULWindow = 2
    SleepGrace = 2
    OcTimeout = 2
    GfiTimeout = 2
    RetryCount = 1
    TripCap = 0
INVARIANTS
    WorkingRelayNotStuck
PROPERTIES
    UnpluggingRecovers
    ChargingResumes
    TripOpens
    SleepOpens
