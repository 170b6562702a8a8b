SPECIFICATION Spec
CONSTANTS
    HasCGMI = TRUE
    RelayPwm = TRUE
    BootLock = TRUE
    Checks0 <- AllChecks
    Toggles = {"gnd", "stuck"}
    Faults = {"gnd", "relay", "oc", "diode"}
    EvLevels = {"none", "ready", "charge"}
    Temps = {0}
    Commands = {"FE", "FD", "FS", "FC"}
    DebounceA = 0
    Debounce = 1
    RelayDelay = 1
    NoGndRecord = 0
    ULWindow = 2
    SleepGrace = 2
    OcTimeout = 3
    GfiTimeout = 3
    RetryCount = 1
    TripCap = 1
INVARIANTS
    FaultIsOpen
    ClosedMeansOffered
    SleepGraceBounded
    N12MeansDisabled
