SPECIFICATION SessionSpec
CONSTANTS
    HasCGMI = TRUE
    RelayPwm = FALSE
    BootLock = FALSE
    Checks0 = {"diode", "vent"}
    Toggles = {}
    Faults = {"diode"}
    EvLevels = {"none", "charge"}
    Temps = {0}
    Commands = {"FE", "FD", "FS", "FC", "reset"}
    DebounceA = 0
    Debounce = 0
    RelayDelay = 0
    NoGndRecord = 0
    ULWindow = 1
    SleepGrace = 1
    OcTimeout = 1
    GfiTimeout = 1
    RetryCount = 0
    TripCap = 0
    LockCommands = {"0", "1"}
    Totals = {1}
    WhUnit = 2
    SlowHands = TRUE
    MaxTime = 3
    MaxGap = 1
    TotModulus = 2
    MaxClosings = 3
INVARIANTS
    SessionTypeOK
    LockFollowsVehicle
    ChargeTimeHonest
    MeterKeepsUp
    BookedOnce
