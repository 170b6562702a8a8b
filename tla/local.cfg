SPECIFICATION Spec
CONSTANTS
    Day = 2
    Settings <- MCSettings
    Limits = {"time"}
    LimitValues = {0, 1}
    MaxUsed = 1
    Items = {"time", "delay", "onoff", "start", "stop", "setup", "item", "reset"}
    Commands = {"F1", "FE", "FD", "FS", "ST", "S3", "reset"}
    Short = 1
    Long = 2
    VeryLong = 3
INVARIANTS
    LocalTypeOK
    LimitStops
PROPERTIES
    OnePressOneEffect
