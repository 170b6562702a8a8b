SPECIFICATION Spec
CONSTANTS
    Day = 2
    Settings <- MCSettings
    Limits = {"time"}
    LimitValues = {0, 1}
    MaxUsed = 1
    Items = {}
    Commands = {"ST", "S3"}
    Short = 1
    Long = 2
    VeryLong = 3
PROPERTIES
    TimerYieldsToLimit
