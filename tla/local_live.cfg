SPECIFICATION FairSpec
CONSTANTS
    Day = 3
    Settings <- MCNight
    Limits = {"time"}
    LimitValues = {0, 1}
    MaxUsed = 1
    Items = {"time"}
    Commands = {"ST"}
    Short = 1
    Long = 2
    VeryLong = 3
INVARIANTS
    AwakeFromStartToStop
PROPERTIES
    OverrideIsTemporary
    LimitSleepEnds
