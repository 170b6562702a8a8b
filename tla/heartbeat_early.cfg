SPECIFICATION Spec
CONSTANTS
    PpEnabled = FALSE
    Cables = {255}
    Requests = {8, 40}
    HwLimits = {}
    Levels = {2}
    Intervals = {0, 100}
    Fallbacks = {4, 10}
    Temps = {0}
    Unit = 10000
    IntModulus = 65536
    MaxSince = 11
PROPERTIES
    HsNotEarly
