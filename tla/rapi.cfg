SPECIFICATION Spec
CONSTANTS
    Texts = {"FD", "FE", "FS"}
    Forms <- MCForms
    Noise = {"lost", "bad", "soc", "eoc", "mark"}
    BufLen = 6
    MaxFrames = 2
    MaxDamages = 2
INVARIANTS
    AnswersMatch
    ClientKnowsState
PROPERTIES
    HeardAfterNoise
