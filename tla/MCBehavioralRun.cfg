CONSTANTS
    Keys = {a, b, c}
    NoSource = none
    CacheCap = 2
    Threshold = 1
    Window = 1
    CountMax = 3
    Workers = {w1, w2}
    ReportEvery = 3
    SaveEvery = 1
    MaxLogs = 4
    MaxTime = 2
SPECIFICATION Spec
SYMMETRY Symmetry
CHECK_DEADLOCK FALSE
INVARIANTS
    CacheIsRecent
    FlagIsEarned
    OwnBurstIsFlagged
    NothingForgotten
