CONSTANTS
    Workers = {w1, w2}
    MaxMessages = 3
    Unparsable = {2}
    Notable = {1, 3}
    RawCap = 2
    MonitorCap = 2
    ElkCap = 1
    WazuhCap = 1
    FeedsEnabled = TRUE
SPECIFICATION Spec
SYMMETRY CrewSymmetry
CHECK_DEADLOCK FALSE
INVARIANTS
    EachMessageOnce
    WazuhOnlyEnriched
    OneLostPerWorker
