CONSTANTS
    Workers = {w1, w2}
    MaxMessages = 1
    Unparsable = {}
    Notable = {1}
    RawCap = 1
    MonitorCap = 1
    ElkCap = 1
    WazuhCap = 1
    FeedsEnabled = TRUE
SPECIFICATION Spec
CHECK_DEADLOCK FALSE
PROPERTIES
    EndsOnSignal
    PipelineFollowsReceiver
    QueueMoves
