CONSTANTS
    Workers = {w1, w2}
    MaxLines = 1
    Skipped = {}
    ParsedCap = 2
    MonitorCap = 2
    OutCap = 1
    Modes <- AllModes
SPECIFICATION Spec
CHECK_DEADLOCK FALSE
PROPERTY
    SignalEndsRun
