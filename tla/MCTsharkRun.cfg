CONSTANTS
    Workers = {w1, w2}
    MaxLines = 4
    Skipped = {2}
    ParsedCap = 2
    MonitorCap = 2
    OutCap = 2
    Modes <- AllModes
SPECIFICATION Spec
CHECK_DEADLOCK FALSE
SYMMETRY CrewSymmetry
INVARIANTS
    EachPacketOnce
    EofLosesNothing
    StdoutKeepsUp
