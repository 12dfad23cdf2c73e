CONSTANTS
    Pids = {p1, p2, p3}
    Names = {a, b}
    Size = 2
    MaxPack = 2
    MaxRecords = 4
    MaxStarts = 1
SPECIFICATION Spec
INVARIANTS
    HoldsFewerTracesThanSize
\* The sensor has ended.
CHECK_DEADLOCK FALSE
