CONSTANTS
    Pids = {p1, p2, p3}
    Names = {a, b}
    Size = 2
    MaxPack = 2
    MaxRecords = 4
    MaxStarts = 1
SPECIFICATION Spec
INVARIANTS
    TypeOK
    EveryCallIsSomewhere
    NamedByItsFirstCall
    HeldBack
PROPERTIES
    IsArchive
\* The sensor has ended.
CHECK_DEADLOCK FALSE
