CONSTANTS
    Starts = {s1, s2, s3}
    Stops = {t1, t2}
    NoPid = NoPid
    Overlap = TRUE
    MaxCrashes = 0
SPECIFICATION Spec
SYMMETRY Symmetry
INVARIANTS
    TypeOK
    NoTraceForNobody
\* The commands are done and a sensor waits for the end of its trace.
CHECK_DEADLOCK FALSE
