CONSTANTS
    Starts = {s1, s2}
    Stops = {t1}
    NoPid = NoPid
    Overlap = FALSE
    MaxCrashes = 1
SPECIFICATION Spec
PROPERTIES
    StalePidRemoved
CHECK_DEADLOCK FALSE
