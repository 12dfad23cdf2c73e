CONSTANTS
    MaxAdd = 2
    MaxEvents = 2
    MaxClock = 3
SPECIFICATION Spec
INVARIANTS
    TypeOK
    ReportedOnce
    SummaryIsExact
\* run() has its summary, or the clock has come to its bound.
CHECK_DEADLOCK FALSE
