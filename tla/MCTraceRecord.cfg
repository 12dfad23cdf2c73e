CONSTANTS
    Names <- MCNames
    Pids = {7, 32768, 4194303}
    Seconds = {42, 99999, 100000, 1000000}
    Calls <- MCCalls
    OtherLengths = {25, 60, 61, 62, 80}
    MaxLines = 2
SPECIFICATION RecordSpec
INVARIANTS
    RecordTypeOK
    RecordsOfTheTrace
    CallsOfShiftedLines
    OnlyOthersTerminate
\* The trace ends.
CHECK_DEADLOCK FALSE
