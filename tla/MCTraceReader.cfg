CONSTANTS
    Chars = {a, b}
    NL = NL
    BufferSize = 3
    MaxText = 8
SPECIFICATION ReaderSpec
INVARIANTS
    ReaderTypeOK
    LinesOfTheTrace
\* The trace ends.
CHECK_DEADLOCK FALSE
