SPECIFICATION Spec
CONSTANTS
    BulkCapacity = 2
    PackSize = 2
    MaxChunk = 2
    MaxChunks = 4
    MaxThrows = 2
    NULL = NULL
INVARIANTS
    TypeOK
    PackSizeBound
    ReturnIsSafe
    DeliveredInOrder
    EveryRecordAccountedFor
    FinishedMeansSettled
PROPERTIES
    TraceEndLeadsToReturn
    DeliversTheTrace
