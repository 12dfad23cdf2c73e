SPECIFICATION Spec
CONSTANTS
    Producers = {p1, p2}
    Consumers = {c1, c2}
    Messages = {a, b}
    Capacity = 2
    MaxBulk = 2
    MaxBacklog = 2
    NoThread = NoThread
INVARIANTS
    TypeOK
    NoLostWakeup
PROPERTIES
    SleeperIsWoken
    IsMessageQueue
