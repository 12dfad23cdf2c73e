CONSTANTS
    Packets <- MCPackets
    Clients = {c1}
    Fds = {0, 1, 2, 3, 4}
    NoFd = NoFd
    MaxLeaks = 1
SPECIFICATION Spec
INVARIANTS
    TypeOK
    NobodyLosesADescriptor
    CollectorReadsThePackets
    ClientsGetOnlyStatuses
\* The packets are sent and the main thread waits for a client, or has ended.
CHECK_DEADLOCK FALSE
