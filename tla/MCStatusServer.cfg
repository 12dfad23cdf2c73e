CONSTANTS
    Clients = {c1, c2, c3}
    Fds = {3, 4, 5, 6}
    NoFd = NoFd
    MaxBacklog = 2
    MaxAborts = 1
    MaxThrows = 1
SPECIFICATION Spec
INVARIANTS
    TypeOK
    ServedGetTheSummary
PROPERTIES
    ServerComesBack
    ClientsAreReleased
\* run() has returned, or the server waits for a client.
CHECK_DEADLOCK FALSE
