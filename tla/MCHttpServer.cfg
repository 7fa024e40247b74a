SPECIFICATION FairSpec
CONSTANTS
    Connections = 3
    Base = {b1}
    Dynamic = {d1}
    FdLimit = 2
    Backlog = 1
    KeepAliveMax = 2
    MaxRequests <- Requests
INVARIANTS
    TypeOK
    StrandedOnlyByBurst
    Drained
PROPERTIES
    Served
    ShutdownEnds
CHECK_DEADLOCK FALSE
