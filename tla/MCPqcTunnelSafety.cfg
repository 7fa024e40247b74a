SPECIFICATION Spec
CONSTANTS
    Unit = {a, b}
    BufSize = 2
    Cap = 2
    MaxSent <- ThreeTwo
INVARIANTS
    TypeOK
    DataKept
    EndMeansComplete
    SigPipeOnlyAfterEarlyClose
    DoneOnlyWhenBothClosed
PROPERTIES
    TunnelIsPipes
CHECK_DEADLOCK FALSE
