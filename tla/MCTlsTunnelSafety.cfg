SPECIFICATION Spec
CONSTANTS
    Unit = {a, b}
    Cap = 1
    MaxSent <- ThreeOne
INVARIANTS
    DataKept
    SigPipeOnlyAfterEarlyClose
    OpenTunnelStays
    EndMeansFailure
CHECK_DEADLOCK FALSE
