SPECIFICATION FairSpec
CONSTANTS
    Unit = {a}
    BufSize = 1
    Cap = 1
    MaxSent <- ThreeFour
PROPERTIES
    TunnelCloses
    Delivered
    BistCloseIsTold
CHECK_DEADLOCK FALSE
