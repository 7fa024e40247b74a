SPECIFICATION FairSpec
CONSTANTS
    Unit = {a}
    Cap = 1
    MaxSent <- TwoTwo
PROPERTIES
    Delivered
    RefusalSeen
CHECK_DEADLOCK FALSE
