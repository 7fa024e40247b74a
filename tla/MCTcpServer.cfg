SPECIFICATION FairSpec
CONSTANTS
    c1 = c1
    c2 = c2
    c3 = c3
    Programs <- SmallPrograms
    Backlog = 1
INVARIANTS
    TypeOK
    LeaksAreFailures
    GoesOnlyWhenFullOrBroken
PROPERTIES
    SetUpEnds
CHECK_DEADLOCK FALSE
