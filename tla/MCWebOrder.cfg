SPECIFICATION FairSpec
CONSTANTS
    Request = {r1, r2}
INVARIANTS
    CollisionNeedsOverlap
    ShowsWhatCame
PROPERTIES
    RequestIsAnswered
CHECK_DEADLOCK FALSE
