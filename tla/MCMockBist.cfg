SPECIFICATION FairSpec
CONSTANTS
    c1 = c1
    c2 = c2
    Conn = {c1, c2}
    Polite = {c2}
    Kinds <- OrdersAndOthers
    Loads <- AllLoads
INVARIANTS
    TypeOK
    ReportsMatchOrders
    OneOrderNeverKills
    SharedIdNeedsOverlap
PROPERTIES
    PoliteIsAnswered
CHECK_DEADLOCK FALSE
