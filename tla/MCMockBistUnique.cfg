SPECIFICATION Spec
CONSTANTS
    c1 = c1
    c2 = c2
    Conn = {c1, c2}
    Polite = {c2}
    Kinds <- OnlyOrders
    Loads <- OneEach
INVARIANTS
    UniqueIds
CHECK_DEADLOCK FALSE
