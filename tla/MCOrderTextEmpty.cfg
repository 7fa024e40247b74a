SPECIFICATION TextSpec
CONSTANTS
    Typed <- Texts
    Id <- ClOrdID
    Other <- OtherOrder
    Bytes <- OnTheWay
    Latencies <- TwoLatencies
    MaxSamples = 0
INVARIANTS
    EmptyIsRejected
CHECK_DEADLOCK FALSE
