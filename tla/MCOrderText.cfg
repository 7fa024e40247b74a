SPECIFICATION TextSpec
CONSTANTS
    Typed <- Texts
    Id <- ClOrdID
    Other <- OtherOrder
    Bytes <- OnTheWay
    Latencies <- TwoLatencies
    MaxSamples = 11
INVARIANTS
    OrderAsTyped
    AcceptedUnlessTagInside
    AcceptedIffWhole
    ReportEchoes
    IsQuantile
CHECK_DEADLOCK FALSE
