SPECIFICATION FairSpec
CONSTANTS
    long = long
    odd = odd
    Upload = {long, odd}
    Blocks <- TwoOne
    Orders = {long}
INVARIANTS
    OwnResults
    ChartsOfOneRun
PROPERTIES
    UploadEnds
