SPECIFICATION FairSpec
CONSTANTS
    Tables <- TwoTables
    Dated <- OneDated
    Requests = {r1}
    Limits <- LimitsOfTwo
    PruneToPct = 50
    PruneBatchSize = 1
    MaxRows <- RowsOfTwo
    MaxFaults = 1
INVARIANTS
    LatestKept
PROPERTIES
    PassEnds
    LimitRestored
