SPECIFICATION FairSpec
CONSTANTS
    t1 = t1
    t2 = t2
    Node = {n1, n2}
    Target = {t1, t2}
    Routes <- TwoRoutes
    MaxMessages = 2
    MaxEpoch = 2
    MaxBatch = 2
    MaxHints = 1
    MaxFaults = 1
INVARIANTS TypeOK TruncatedAreDelivered
PROPERTIES DeliversLikeChannels OutboxDrains
CHECK_DEADLOCK FALSE
