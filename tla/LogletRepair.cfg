CONSTANTS
    Node = {n1, n2}
    WriteableNodes = {n1, n2}
    Client = {c1}
    Replication = 2
    OffsetSoftLimit = 4
    MaxWaves = 1
    Spreads <- FloodSpread
    SequencerMaySeal = FALSE
    TailLostOnRestart = TRUE
    WriteQuorums <- MCWriteQuorums
    FMajorities <- MCFMajorities
SYMMETRY Symmetry
SPECIFICATION Spec
INVARIANTS TypeOK StoresInBounds KnownTailsCommitted SealedTailCoversAcks RepairFindsRecords
CHECK_DEADLOCK FALSE
