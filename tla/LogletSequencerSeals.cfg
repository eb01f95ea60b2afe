CONSTANTS
    Node = {n1, n2}
    WriteableNodes = {n1}
    Client = {c1}
    Replication = 1
    OffsetSoftLimit = 3
    MaxWaves = 2
    Spreads <- FloodSpread
    SequencerMaySeal = TRUE
    TailLostOnRestart = FALSE
    WriteQuorums <- MCWriteQuorums
    FMajorities <- MCFMajorities
SPECIFICATION FairSpec
INVARIANTS SealedTailCoversAcks
PROPERTIES DirectAnswerIsCurrent SealIsObserved
CHECK_DEADLOCK FALSE
