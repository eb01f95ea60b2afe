CONSTANTS
    Node = {n1, n2, n3}
    WriteableNodes = {n1, n2, n3}
    Client = {c1}
    Replication = 2
    OffsetSoftLimit = 3
    MaxWaves = 1
    Spreads <- FloodSpread
    SequencerMaySeal = FALSE
    TailLostOnRestart = FALSE
    WriteQuorums <- MCWriteQuorums
    FMajorities <- MCFMajorities
SYMMETRY Symmetry
SPECIFICATION Spec
INVARIANTS SealedTailCoversAcks
PROPERTY DirectAnswerIsCurrent
CHECK_DEADLOCK FALSE
