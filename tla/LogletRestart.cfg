CONSTANTS
    n1 = n1  n2 = n2  n3 = n3  c1 = c1  c2 = c2
    Node = {n1, n2, n3}
    WriteableNodes = {n1, n2, n3}
    Client = {c1, c2}
    OffsetSoftLimit = 3
    MaxWaves = 1
    Spreads <- ZoneSpread
    SequencerMaySeal = FALSE
    TailLostOnRestart = TRUE
    WriteQuorums <- ZoneWriteQuorums
    FMajorities <- ZoneFMajorities
SPECIFICATION Spec
CONSTRAINT Scenario
INVARIANT SealedTailCoversAcks
CHECK_DEADLOCK FALSE
