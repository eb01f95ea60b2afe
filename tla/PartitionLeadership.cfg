SPECIFICATION FairSpec
CONSTANTS
    Proc = {p1, p2}
    Upgraded = {p2}
    MaxEpoch = 2
    MaxSeq = 1
    MaxForwarded = 1
    MaxBatch = 2
    MaxFaults = 1
INVARIANTS TypeOK ReplicasAgree ReignsInOrder LeaderIsCurrent NoImpossibleRecord ActuatorsKnowAll
PROPERTIES CampaignsEnd ManagerFindsOut
CHECK_DEADLOCK FALSE
