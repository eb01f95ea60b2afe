CONSTANTS
    n1 = n1  n2 = n2  n3 = n3  n4 = n4  z1 = z1  z2 = z2
    NoDomain = NoDomain
    NoAttr = NoAttr
    Node <- MCNode
    Domain <- MCDomain
    Scope <- MCScope
    ReplicationFactor <- MCReplicationFactor
    StorageStates <- MCStorageStates
    Attr <- MCAttr
SYMMETRY Symmetry
SPECIFICATION Spec
INVARIANTS TypeOK WriteQuorumAnswer FMajorityIntersects FMajorityReached
