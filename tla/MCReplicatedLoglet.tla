------------------------- MODULE MCReplicatedLoglet -------------------------
EXTENDS ReplicatedLoglet, TLC

\* node sets without locations: a write quorum is any `replication` nodes and
\* an f-majority leaves fewer than `replication` of them
CONSTANT Replication

MCWriteQuorums == {S \in SUBSET Node : Cardinality(S) = Replication}
MCFMajorities == {S \in SUBSET Node : Cardinality(S) = Cardinality(Node) - Replication + 1}

\* the flood strategy with no gray-listed node, and any write quorum
FloodSpread == {WriteableNodes}
AnySpread == {S \in SUBSET WriteableNodes : Cardinality(S) >= Replication}

Symmetry == Permutations(WriteableNodes) \cup Permutations(Client)
=============================================================================
