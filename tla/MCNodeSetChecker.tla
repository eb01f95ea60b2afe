-------------------------- MODULE MCNodeSetChecker --------------------------
(* Four nodes in up to two zones, replication {node: 2, zone: 2}; the       *)
(* storage state and the zone of every node are chosen by Init.             *)
EXTENDS NodeSetChecker, TLC

CONSTANTS n1, n2, n3, n4, z1, z2

MCNode == {n1, n2, n3, n4}
MCDomain == {z1, z2}
MCScope == {0, 1}
MCReplicationFactor == (0 :> 2) @@ (1 :> 2)
MCStorageStates == {"ReadWrite", "DataLoss", "Disabled"}
MCAttr == {0, 1}

Symmetry == Permutations(MCNode) \cup Permutations(MCDomain)
=============================================================================
