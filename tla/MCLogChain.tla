----------------------------- MODULE MCLogChain -----------------------------
(* Processes that make one call at a time. *)
EXTENDS LogChain, TLC

OneTask == [p \in Process |-> p]

Symmetry == Permutations(Process)
=============================================================================
