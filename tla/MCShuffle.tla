----------------------------- MODULE MCShuffle -----------------------------
(***************************************************************************)
(* Two nodes that lead the sender by turns, two messages, two targets.     *)
(***************************************************************************)
EXTENDS Shuffle

CONSTANTS t1, t2

(* All messages go to one target, or they alternate between two.           *)
TwoRoutes == {[i \in Index |-> t1], [i \in Index |-> IF i % 2 = 0 THEN t1 ELSE t2]}
=============================================================================
