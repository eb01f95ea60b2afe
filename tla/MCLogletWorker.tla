--------------------------- MODULE MCLogletWorker ---------------------------
(* One worker; the bounds are given in the configurations. *)
EXTENDS LogletWorker
=============================================================================
