---------------------------- MODULE MCReadStream ----------------------------
(***************************************************************************)
(* Instances of ReadStream: a reader of a log of two loglets (and the      *)
(* markers between them), three LSNs, and a trim of the first record.      *)
(***************************************************************************)
EXTENDS ReadStream
=============================================================================
