----------------------- MODULE MCPartitionLeadership -----------------------
(***************************************************************************)
(* Two processors, one of which has the newer binary.                      *)
(***************************************************************************)
EXTENDS PartitionLeadership
=============================================================================
