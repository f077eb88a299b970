---------------------------- MODULE MCZynqmpIpi ----------------------------
(***************************************************************************)
(* Instances of ZynqmpIpi for TLC.                                         *)
(***************************************************************************)
EXTENDS ZynqmpIpi

MCMailboxes == {2}
=============================================================================
