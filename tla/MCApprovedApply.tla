---------------------------- MODULE MCApprovedApply ----------------------------
(***************************************************************************)
(* Two callers about one approval.                                         *)
(***************************************************************************)
EXTENDS ApprovedApply
=============================================================================
