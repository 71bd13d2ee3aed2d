------------------------- MODULE MCAdmissionControl -------------------------
(***************************************************************************)
(* Small instances of AdmissionControl.                                    *)
(***************************************************************************)
EXTENDS AdmissionControl, TLC

Symmetry == Permutations(Invocations) \cup Permutations(Operations)
=============================================================================
