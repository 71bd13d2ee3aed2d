--------------------------- MODULE MCLeaseManager ---------------------------
(***************************************************************************)
(* Small instances of LeaseManager.                                        *)
(***************************************************************************)
EXTENDS LeaseManager, TLC

Symmetry == Permutations(Resources) \cup Permutations(Leases) \cup Permutations(Callers)
=============================================================================
