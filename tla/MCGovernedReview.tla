--------------------------- MODULE MCGovernedReview ---------------------------
(***************************************************************************)
(* Submissions that share a key, and that reuse a job identifier with      *)
(* other evidence.                                                         *)
(***************************************************************************)
EXTENDS GovernedReview, TLC

Symmetry == Permutations(Clients)

MCRequests ==
  {[job |-> "j1", key |-> "k1", digest |-> "d1"],
   [job |-> "j2", key |-> "k1", digest |-> "d1"],
   [job |-> "j1", key |-> "k2", digest |-> "d2"]}
===============================================================================
