-------------------------- MODULE MCOperationTable --------------------------
(***************************************************************************)
(* Small instances of OperationTable.                                      *)
(***************************************************************************)
EXTENDS OperationTable, TLC

\* Operations, tasks and waiters are interchangeable in the safety runs.
Symmetry == Permutations(Ops) \cup Permutations(Tasks)
=============================================================================
