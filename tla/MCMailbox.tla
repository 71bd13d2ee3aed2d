------------------------------ MODULE MCMailbox ------------------------------
(***************************************************************************)
(* Small instances of Mailbox.                                             *)
(***************************************************************************)
EXTENDS Mailbox, TLC

Symmetry == Permutations(Senders) \cup Permutations(Receivers)
=============================================================================
