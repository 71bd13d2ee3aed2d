---------------------------- MODULE MCAgentControl ----------------------------
(***************************************************************************)
(* A small instance of AgentControl: a parent and a child whose background *)
(* resource may survive it.                                                *)
(***************************************************************************)
EXTENDS AgentControl, TLC

CONSTANTS p, c

ParentOf == p :> None @@ c :> p
=============================================================================
