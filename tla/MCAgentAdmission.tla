--------------------------- MODULE MCAgentAdmission ---------------------------
(***************************************************************************)
(* A small instance of AgentAdmission: two roots, one with a parent and    *)
(* its child.                                                              *)
(***************************************************************************)
EXTENDS AgentAdmission, TLC

CONSTANTS a1, a2, a3, r1, r2

RootOf == a1 :> r1 @@ a2 :> r1 @@ a3 :> r2
\* One slot and a full queue; two slots and room for everybody.
SmallConfigs == {[running |-> 1, resident |-> 2, queued |-> 1],
                 [running |-> 2, resident |-> 2, queued |-> 2]}
ParentOf == a1 :> None @@ a2 :> a1 @@ a3 :> None
=============================================================================
