---------------------------- MODULE AgentLifecycle ----------------------------
(***************************************************************************)
(* What agent control promises about the status of a run: the reducer of   *)
(* crates/executive/src/application/agent_control/lifecycle.rs, applied to *)
(* every stored status.  A client that polls the row of a run sees a       *)
(* behaviour of this specification.                                        *)
(***************************************************************************)
CONSTANTS Agents, None

VARIABLE status   \* the stored status of each agent's run, None before its row exists

Target == [Start |-> "Running", Resume |-> "Running", Wait |-> "Waiting", Succeed |-> "Succeeded",
           Fail |-> "Failed", Cancel |-> "Cancelled", Interrupt |-> "Interrupted"]
Events == DOMAIN Target
Stop == {"Fail", "Cancel", "Interrupt"}

\* Which events the reducer accepts in a status; a terminal status accepts none.
Accepted(previous) ==
  CASE previous = "Queued"  -> {"Start"} \cup Stop
    [] previous = "Running" -> {"Wait", "Succeed"} \cup Stop
    [] previous = "Waiting" -> {"Resume", "Succeed"} \cup Stop
    [] OTHER -> {}

Init == status = [a \in Agents |-> None]

Create(a) == status[a] = None /\ status' = [status EXCEPT ![a] = "Queued"]

Reduce(a, event) ==
  /\ event \in Accepted(status[a])
  /\ status' = [status EXCEPT ![a] = Target[event]]

Next == \E a \in Agents : Create(a) \/ \E event \in Events : Reduce(a, event)
Spec == Init /\ [][Next]_status
=============================================================================
