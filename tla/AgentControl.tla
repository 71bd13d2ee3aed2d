----------------------------- MODULE AgentControl -----------------------------
(***************************************************************************)
(* The life of an agent run: AgentControlService::spawn and cancel,        *)
(* run_agent, the settlement of what a run owns, and the recovery at the   *)
(* start of the daemon (crates/executive/src/application/agent_control/    *)
(* mod.rs, settlement.rs, recovery.rs, live_runs.rs, cleanup.rs).          *)
(*                                                                         *)
(* The row of a run, its resource leases, its settlement receipts and the  *)
(* budget reservation are durable; processes, operations, live runs, the   *)
(* admission lease and background resources end with the daemon.  A step   *)
(* is what happens between two awaits on the repository, the budget or the *)
(* kernel; calls of the kernel that follow each other are one step, because*)
(* nothing durable changes between them.  AgentAdmission models how the    *)
(* admission lease is obtained, KernelRuntime the kernel.                  *)
(*                                                                         *)
(* repository.transition names the status it expects; that it is always    *)
(* the stored one is part of what FollowsLifecycle shows.  wait and send   *)
(* change no state that is modelled here and are left out.                 *)
(*                                                                         *)
(* A call that fails is a fault and leaves its state unchanged.  `left'    *)
(* remembers, per agent, which of its things a failing call or a dropped   *)
(* future has left to nobody in this daemon: the paths are named at the    *)
(* actions that write it, and no action reads it.                          *)
(***************************************************************************)
EXTENDS Naturals, FiniteSets

CONSTANTS
  Agents,       \* agent ids; an id is spawned once
  Parent,       \* Parent[a]: the agent that spawned a, or None
  Survivors,    \* agents that declare a resource with survive_child
  Labels,       \* number of resource leases of a run ("admission", "mailbox", "execution")
  Hardened,     \* the values of subagent_settlement to choose from
  MaxFaults,    \* bound: failing calls and dropped callers
  MaxCrashes,   \* bound: crashes of the daemon
  None

ASSUME ControlAssumption ==
  /\ Parent \in [Agents -> Agents \cup {None}] /\ None \notin Agents
  /\ Survivors \subseteq Agents /\ Hardened \subseteq BOOLEAN
  /\ Labels \in Nat /\ MaxFaults \in Nat /\ MaxCrashes \in Nat
  /\ None \notin {"Queued", "Running", "Succeeded", "Failed", "Cancelled", "Interrupted",
                "Created", "Interrupt"}

VARIABLES
  hardened,   \* is subagent_settlement on?
  row,        \* durable, per agent: status, recovery decision, number of resource
              \* leases, budget reservation, the terminals of its settlement receipts
  run,        \* in memory, per agent: where its spawn, task or recovery is and what it has
  up,         \* has reconcile_startup ended?
  faults, crashes,
  left,       \* what nobody in this daemon will end, per agent (history)
  late        \* agents whose reservation was open at a crash and whose row was not (history)

vars == <<hardened, row, run, up, faults, crashes, left, late>>
history == <<faults, crashes, left, late>>

Open == {"Queued", "Running"}     \* "Waiting" is entered by no code path
Ended == {"Succeeded", "Failed", "Cancelled", "Interrupted"}
Outcomes == {"Succeeded", "Failed", "Cancelled"}
Things == {"process", "operation", "live", "resource", "row", "leases", "budget"}

Spawning == {"reserved", "vault", "rowed", "live"}
Undoing == {"undo", "undone"}
Failing == {"startfailed", "teardown", "revoke"}
Settling == {"finish", "record", "terminate", "stop", "quiesce", "unquiet", "giveup", "transfer",
             "flush", "admission", "resources", "leases", "plain", "receipt", "remove"}
Recovering == {"decide", "interrupt", "reclaim", "reclaimLeases", "reclaimReceipt"}
At == {"none", "start", "mark", "marked", "run", "dropped", "over", "lost", "gone"}
        \cup Spawning \cup Undoing \cup Failing \cup Settling \cup Recovering

NoRow == [status |-> None, decision |-> None, leases |-> 0, budget |-> "none", receipts |-> {}]
\* `lease': the admission lease still has its reservation; `terminal': what the
\* settlement will say, the outcome unless something failed.
NoRun(at) == [at |-> at, lease |-> FALSE, proc |-> FALSE, op |-> None, live |-> FALSE,
              token |-> FALSE, res |-> "none", covers |-> FALSE, accepted |-> FALSE,
              outcome |-> None, terminal |-> None]

Init ==
  /\ hardened \in Hardened
  /\ row = [a \in Agents |-> NoRow] /\ run = [a \in Agents |-> NoRun("none")]
  /\ up = TRUE /\ faults = 0 /\ crashes = 0 /\ left = [a \in Agents |-> {}] /\ late = {}

Goto(a, at) == run' = [run EXCEPT ![a].at = at]
Step(a, from, to) == run[a].at = from /\ Goto(a, to)
Fault == faults < MaxFaults /\ faults' = faults + 1
Stays == UNCHANGED <<hardened, up, crashes, late>>

\* An operation that has succeeded, failed or been cancelled stays what it is: "Ended".
Unended(op) == op \in {"Created", "Running"}
Cancelled(op) == IF Unended(op) THEN "Ended" ELSE op

\* What an agent has.
Has(a, x) ==
  \/ x = "process" /\ run[a].proc
  \/ x = "operation" /\ Unended(run[a].op)
  \/ x = "live" /\ run[a].live
  \/ x = "resource" /\ run[a].res = "child"
  \/ x = "row" /\ row[a].status \in Open
  \/ x = "leases" /\ row[a].leases > 0
  \/ x = "budget" /\ row[a].budget = "open"

\* Of these things, those the agent has after the step are left.
Leaving(a, things) == left' = [left EXCEPT ![a] = @ \cup {x \in things : Has(a, x)'}]

----------------------------------------------------------------------------
(* The admission lease and the process at the end of a path.               *)

Revoked(a) == [row EXCEPT ![a].budget = IF @ = "open" THEN "closed" ELSE @]

\* revoke takes the reservation out of the lease before it calls the budget, and its
\* error is dropped.
RevokeLease(a, from, to) ==
  /\ run[a].at = from
  /\ run' = [run EXCEPT ![a].at = to, ![a].lease = FALSE]
  /\ \/ row' = Revoked(a) /\ UNCHANGED <<left, faults>>
     \/ Fault /\ UNCHANGED row /\ Leaving(a, {"budget"})
  /\ Stays

\* terminate_process ends the process and cancels its operations; its error is dropped.
EndProcess(a, from, to) ==
  /\ run[a].at = from /\ UNCHANGED row
  /\ \/ /\ run' = [run EXCEPT ![a].at = to, ![a].proc = FALSE, ![a].op = Cancelled(@)]
        /\ UNCHANGED <<left, faults>>
     \/ /\ run[a].proc /\ Fault
        /\ \E op \in {run[a].op, Cancelled(run[a].op)} :
             run' = [run EXCEPT ![a].at = to, ![a].op = op]
        /\ Leaving(a, {"process", "operation"})
  /\ Stays

----------------------------------------------------------------------------
(* spawn.                                                                  *)

\* validated_parent, and the admission's reservation.
Reserve(a) ==
  /\ up
  /\ Parent[a] # None => row[Parent[a]].status \in Open
  /\ run[a].at = "none"
  /\ run' = [run EXCEPT ![a].at = "reserved", ![a].lease = TRUE]
  /\ row' = [row EXCEPT ![a].budget = "open"]
  /\ UNCHANGED <<hardened, up, history>>

\* The process with its space, the operation and the mailbox, then, with no await, the
\* receipt of the projection and the memory vault.
SetUp(a) ==
  /\ run[a].at = "reserved"
  /\ run' = [run EXCEPT ![a].at = "vault", ![a].proc = TRUE, ![a].op = "Created"]
  /\ UNCHANGED <<hardened, row, up, history>>

\* How far the calls of the kernel have come: nothing, a process, a process with its operation.
Begun(a) == IF run[a].at = "reserved"
              THEN {<<FALSE, None>>, <<TRUE, None>>, <<TRUE, "Created">>}
              ELSE {<<run[a].proc, run[a].op>>}

\* spawn returns the error and undoes nothing.
SetUpFailsAtOnce(a) ==
  /\ run[a].at \in {"reserved", "vault"} /\ Fault
  /\ Goto(a, "over")
  /\ UNCHANGED <<row, left>> /\ Stays

\* spawn_process, submit_operation, register_process_mailbox or repository.create: what
\* exists is cancelled and terminated, then the lease is revoked.
SetUpFails(a) ==
  /\ run[a].at \in {"reserved", "vault"} /\ Fault
  /\ \E begun \in Begun(a) :
       run' = [run EXCEPT ![a].at = "undo", ![a].proc = begun[1], ![a].op = begun[2]]
  /\ UNCHANGED <<row, left>> /\ Stays

Undo(a) == EndProcess(a, "undo", "undone")
UndoRevoke(a) == RevokeLease(a, "undone", "over")

\* The receipt or the vault fails, `?`: the lease is dropped, process, operation and
\* mailbox stay.
RegisterFails(a) ==
  /\ run[a].at = "reserved" /\ Fault
  /\ run' = [run EXCEPT ![a].at = "dropped", ![a].proc = TRUE, ![a].op = "Created"]
  /\ UNCHANGED row /\ Leaving(a, {"process", "operation"}) /\ Stays

CreateRow(a) ==
  /\ Step(a, "vault", "rowed")
  /\ row' = [row EXCEPT ![a].status = "Queued"]
  /\ UNCHANGED <<hardened, up, history>>

\* put_resource_lease, one by one, with `?`: the row stays Queued without a run.
PutLease(a) ==
  \/ /\ run[a].at = "rowed" /\ row[a].leases < Labels
     /\ row' = [row EXCEPT ![a].leases = @ + 1]
     /\ UNCHANGED <<run, hardened, up, history>>
  \/ /\ Step(a, "rowed", "dropped") /\ Fault
     /\ UNCHANGED row /\ Leaving(a, Things \ {"budget"}) /\ Stays

GoLive(a) ==
  /\ run[a].at = "rowed" /\ row[a].leases = Labels
  /\ run' = [run EXCEPT ![a].at = "live", ![a].live = TRUE]
  /\ UNCHANGED <<hardened, row, up, history>>

\* bind_before_launch, and the task is spawned.
Launch(a) == Step(a, "live", "start") /\ UNCHANGED <<hardened, row, up, history>>

\* A refused handoff calls cancel, which waits for a task that was never started: the
\* row stays Queued and the live run registered.
BindFails(a) ==
  /\ run[a].at = "live" /\ Fault
  /\ run' = [run EXCEPT ![a].at = "dropped", ![a].token = TRUE, ![a].op = Cancelled(@)]
  /\ UNCHANGED row /\ Leaving(a, Things \ {"budget"}) /\ Stays

\* The capability layer drops the future of a tool whose turn is cancelled, and spawn with
\* it, at any of its awaits.  The lease is dropped, unless revoke had taken its
\* reservation; nothing else is undone.
DropSpawn(a) ==
  /\ run[a].at \in Spawning \cup Undoing /\ Fault /\ UNCHANGED row
  /\ \E begun \in Begun(a) :
       run' = [run EXCEPT ![a].at = IF @ = "undone" THEN "over" ELSE "dropped",
                          ![a].lease = run[a].at # "undone",
                          ![a].proc = begun[1], ![a].op = begun[2]]
  /\ Leaving(a, IF run[a].at = "undone" THEN Things ELSE Things \ {"budget"})
  /\ Stays

\* The task that a dropped admission lease leaves.
DroppedRevoke(a) == RevokeLease(a, "dropped", "over")

----------------------------------------------------------------------------
(* cancel: the tokens of the live subtree, then the operation.             *)

\* The agents below a whose ancestors up to a are live.
Subtree(a) ==
  {b \in Agents : \A S \in SUBSET Agents :
     a \in S /\ (\A d \in Agents : run[d].live /\ Parent[d] \in S => d \in S) => b \in S}

\* The caller may be dropped, or the kernel refuse, before the operation is cancelled.
Cancel(a) ==
  /\ row[a].status \in Open /\ run[a].live
  /\ \E reached \in BOOLEAN :
       /\ IF reached THEN UNCHANGED faults ELSE Fault
       /\ run' = [b \in Agents |->
            IF b = a THEN [run[a] EXCEPT !.token = TRUE, !.op = IF reached THEN Cancelled(@) ELSE @]
            ELSE IF run[b].live /\ b \in Subtree(a) THEN [run[b] EXCEPT !.token = TRUE]
            ELSE run[b]]
  /\ UNCHANGED <<row, left>> /\ Stays

----------------------------------------------------------------------------
(* run_agent up to the outcome.                                            *)

\* A cancellation before the start is met here: the operation does not start.  Each of
\* the three calls can also fail by itself, before or after the operation is running.
Start(a) ==
  /\ run[a].at = "start"
  /\ \/ /\ run[a].op = "Created"
        /\ run' = [run EXCEPT ![a].at = "mark", ![a].op = "Running"] /\ UNCHANGED faults
     \/ run[a].op # "Created" /\ Goto(a, "startfailed") /\ UNCHANGED faults
     \/ /\ run[a].op = "Created" /\ Fault
        /\ \E op \in {"Created", "Running"} :
             run' = [run EXCEPT ![a].at = "startfailed", ![a].op = op]
  /\ UNCHANGED <<row, left>> /\ Stays

\* The failure is not written down.
StartFailedSilently(a) ==
  Step(a, "startfailed", "teardown") /\ UNCHANGED <<hardened, row, up, history>>

\* No path from here deletes the resource leases: they stay until they expire.
StartFailed(a) ==
  /\ Step(a, "startfailed", "teardown")
  /\ \/ row' = [row EXCEPT ![a].status = "Failed"] /\ Leaving(a, {"leases"}) /\ UNCHANGED faults
     \/ Fault /\ UNCHANGED row /\ Leaving(a, {"leases", "row"})
  /\ Stays

Teardown(a) == EndProcess(a, "teardown", "revoke")
TeardownRevoke(a) == RevokeLease(a, "revoke", "remove")

\* The run begins and its row is not told.
MarkUntold(a) == Step(a, "mark", "marked") /\ UNCHANGED <<hardened, row, up, history>>

\* Queued -> Running; if it cannot be written the run is torn down and its row stays.
Mark(a) ==
  \/ /\ Step(a, "mark", "marked")
     /\ row' = [row EXCEPT ![a].status = "Running"]
     /\ UNCHANGED <<hardened, up, history>>
  \/ /\ Step(a, "mark", "teardown") /\ Fault
     /\ UNCHANGED row /\ Leaving(a, {"leases", "row"}) /\ Stays

\* The admission lease moves to its running phase; if it refuses the run is torn down and
\* its row stays Running.
MarkRunning(a) ==
  \/ /\ run[a].at = "marked"
     /\ run' = [run EXCEPT ![a].at = "run", ![a].res = IF a \in Survivors THEN "child" ELSE @]
     /\ UNCHANGED <<hardened, row, up, history>>
  \/ /\ Step(a, "marked", "teardown") /\ Fault
     /\ UNCHANGED row /\ Leaving(a, {"leases", "row"}) /\ Stays

\* The launcher answers, or the token wins the select.
Outcome(a) ==
  /\ run[a].at = "run"
  /\ \E o \in Outcomes :
       /\ o = "Cancelled" => run[a].token
       /\ run' = [run EXCEPT ![a].at = "finish", ![a].outcome = o, ![a].terminal = o]
  /\ UNCHANGED <<hardened, row, up, history>>

----------------------------------------------------------------------------
(* run_agent after the outcome.                                            *)

\* The operation keeps a cancellation that came first; an error is dropped.
Finish(a) ==
  /\ run[a].at = "finish"
  /\ \/ run' = [run EXCEPT ![a].at = "record", ![a].op = "Ended"] /\ UNCHANGED faults
     \/ Goto(a, "record") /\ run[a].op = "Running" /\ Fault
  /\ UNCHANGED <<row, left>> /\ Stays

RecordOutcome(a) ==
  /\ Step(a, "record", "terminate")
  /\ \/ row' = [row EXCEPT ![a].status = run[a].outcome] /\ UNCHANGED <<left, faults>>
     \/ Fault /\ UNCHANGED row /\ Leaving(a, {"row"})
  /\ Stays

Terminate(a) == EndProcess(a, "terminate", IF hardened THEN "quiesce" ELSE "stop")

\* The parent is looked up before the evidence is recorded; the live run is there until
\* Remove.
Quiesce(a) ==
  \/ /\ run[a].at = "quiesce"
     /\ run' = [run EXCEPT ![a].at = "transfer",
                           ![a].covers = Parent[a] # None /\ run[Parent[a]].live]
     /\ UNCHANGED <<hardened, row, up, history>>
  \/ Step(a, "quiesce", "unquiet") /\ Fault /\ UNCHANGED <<row, left>> /\ Stays

\* terminate_managed_resource knows every declared resource: when quiescing failed, and
\* without settlement, all of them are cancelled and awaited.
StopResources(a) ==
  /\ run[a].at \in {"unquiet", "stop"}
  /\ run' = [run EXCEPT ![a].at = IF @ = "unquiet" THEN "giveup" ELSE "admission",
                        ![a].res = IF @ = "child" THEN "ended" ELSE @]
  /\ UNCHANGED <<hardened, row, up, history>>

GiveUp(a) == RevokeLease(a, "giveup", "plain")

MayTransfer(a) == run[a].covers /\ a \in Survivors /\ run[a].outcome = "Succeeded"

\* The rest goes to the parent if its reservation is still there; a failing call counts
\* as a rejection and leaves the reservation in the lease.
Transfer(a) ==
  /\ run[a].at = "transfer"
  /\ \/ /\ MayTransfer(a) /\ row[Parent[a]].budget = "open"
        /\ row' = [row EXCEPT ![a].budget = "transferred"]
        /\ run' = [run EXCEPT ![a].at = "flush", ![a].accepted = TRUE, ![a].lease = FALSE]
        /\ UNCHANGED faults
     \/ /\ ~(MayTransfer(a) /\ row[Parent[a]].budget = "open")
        /\ Goto(a, "flush") /\ UNCHANGED <<row, faults>>
     \/ MayTransfer(a) /\ Fault /\ Goto(a, "flush") /\ UNCHANGED row
  /\ UNCHANGED left /\ Stays

\* An error the memory sink has kept turns the terminal into a failure.
Flush(a) ==
  /\ run[a].at = "flush"
  /\ \E failed \in BOOLEAN :
       /\ IF failed THEN Fault ELSE UNCHANGED faults
       /\ run' = [run EXCEPT ![a].at = IF run[a].accepted THEN "resources" ELSE "admission",
                             ![a].terminal = IF failed THEN "Failed" ELSE @]
  /\ UNCHANGED <<row, left>> /\ Stays

Settles(a) == run[a].terminal = "Succeeded"

\* settle or revoke.  A failed settle leaves the reservation to the drop of the lease, a
\* failed revoke has taken it out; either way the terminal is a failure (without
\* settlement nobody reads it).
SettleAdmission(a) ==
  /\ run[a].at = "admission"
  /\ LET to == IF hardened THEN "resources" ELSE "plain" IN
       \/ /\ run' = [run EXCEPT ![a].at = to, ![a].lease = FALSE]
          /\ row' = Revoked(a) /\ UNCHANGED <<left, faults>>
       \/ /\ run' = [run EXCEPT ![a].at = to, ![a].lease = Settles(a), ![a].terminal = "Failed"]
          /\ Fault /\ UNCHANGED row /\ Leaving(a, IF Settles(a) THEN {} ELSE {"budget"})
  /\ Stays

\* The parent's authority is enough.
ResourcesUnpaid(a) ==
  /\ run[a].at = "resources"
  /\ run' = [run EXCEPT ![a].at = "leases",
                        ![a].res = CASE @ # "child" -> @
                                     [] run[a].covers -> "parent"
                                     [] OTHER -> "ended"]
  /\ UNCHANGED <<hardened, row, up, history>>

\* can_reparent: declared, covered and its budget transferred; anything else is terminated,
\* and so is a resource whose reparenting fails.  Failures make the terminal a failure.
Resources(a) ==
  /\ run[a].at = "resources" /\ UNCHANGED row
  /\ \/ /\ run' = [run EXCEPT ![a].at = "leases",
                              ![a].res = CASE @ # "child" -> @
                                           [] run[a].covers /\ run[a].accepted -> "parent"
                                           [] OTHER -> "ended"]
        /\ UNCHANGED <<left, faults>>
     \/ /\ run[a].res = "child" /\ Fault
        /\ \E res \in {"child", "ended"} :
             run' = [run EXCEPT ![a].at = "leases", ![a].res = res, ![a].terminal = "Failed"]
        /\ Leaving(a, {"resource"})
  /\ Stays

\* Evidence or the receipt cannot be recorded, `?`: the settlement stops where it is.
SettleFails(a) ==
  /\ run[a].at \in {"resources", "leases", "receipt"} /\ Goto(a, "remove") /\ Fault
  /\ UNCHANGED row /\ Leaving(a, {"resource", "leases"}) /\ Stays

\* The leases that are not released are noted as failures, and the receipt still written.
ReleaseLeases(a) ==
  /\ run[a].at = "leases"
  /\ \/ /\ Goto(a, "receipt") /\ row' = [row EXCEPT ![a].leases = 0]
        /\ UNCHANGED <<left, faults>>
     \/ /\ run' = [run EXCEPT ![a].at = "receipt", ![a].terminal = "Failed"] /\ Fault
        /\ \E n \in 1..row[a].leases : row' = [row EXCEPT ![a].leases = n]
        /\ Leaving(a, {"leases"})
  /\ Stays

\* Without settlement, and when quiescing failed, they are deleted and errors dropped.
DeleteLeases(a) ==
  /\ Step(a, "plain", "remove")
  /\ \/ row' = [row EXCEPT ![a].leases = 0] /\ UNCHANGED <<left, faults>>
     \/ /\ \E n \in 1..row[a].leases : row' = [row EXCEPT ![a].leases = n]
        /\ Fault /\ Leaving(a, {"leases"})
  /\ Stays

PutReceipt(a) ==
  /\ Step(a, "receipt", "remove")
  /\ row' = [row EXCEPT ![a].receipts = @ \cup {run[a].terminal}]
  /\ UNCHANGED <<hardened, up, history>>

\* live.remove; the admission lease and the locals go with the task.
Remove(a) ==
  /\ run[a].at = "remove"
  /\ run' = [run EXCEPT ![a].at = IF run[a].lease THEN "dropped" ELSE "over", ![a].live = FALSE,
                        ![a].covers = FALSE, ![a].accepted = FALSE,
                        ![a].outcome = None, ![a].terminal = None]
  /\ UNCHANGED <<hardened, row, up, history>>

\* A reparented resource listens to its new owner's token and to nothing else.
ParentCancelled(a) ==
  /\ run[a].res = "parent" /\ run[Parent[a]].token
  /\ run' = [run EXCEPT ![a].res = "ended"]
  /\ UNCHANGED <<hardened, row, up, history>>

----------------------------------------------------------------------------
(* A crash, and reconcile_startup: row after row.  A call of the recovery  *)
(* that fails keeps the daemon from starting, which is a crash here; only  *)
(* the release of a lease may fail and be noted in the receipt.            *)

Unlisted(a) == row[a].status \notin Open /\ row[a].budget = "open"

Crash ==
  /\ crashes < MaxCrashes /\ crashes' = crashes + 1
  /\ up' = FALSE
  /\ run' = [a \in Agents |-> NoRun(IF run[a].at = "none" THEN "none" ELSE "lost")]
  /\ late' = late \cup {a \in Agents : Unlisted(a)}
  /\ UNCHANGED <<hardened, row, faults, left>>

Between == \A a \in Agents : run[a].at \notin Recovering

Pick(a) ==
  /\ ~up /\ Between /\ row[a].status \in Open
  /\ Goto(a, IF row[a].decision = None THEN "decide" ELSE "interrupt")
  /\ UNCHANGED <<hardened, row, up, history>>

\* decide: the new kernel knows neither the operation nor the process.
Decision(process_live, operation_terminal, checkpoint) ==
  IF operation_terminal THEN "Finalize"
  ELSE IF process_live /\ checkpoint THEN "Resume" ELSE "Interrupt"

Decide(a) ==
  /\ Step(a, "decide", "interrupt")
  /\ row' = [row EXCEPT ![a].decision = Decision(run[a].proc, run[a].op # None, FALSE)]
  /\ UNCHANGED <<hardened, up, history>>

\* The row is closed and what the run owned is not looked at.
InterruptOnly(a) ==
  /\ row[a].decision = "Interrupt"
  /\ Step(a, "interrupt", "gone")
  /\ row' = [row EXCEPT ![a].status = "Interrupted"]
  /\ UNCHANGED <<hardened, up, history>>

Interrupt(a) ==
  /\ row[a].decision = "Interrupt"
  /\ Step(a, "interrupt", IF hardened THEN "reclaim" ELSE "gone")
  /\ row' = [row EXCEPT ![a].status = "Interrupted"]
  /\ UNCHANGED <<hardened, up, history>>

\* The reservation is closed although its rest has gone to the parent.
ReclaimTransferred(a) ==
  /\ Step(a, "reclaim", "reclaimLeases")
  /\ row' = [row EXCEPT ![a].budget = "closed"]
  /\ UNCHANGED <<hardened, up, history>>

\* "A durable transfer is authoritative and must never be reversed."
Reclaim(a) ==
  /\ Step(a, "reclaim", "reclaimLeases") /\ row' = Revoked(a)
  /\ UNCHANGED <<hardened, up, history>>

ReclaimLeases(a) ==
  /\ Step(a, "reclaimLeases", "reclaimReceipt")
  /\ \/ row' = [row EXCEPT ![a].leases = 0] /\ UNCHANGED <<left, faults>>
     \/ /\ \E n \in 1..row[a].leases : row' = [row EXCEPT ![a].leases = n]
        /\ Fault /\ Leaving(a, {"leases"})
  /\ Stays

\* "daemon restart reclaimed child resources" is a failure.
ReclaimReceipt(a) ==
  /\ Step(a, "reclaimReceipt", "gone")
  /\ row' = [row EXCEPT ![a].receipts = @ \cup {"Failed"}]
  /\ UNCHANGED <<hardened, up, history>>

\* The daemon is ready when no row is open; then reclaim_expired deletes the leases that
\* have expired by now, of terminal runs.
Ready ==
  /\ ~up /\ Between /\ \A a \in Agents : row[a].status \notin Open
  /\ up' = TRUE
  /\ \E expired \in SUBSET {a \in Agents : row[a].status \in Ended} :
       row' = [a \in Agents |-> IF a \in expired THEN [row[a] EXCEPT !.leases = 0] ELSE row[a]]
  /\ run' = [a \in Agents |-> IF run[a].at = "lost" THEN NoRun("gone") ELSE run[a]]
  /\ UNCHANGED <<hardened, history>>

----------------------------------------------------------------------------
Spawns(a) == Reserve(a) \/ SetUp(a) \/ SetUpFails(a) \/ Undo(a) \/ UndoRevoke(a) \/ RegisterFails(a)
               \/ CreateRow(a) \/ PutLease(a) \/ GoLive(a) \/ BindFails(a) \/ Launch(a)
               \/ DroppedRevoke(a)
Runs(a) == Start(a) \/ StartFailed(a) \/ Teardown(a) \/ TeardownRevoke(a) \/ Mark(a)
             \/ MarkRunning(a) \/ Outcome(a)
Finishes(a) == Finish(a) \/ RecordOutcome(a) \/ Terminate(a) \/ Quiesce(a) \/ StopResources(a)
                 \/ GiveUp(a) \/ Transfer(a) \/ Flush(a) \/ SettleAdmission(a) \/ Resources(a)
                 \/ SettleFails(a) \/ ReleaseLeases(a) \/ DeleteLeases(a) \/ PutReceipt(a) \/ Remove(a)
Recovers(a) == Pick(a) \/ Decide(a) \/ Interrupt(a) \/ Reclaim(a) \/ ReclaimLeases(a) \/ ReclaimReceipt(a)
Acts(a) == Spawns(a) \/ Runs(a) \/ Finishes(a) \/ Recovers(a)
Next ==
  \/ \E a \in Agents : Acts(a) \/ DropSpawn(a) \/ Cancel(a) \/ ParentCancelled(a)
  \/ Crash \/ Ready
Spec == Init /\ [][Next]_vars

\* Fairness: a task and the recovery go on, and a spawn does until it is dropped (DropSpawn
\* may come at any of its awaits); the budget of a run bounds its time, so a launcher
\* answers or is cancelled.
FairSpec == Spec /\ (\A a \in Agents : WF_vars(Acts(a))) /\ WF_vars(Ready)
----------------------------------------------------------------------------
(* Properties.                                                             *)

\* The state of the model is well formed.
TypeOK ==
  /\ hardened \in BOOLEAN /\ up \in BOOLEAN
  /\ row \in [Agents -> [status : {None} \cup Open \cup Ended,
                         decision : {None, "Interrupt", "Finalize", "Resume"},
                         leases : 0..Labels, budget : {"none", "open", "closed", "transferred"},
                         receipts : SUBSET Outcomes]]
  /\ run \in [Agents -> [at : At, lease : BOOLEAN, proc : BOOLEAN,
                         op : {None, "Created", "Running", "Ended"},
                         live : BOOLEAN, token : BOOLEAN,
                         res : {"none", "child", "parent", "ended"},
                         covers : BOOLEAN, accepted : BOOLEAN,
                         outcome : {None} \cup Outcomes, terminal : {None} \cup Outcomes]]
  /\ faults \in 0..MaxFaults /\ crashes \in 0..MaxCrashes
  /\ left \in [Agents -> SUBSET Things] /\ late \subseteq Agents

\* When a spawn has failed or was dropped, or a run is over, whichever way it went, what
\* the agent still has (process, operation, live run, resource, open row, leases, open
\* reservation) is only what a failing call or the dropped future left: one failure does
\* not keep the rest from being given back.
\* A settlement receipt that does not say Failed is true of all it vouches for: leases
\* released, reservation closed, resource ended or moved.  One that does still stands
\* for leases that were released unless releasing them failed.
NothingLeft ==
  /\ TypeOK
  /\ \A a \in Agents :
       /\ run[a].at = "over" => \A x \in Things : Has(a, x) => x \in left[a]
       /\ row[a].receipts \ {"Failed"} # {} => \A x \in {"resource", "leases", "budget"} : ~Has(a, x)
       /\ row[a].receipts # {} /\ Has(a, "leases") => "leases" \in left[a]

\* After a restart no row is open, and with settlement no reservation of a lost run is,
\* except one whose row was not open at a crash: the recovery looks at open rows only.
Reclaimed ==
  up => \A a \in Agents : run[a].at = "gone" =>
          /\ row[a].status \notin Open
          /\ hardened /\ a \notin late => row[a].budget # "open"

\* A resource in the hands of the parent belongs to an agent that declared it and
\* brought what was left of its own reservation to the parent's: none moves on the
\* parent's authority alone.  (Whether the parent still runs, and how long its reservation
\* then lasts, is not said.)
SurvivorBringsItsBudget ==
  \A a \in Agents : run[a].res = "parent" =>
    a \in Survivors /\ Parent[a] # None /\ row[a].budget = "transferred"

\* Neither a recovery nor a late task rewrites an end that was recorded, a recovery
\* decision, a transfer or a receipt.
EndStands ==
  [][\A a \in Agents :
       /\ row[a].status \in Ended => row'[a].status = row[a].status
       /\ row[a].decision # None => row'[a].decision = row[a].decision
       /\ row[a].budget = "transferred" => row'[a].budget = "transferred"
       /\ row[a].receipts \subseteq row'[a].receipts]_vars

\* The stored statuses follow the reducer of lifecycle.rs through spawns, cancellations,
\* failing calls, crashes and recoveries, although callers check them at one time and
\* write them at another: this module implements AgentLifecycle.
Lifecycle == INSTANCE AgentLifecycle WITH status <- [a \in Agents |-> row[a].status]
FollowsLifecycle == Lifecycle!Spec

\* Every run that has a row ends, if need be at the next start, unless a write of its
\* status failed or its spawn was dropped or failed with the row in place.
RunsEnd == \A a \in Agents : row[a].status \in Open ~> (row[a].status \in Ended \/ "row" \in left[a])
=============================================================================
