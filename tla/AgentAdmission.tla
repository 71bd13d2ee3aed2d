---------------------------- MODULE AgentAdmission ----------------------------
(***************************************************************************)
(* BoundedAgentAdmission: the queue in front of the agent slots            *)
(* (crates/executive/src/application/agent_control/admission.rs).          *)
(*                                                                         *)
(* A spawn reserves a place in its root's tree, waits in one FIFO of all   *)
(* roots for an execution slot, takes the reservation lock, obtains a      *)
(* budget reservation below its root's scope and leaves with a lease.  The *)
(* lease is settled, revoked, transferred to the parent, or dropped.       *)
(*                                                                         *)
(* A step is what runs between two awaits or two acquisitions of the state *)
(* mutex.  Every waiter can time out or be dropped at an await; budget     *)
(* calls can fail.  The BudgetController is external here: a reservation   *)
(* is open or closed and a failed call changes nothing.  Storage counters  *)
(* move together with `resident' and are left out.                         *)
(***************************************************************************)
EXTENDS Naturals, FiniteSets, Sequences, SequencesExt

CONSTANTS
  Agents,       \* agent ids; an id reserves once
  Roots,        \* root agent ids
  Root,         \* Root[a]: the tree an agent belongs to
  Parent,       \* Parent[a]: the agent whose budget a may hand its rest to
  Configs,      \* the AgentAdmissionConfigs to choose from
  MaxFaults,    \* bound: how many agents meet a failing budget call or an aborted revoke
  None

ASSUME AdmissionAssumption ==
  /\ Root \in [Agents -> Roots] /\ Parent \in [Agents -> Agents \cup {None}]
  /\ None \notin Agents /\ IsFiniteSet(Agents)
  /\ \A c \in Configs : /\ {c.running, c.resident, c.queued} \subseteq Nat \ {0}
                        /\ c.queued <= c.resident
  /\ MaxFaults \in Nat

VARIABLES
  config,    \* running, resident, queued: max_running_agents, max_agents_per_root,
             \* max_queued_per_root
  agent,     \* per agent: where its future or its lease is (see Agent)
  roots,     \* RootAdmissionState: resident, queued, running, budget_scope
  slots,     \* running_slots
  waiters,   \* the FIFO of waiting agents
  lock,      \* the holder of reservation_lock across an await, or None
  listed,    \* the keys of agent_reservations
  created,   \* how often create_root was called for a root
  budget,    \* the reservation in the controller: "none", "open", "closed"
  stray,     \* agents whose dropped lease left a task that revokes
  faulted    \* agents that met a fault

vars == <<config, agent, roots, slots, waiters, lock, listed, created, budget, stray, faulted>>

(***************************************************************************)
(* at: "new" not asked yet; "arming" at the top of the loop; "locking"     *)
(* listening, about to take the lock; "sleeping" in the second select;     *)
(* "admitted" has a slot; "creating", "reserving" in a budget call under   *)
(* the lock; "leased"; "settling", "revoking", "transferring" in a budget  *)
(* call of the lease; "releasing" about to give the counters back;         *)
(* "notifying" about to call notify_waiters; "done".                       *)
(* phase: what the counters hold for it.  notified: its Notified is ready  *)
(* (FALSE once the Notified is gone).  holds: the lease's reservation is   *)
(* Some.  since: somebody left while it slept (history).                   *)
(***************************************************************************)
Waiting == {"arming", "locking", "sleeping"}
InBudget == {"creating", "reserving"}
InLease == {"leased", "settling", "revoking", "transferring"}
At == {"new", "admitted", "releasing", "notifying", "done"} \cup Waiting \cup InBudget \cup InLease
Agent == [at : At, phase : {"Waiting", "Admitted", "Queued", "Running", "Closed"},
          notified : BOOLEAN, holds : BOOLEAN, since : BOOLEAN]

Init ==
  /\ config \in Configs
  /\ agent = [a \in Agents |-> [at |-> "new", phase |-> "Closed", notified |-> FALSE,
                                holds |-> FALSE, since |-> FALSE]]
  /\ roots = [r \in Roots |-> [resident |-> 0, queued |-> 0, running |-> 0, scope |-> 0]]
  /\ slots = 0 /\ waiters = <<>> /\ lock = None /\ listed = {}
  /\ created = [r \in Roots |-> 0]
  /\ budget = [a \in Agents |-> "none"]
  /\ stray = {} /\ faulted = {}

Goto(a, at) == agent' = [agent EXCEPT ![a].at = at]
Minus(n) == IF n = 0 THEN 0 ELSE n - 1     \* saturating_sub(1)
Fault(a) == /\ a \in faulted \/ Cardinality(faulted) < MaxFaults
            /\ faulted' = faulted \cup {a}
Books == <<config, roots, slots, waiters>>
Money == <<lock, listed, created, budget, stray>>

----------------------------------------------------------------------------
(* reserve: the place in the tree and in the queue.                        *)

HasRoom(r) == roots[r].resident < config.resident /\ roots[r].queued < config.queued

Refuse(a) ==
  /\ agent[a].at = "new" /\ ~HasRoom(Root[a])
  /\ Goto(a, "done")
  /\ UNCHANGED <<Books, Money, faulted>>

Enter(a) ==
  /\ agent[a].at = "new" /\ HasRoom(Root[a])
  /\ roots' = [roots EXCEPT ![Root[a]].resident = @ + 1, ![Root[a]].queued = @ + 1]
  /\ waiters' = Append(waiters, a)
  /\ agent' = [agent EXCEPT ![a].at = "arming", ![a].phase = "Waiting"]
  /\ UNCHANGED <<config, slots, Money, faulted>>

\* notified() and enable().
Arm(a) ==
  /\ agent[a].at = "arming"
  /\ Goto(a, "locking")
  /\ UNCHANGED <<Books, Money, faulted>>

MyTurn(a) == Head(waiters) = a /\ slots < config.running


\* The lock, the look under it and the release of the lock have no await in between.
Admit(a) ==
  /\ agent[a].at = "locking" /\ lock = None /\ MyTurn(a)
  /\ waiters' = Tail(waiters) /\ slots' = slots + 1
  /\ agent' = [agent EXCEPT ![a].at = "admitted", ![a].phase = "Admitted", ![a].notified = FALSE]
  /\ UNCHANGED <<config, roots, Money, faulted>>

Sleep(a) ==
  /\ agent[a].at = "locking" /\ lock = None /\ ~MyTurn(a)
  /\ agent' = [agent EXCEPT ![a].at = "sleeping", ![a].since = FALSE]
  /\ UNCHANGED <<Books, Money, faulted>>

Wake(a) ==
  /\ agent[a].at = "sleeping" /\ agent[a].notified
  /\ agent' = [agent EXCEPT ![a].at = "arming", ![a].notified = FALSE, ![a].since = FALSE]
  /\ UNCHANGED <<Books, Money, faulted>>

----------------------------------------------------------------------------
(* reserve: the budget, under the reservation lock.                        *)

Lock(a) ==
  /\ agent[a].at = "admitted" /\ lock = None
  /\ lock' = a
  /\ Goto(a, IF roots[Root[a]].scope = 0 THEN "creating" ELSE "reserving")
  /\ UNCHANGED <<Books, listed, created, budget, stray, faulted>>

CreateRoot(a) ==
  /\ agent[a].at = "creating"
  /\ created' = [created EXCEPT ![Root[a]] = @ + 1]
  /\ roots' = [roots EXCEPT ![Root[a]].scope = IF @ = 0 THEN created'[Root[a]] ELSE @]
  /\ Goto(a, "reserving")
  /\ UNCHANGED <<config, slots, waiters, lock, listed, budget, stray, faulted>>

ReserveChild(a) ==
  /\ agent[a].at = "reserving"
  /\ budget' = [budget EXCEPT ![a] = "open"]
  /\ listed' = listed \cup {a} /\ lock' = None
  /\ agent' = [agent EXCEPT ![a].at = "leased", ![a].phase = "Queued", ![a].holds = TRUE]
  /\ UNCHANGED <<Books, created, stray, faulted>>

\* The lock is not given back on the way out.
GiveUpWithLock(a) ==
  /\ agent[a].at \in {"locking", "sleeping", "admitted"} \cup InBudget
  /\ agent' = [agent EXCEPT ![a].at = "releasing", ![a].notified = FALSE, ![a].since = FALSE]
  /\ UNCHANGED <<Books, Money, faulted>>

(***************************************************************************)
(* PendingAdmission::drop: the timer of a select, the budget's refusal or  *)
(* the end of the caller's future.  The guard goes first.                  *)
(***************************************************************************)
GiveUp(a) ==
  /\ agent[a].at \in {"locking", "sleeping", "admitted"} \cup InBudget
  /\ agent' = [agent EXCEPT ![a].at = "releasing", ![a].notified = FALSE, ![a].since = FALSE]
  /\ lock' = IF lock = a THEN None ELSE lock
  /\ UNCHANGED <<Books, listed, created, budget, stray, faulted>>

----------------------------------------------------------------------------
(* The lease.                                                              *)

MarkRunning(a) ==
  /\ agent[a].at = "leased" /\ agent[a].phase = "Queued"
  /\ roots' = [roots EXCEPT ![Root[a]].queued = Minus(@), ![Root[a]].running = @ + 1]
  /\ agent' = [agent EXCEPT ![a].phase = "Running"]
  /\ UNCHANGED <<config, slots, waiters, Money, faulted>>

Settle(a) ==
  /\ agent[a].at = "leased" /\ agent[a].holds
  /\ Goto(a, "settling")
  /\ UNCHANGED <<Books, Money, faulted>>

\* transfer_remaining_to finds the parent's reservation before it calls.
Transfer(a) ==
  /\ agent[a].at = "leased" /\ agent[a].holds /\ Parent[a] \in listed
  /\ Goto(a, "transferring")
  /\ UNCHANGED <<Books, Money, faulted>>

\* revoke takes the reservation out of the lease before it calls.
Revoke(a) ==
  /\ agent[a].at = "leased"
  /\ agent' = [agent EXCEPT ![a].at = IF agent[a].holds THEN "revoking" ELSE "releasing",
                            ![a].holds = FALSE]
  /\ listed' = IF agent[a].holds THEN listed ELSE listed \ {a}
  /\ UNCHANGED <<Books, lock, created, budget, stray, faulted>>

Close(a, at) ==
  /\ agent[a].at = at /\ budget[a] = "open"
  /\ budget' = [budget EXCEPT ![a] = "closed"]
  /\ agent' = [agent EXCEPT ![a].at = "releasing", ![a].holds = FALSE]
  /\ listed' = listed \ {a}
  /\ UNCHANGED <<Books, lock, created, stray, faulted>>

Settled(a) == Close(a, "settling")
Revoked(a) == Close(a, "revoking")
Transferred(a) ==
  /\ agent[a].at = "transferring" /\ budget[Parent[a]] = "open"
  /\ Close(a, "transferring")

\* The parent's reservation is gone, or the call fails: the lease stays as it is.
CallFails(a) ==
  /\ agent[a].at \in {"settling", "revoking", "transferring"}
  /\ IF agent[a].at = "transferring" /\ budget[Parent[a]] # "open"
       THEN UNCHANGED faulted
       ELSE Fault(a)
  /\ Goto(a, "leased")
  /\ UNCHANGED <<Books, Money>>

\* The lease of an unfinished run is dropped without a thought for its reservation.
DropLeaseOnly(a) ==
  /\ agent[a].at \in InLease
  /\ IF agent[a].at = "revoking" THEN Fault(a) ELSE UNCHANGED faulted
  /\ agent' = [agent EXCEPT ![a].at = "releasing", ![a].holds = FALSE]
  /\ UNCHANGED <<Books, Money>>

\* Drop: the counters first, then a task for the reservation that is still held.  A
\* future that is aborted inside revoke has already taken it.
DropLease(a) ==
  /\ agent[a].at \in InLease
  /\ IF agent[a].at = "revoking" THEN Fault(a) ELSE UNCHANGED faulted
  /\ agent' = [agent EXCEPT ![a].at = "releasing", ![a].holds = FALSE]
  /\ stray' = IF agent[a].holds THEN stray \cup {a} ELSE stray
  /\ UNCHANGED <<Books, lock, listed, created, budget>>

StrayRevoke(a) ==
  /\ a \in stray
  /\ stray' = stray \ {a}
  /\ \/ budget' = [budget EXCEPT ![a] = "closed"] /\ UNCHANGED faulted
     \/ Fault(a) /\ UNCHANGED budget
  /\ UNCHANGED <<Books, agent, lock, listed, created>>

----------------------------------------------------------------------------
(* release_topology, and the same in PendingAdmission::drop.               *)

\* retain: a waiter stands in the queue once.
Leave(queue, a) ==
  IF a \in ToSet(queue) THEN RemoveAt(queue, CHOOSE i \in DOMAIN queue : queue[i] = a) ELSE queue

\* Queued is given back whatever became of the lease.
LessAlwaysQueued(r, phase) ==
  [roots[r] EXCEPT !.resident = Minus(@), !.queued = Minus(@)]

Less(r, phase) ==
  [roots[r] EXCEPT !.resident = Minus(@),
                   !.queued = IF phase = "Running" THEN @ ELSE Minus(@),
                   !.running = IF phase = "Running" THEN Minus(@) ELSE @]

\* What a waiter leaves is not announced.
ReleaseQuietly(a) ==
  /\ agent[a].at = "releasing"
  /\ waiters' = Leave(waiters, a)
  /\ slots' = IF agent[a].phase = "Waiting" THEN slots ELSE Minus(slots)
  /\ roots' = [roots EXCEPT ![Root[a]] = Less(Root[a], agent[a].phase)]
  /\ agent' = [b \in Agents |->
                 IF b = a THEN [agent[a] EXCEPT !.at = IF agent[a].phase = "Waiting" THEN "done"
                                                      ELSE "notifying", !.phase = "Closed"]
                 ELSE [agent[b] EXCEPT !.since = @ \/ agent[b].at = "sleeping"]]
  /\ UNCHANGED <<config, Money, faulted>>

Release(a) ==
  /\ agent[a].at = "releasing"
  /\ waiters' = Leave(waiters, a)
  /\ slots' = IF agent[a].phase = "Waiting" THEN slots ELSE Minus(slots)
  /\ roots' = [roots EXCEPT ![Root[a]] = Less(Root[a], agent[a].phase)]
  /\ agent' = [b \in Agents |->
                 IF b = a THEN [agent[a] EXCEPT !.at = "notifying", !.phase = "Closed"]
                 ELSE [agent[b] EXCEPT !.since = @ \/ agent[b].at = "sleeping"]]
  /\ UNCHANGED <<config, Money, faulted>>

Hear(b) == [agent[b] EXCEPT !.notified = @ \/ agent[b].at \in {"locking", "sleeping"}]

\* notify_waiters reaches everybody who listens.
NotifyWaiters(a) ==
  /\ agent[a].at = "notifying"
  /\ agent' = [b \in Agents |->
                 IF b = a THEN [agent[a] EXCEPT !.at = "done"]
                 ELSE Hear(b)]
  /\ UNCHANGED <<Books, Money, faulted>>

----------------------------------------------------------------------------
Waits(a) == Enter(a) \/ Refuse(a) \/ Arm(a) \/ Admit(a) \/ Sleep(a) \/ Wake(a)
Reserves(a) == Lock(a) \/ CreateRoot(a) \/ ReserveChild(a)
Leases(a) == MarkRunning(a) \/ Settle(a) \/ Transfer(a) \/ Revoke(a)
Answers(a) == Settled(a) \/ Revoked(a) \/ Transferred(a) \/ CallFails(a)
Leaves(a) == Release(a) \/ NotifyWaiters(a) \/ StrayRevoke(a)
Next == \E a \in Agents :
          Waits(a) \/ Reserves(a) \/ GiveUp(a) \/ Leases(a) \/ Answers(a) \/ DropLease(a) \/ Leaves(a)
Spec == Init /\ [][Next]_vars

(***************************************************************************)
(* Fairness: a runnable future is polled, the mutex is handed on, a budget *)
(* call answers, and whoever owns a lease ends it, at the latest by being  *)
(* dropped with it.  No fairness for the timer or for a dropped waiter.    *)
(***************************************************************************)
Polled(a) == Arm(a) \/ Admit(a) \/ Sleep(a) \/ Wake(a) \/ Reserves(a)
FairSpec ==
  /\ Spec
  /\ \A a \in Agents : /\ WF_vars(Polled(a)) /\ WF_vars(Answers(a)) /\ WF_vars(Leaves(a))
                       /\ WF_vars(Revoke(a) \/ DropLease(a))
----------------------------------------------------------------------------
(* Properties.                                                             *)

\* The state of the model is well formed.
TypeOK ==
  /\ config \in Configs
  /\ agent \in [Agents -> Agent]
  /\ \A r \in Roots : /\ roots[r].resident \in 0..config.resident
                      /\ roots[r].queued \in 0..config.queued
                      /\ roots[r].running \in 0..config.resident
                      /\ roots[r].scope \in Nat
  /\ slots \in 0..config.running
  /\ waiters \in Seq(Agents)
  /\ lock \in Agents \cup {None}
  /\ listed \subseteq Agents /\ stray \subseteq Agents /\ faulted \subseteq Agents
  /\ created \in [Roots -> Nat]
  /\ budget \in [Agents -> {"none", "open", "closed"}]

\* The counters are what the live agents occupy: a timeout, a dropped waiter, a failed
\* settlement and a dropped lease give back once what was taken, under the phase it was
\* taken in, and saturating_sub never has anything to hide.  A root's agents share one
\* budget scope, also when the first of them meet.
BooksBalance ==
  LET in(r, phases) == Cardinality({a \in Agents : Root[a] = r /\ agent[a].phase \in phases})
  IN /\ TypeOK
     /\ \A r \in Roots :
          /\ created[r] <= 1
          /\ roots[r].resident = in(r, {"Waiting", "Admitted", "Queued", "Running"})
          /\ roots[r].queued = in(r, {"Waiting", "Admitted", "Queued"})
          /\ roots[r].running = in(r, {"Running"})
     /\ slots = Cardinality({a \in Agents : agent[a].phase \in {"Admitted", "Queued", "Running"}})
     /\ ToSet(waiters) = {a \in Agents : agent[a].phase = "Waiting"}
     /\ Len(waiters) = Cardinality(ToSet(waiters))

\* "Register before checking capacity so a release cannot be missed": a sleeper in whose
\* sleep somebody left has been notified or is about to be.  So is the head of the queue
\* whenever all slots are free.  (An admission announces nothing, so with two slots the
\* head may sleep beside a free slot while the other is occupied, until its release.)
ReleaseNotMissed ==
  \A a \in Agents :
    agent[a].at = "sleeping" /\ (agent[a].since \/ (slots = 0 /\ a = Head(waiters))) =>
      agent[a].notified \/ \E b \in Agents : agent[b].at = "notifying"

\* A budget reservation that is open is held by a lease, by a revoke under way or by the
\* task a dropped lease left, unless a budget call failed or a revoke was aborted.
ReservationHasOwner ==
  \A a \in Agents \ faulted : budget[a] = "open" =>
    agent[a].holds \/ agent[a].at = "revoking" \/ a \in stray

\* Whoever waits is admitted or gives up.
Served == \A a \in Agents : agent[a].at \in Waiting ~> agent[a].at \notin Waiting
=============================================================================
