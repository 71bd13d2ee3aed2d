-------------------------- MODULE AdmissionControl --------------------------
(***************************************************************************)
(* Permits: ProductionAdmissionController (crates/kernel/src/admission/    *)
(* production.rs) and its caller DefaultCapabilityInvoker (crates/kernel/  *)
(* src/capability/mod.rs).                                                 *)
(*                                                                         *)
(* An invocation admits itself, checks the sandbox decision, executes, and *)
(* then settles its permit, or revokes it when it is cancelled.  A cleaner *)
(* is the terminal cleanup of a process, or of an operation, revoking the  *)
(* permits it found active.  `active`, `settled`, the budget and the lease *)
(* manager have a lock each and every step is one critical section; settle *)
(* keeps the lock of `settled` while it gives back budget and lease.       *)
(*                                                                         *)
(* A permit id is fresh for every admission, so an invocation stands for   *)
(* its permit too.  The budget is a number of equal reservations under one *)
(* parent, the lease one exclusive resource.                               *)
(***************************************************************************)
EXTENDS Integers, FiniteSets

CONSTANTS Invocations,      \* calls of invoke, and their permits
          Cleaners,         \* calls of revoke_process_permits and the like
          Processes,        \* the processes of the permits
          Operations,       \* the operations of the permits
          Capacity,         \* reservations that the budget affords at a time
          None

ASSUME AdmissionAssumption ==
  /\ Capacity \in Nat
  /\ None \notin Invocations
  /\ Invocations \cap Cleaners = {}

Actors == Invocations \cup Cleaners

VARIABLES
  backend,   \* with_sandbox_available; it stays as configured
  pc,        \* where each actor is
  target,    \* the permit that an actor settles or revokes
  todo,      \* the permits that a cleaner still has to revoke
  request,   \* what each invocation asked for, and for whom
  active,    \* the permits in `active`
  settled,   \* the permits in `settled`
  budgetOf,  \* the permits whose budget reservation is open
  leaseOf,   \* the permit that holds the lease
  closings,  \* how often each permit's reservation was closed (history)
  charged,   \* the permits whose usage was charged (history)
  answer     \* what invoke returned

resources == <<budgetOf, leaseOf, closings, charged>>
vars == <<backend, pc, target, todo, request, active, settled, budgetOf, leaseOf, closings, charged, answer>>

Request == [process: Processes, operation: Operations,
            budget: BOOLEAN, lease: BOOLEAN, sandbox: BOOLEAN]
NoRequest == [process |-> None, operation |-> None,
              budget |-> FALSE, lease |-> FALSE, sandbox |-> FALSE]

InvocationPc == {"idle", "admit", "lease", "unreserve", "sandbox", "activate", "check",
                 "execute", "settle", "mark", "dropped"}
ClosingPc == {"closeBudget", "closeLease", "revoke", "take", "revokeBudget", "revokeLease"}
CleanerPc == {"clean"}
Done == "done"
Answers == {"none", "denied", "noSandbox", "sandboxed", "cancelled", "unsettled", "ok"}

Init ==
  /\ backend \in BOOLEAN
  /\ pc = [a \in Actors |-> "idle"]
  /\ target = [a \in Actors |-> None]
  /\ todo = [c \in Cleaners |-> {}]
  /\ request = [i \in Invocations |-> NoRequest]
  /\ active = {} /\ settled = {} /\ budgetOf = {} /\ leaseOf = None
  /\ closings = [i \in Invocations |-> 0]
  /\ charged = {}
  /\ answer = [i \in Invocations |-> "none"]

Goto(a, l) == pc' = [pc EXCEPT ![a] = l]
Return(i, what) == Goto(i, Done) /\ answer' = [answer EXCEPT ![i] = what]

-----------------------------------------------------------------------------
(* invoke and admit *)

\* invoke_inner builds the admission request.
Invoke(i, r) ==
  /\ pc[i] = "idle"
  /\ request' = [request EXCEPT ![i] = r]
  /\ target' = [target EXCEPT ![i] = i]
  /\ Goto(i, "admit")
  /\ UNCHANGED <<backend, todo, active, settled, answer, resources>>

\* admit reserves the budget; BudgetExceeded ends the invocation.
AdmitBudget(i) ==
  /\ pc[i] = "admit"
  /\ IF ~request[i].budget
     THEN Goto(i, "lease") /\ UNCHANGED <<budgetOf, answer>>
     ELSE IF Cardinality(budgetOf) < Capacity
     THEN Goto(i, "lease") /\ budgetOf' = budgetOf \cup {i} /\ UNCHANGED answer
     ELSE Return(i, "denied") /\ UNCHANGED budgetOf
  /\ UNCHANGED <<backend, target, todo, request, active, settled, leaseOf, closings, charged>>

\* Mutant: a denied lease keeps the budget.
AdmitLeaseLeaky(i) ==
  /\ pc[i] = "lease"
  /\ IF ~request[i].lease
     THEN Goto(i, "sandbox") /\ UNCHANGED <<leaseOf, answer>>
     ELSE IF leaseOf = None
     THEN Goto(i, "sandbox") /\ leaseOf' = i /\ UNCHANGED answer
     ELSE Return(i, "denied") /\ UNCHANGED leaseOf
  /\ UNCHANGED <<backend, target, todo, request, active, settled, budgetOf, closings, charged>>

\* admit acquires the lease; LeaseUnavailable gives the budget back first.
AdmitLease(i) ==
  /\ pc[i] = "lease"
  /\ IF ~request[i].lease
     THEN Goto(i, "sandbox") /\ UNCHANGED leaseOf
     ELSE IF leaseOf = None
     THEN Goto(i, "sandbox") /\ leaseOf' = i
     ELSE Goto(i, "unreserve") /\ UNCHANGED leaseOf
  /\ UNCHANGED <<backend, target, todo, request, active, settled, budgetOf, closings, charged, answer>>

\* One closing of a permit's reservation, if it has one.
CloseBudget(p) ==
  /\ budgetOf' = budgetOf \ {p}
  /\ closings' = IF request[p].budget THEN [closings EXCEPT ![p] = @ + 1] ELSE closings

ReleaseLease(p) == leaseOf' = IF leaseOf = p THEN None ELSE leaseOf

\* A lease ends by itself when its time is over.
LeaseExpires ==
  /\ leaseOf # None
  /\ leaseOf' = None
  /\ UNCHANGED <<backend, pc, target, todo, request, active, settled, budgetOf, closings, charged, answer>>

AdmitUnreserve(i) ==
  /\ pc[i] = "unreserve"
  /\ CloseBudget(i)
  /\ Return(i, "denied")
  /\ UNCHANGED <<backend, target, todo, request, active, settled, leaseOf, charged>>

\* admit decides on the sandbox.  Without a backend SandboxRequiredUnavailable
\* is returned as it is, with the budget and the lease still held.
AdmitSandbox(i) ==
  /\ pc[i] = "sandbox"
  /\ IF request[i].sandbox /\ ~backend
     THEN Return(i, "noSandbox")
     ELSE Goto(i, "activate") /\ UNCHANGED answer
  /\ UNCHANGED <<backend, target, todo, request, active, settled, resources>>

\* The permit becomes active and is returned.
Activate(i) ==
  /\ pc[i] = "activate"
  /\ active' = active \cup {i}
  /\ Goto(i, "check")
  /\ UNCHANGED <<backend, target, todo, request, settled, answer, resources>>

\* invoke_inner fails closed: a permit that requires a sandbox is revoked.
CheckSandbox(i) ==
  /\ pc[i] = "check"
  /\ Goto(i, IF request[i].sandbox THEN "revoke" ELSE "execute")
  /\ answer' = IF request[i].sandbox THEN [answer EXCEPT ![i] = "sandboxed"] ELSE answer
  /\ UNCHANGED <<backend, target, todo, request, active, settled, resources>>

\* The executor returns, or the caller's token cancels it.
Execute(i) ==
  /\ pc[i] = "execute"
  /\ \/ Goto(i, "settle") /\ UNCHANGED answer
     \/ Goto(i, "revoke") /\ answer' = [answer EXCEPT ![i] = "cancelled"]
  /\ UNCHANGED <<backend, target, todo, request, active, settled, resources>>

-----------------------------------------------------------------------------
(* settle *)

\* settle and revoke wait for `settled` while a settlement holds it.
SettledUnlocked == \A i \in Invocations : pc[i] \notin {"closeBudget", "closeLease"}

\* settle takes the permit out of `active`; a permit that is not there was
\* revoked, and the invocation reports that its settlement failed.
SettleTake(i) ==
  /\ pc[i] = "settle"
  /\ active' = active \ {i}
  /\ IF i \in active
     THEN Goto(i, "mark") /\ UNCHANGED answer
     ELSE Return(i, "unsettled")
  /\ UNCHANGED <<backend, target, todo, request, settled, resources>>

SettleMark(i) ==
  /\ pc[i] = "mark" /\ SettledUnlocked
  /\ settled' = settled \cup {i}
  /\ IF i \in settled THEN Return(i, "unsettled") ELSE Goto(i, "closeBudget") /\ UNCHANGED answer
  /\ UNCHANGED <<backend, target, todo, request, active, resources>>

SettleBudget(i) ==
  /\ pc[i] = "closeBudget"
  /\ CloseBudget(i)
  /\ charged' = IF request[i].budget THEN charged \cup {i} ELSE charged
  /\ Goto(i, "closeLease")
  /\ UNCHANGED <<backend, target, todo, request, active, settled, leaseOf, answer>>

SettleLease(i) ==
  /\ pc[i] = "closeLease"
  /\ ReleaseLease(i)
  /\ Return(i, "ok")
  /\ UNCHANGED <<backend, target, todo, request, active, settled, budgetOf, closings, charged>>

-----------------------------------------------------------------------------
(* revoke, by an invocation or by a cleaner *)

\* Where an actor goes when its revocation is over.
AfterRevoke(a) == IF a \in Cleaners THEN "clean" ELSE Done

\* A settled permit is left alone.
RevokeCheck(a) ==
  /\ pc[a] = "revoke" /\ SettledUnlocked
  /\ Goto(a, IF target[a] \in settled THEN AfterRevoke(a) ELSE "take")
  /\ UNCHANGED <<backend, target, todo, request, active, settled, answer, resources>>

\* Mutant: the permit stays in `active`.
RevokePeek(a) ==
  /\ pc[a] = "take"
  /\ Goto(a, IF target[a] \in active THEN "revokeBudget" ELSE AfterRevoke(a))
  /\ UNCHANGED <<backend, target, todo, request, active, settled, answer, resources>>

\* Whoever takes the permit out of `active` gives its resources back.
RevokeTake(a) ==
  /\ pc[a] = "take"
  /\ active' = active \ {target[a]}
  /\ Goto(a, IF target[a] \in active THEN "revokeBudget" ELSE AfterRevoke(a))
  /\ UNCHANGED <<backend, target, todo, request, settled, answer, resources>>

RevokeBudget(a) ==
  /\ pc[a] = "revokeBudget"
  /\ CloseBudget(target[a])
  /\ Goto(a, "revokeLease")
  /\ UNCHANGED <<backend, target, todo, request, active, settled, leaseOf, charged, answer>>

RevokeLease(a) ==
  /\ pc[a] = "revokeLease"
  /\ ReleaseLease(target[a])
  /\ Goto(a, AfterRevoke(a))
  /\ UNCHANGED <<backend, target, todo, request, active, settled, budgetOf, closings, charged, answer>>

-----------------------------------------------------------------------------
(* revoke_process_permits and revoke_operation_permits *)

\* The permits of a process, or of an operation, that are active now.
Collect(c, S) ==
  /\ pc[c] = "idle"
  /\ \/ \E p \in Processes : S = {i \in active : request[i].process = p}
     \/ \E o \in Operations : S = {i \in active : request[i].operation = o}
  /\ todo' = [todo EXCEPT ![c] = S]
  /\ Goto(c, "clean")
  /\ UNCHANGED <<backend, target, request, active, settled, answer, resources>>

CleanNext(c) ==
  /\ pc[c] = "clean"
  /\ \/ \E p \in todo[c] : /\ target' = [target EXCEPT ![c] = p]
                           /\ todo' = [todo EXCEPT ![c] = @ \ {p}]
                           /\ Goto(c, "revoke")
     \/ todo[c] = {} /\ Goto(c, Done) /\ UNCHANGED <<target, todo>>
  /\ UNCHANGED <<backend, request, active, settled, answer, resources>>

\* A future is dropped where it waits; a lock it holds is released.
Drop(a) ==
  /\ pc[a] \notin {"idle", Done, "dropped"}
  /\ Goto(a, "dropped")
  /\ UNCHANGED <<backend, target, todo, request, active, settled, answer, resources>>

Next ==
  \/ \E i \in Invocations :
       \/ \E r \in Request : Invoke(i, r)
       \/ AdmitBudget(i) \/ AdmitLease(i) \/ AdmitUnreserve(i) \/ AdmitSandbox(i) \/ Activate(i)
       \/ CheckSandbox(i) \/ Execute(i)
       \/ SettleTake(i) \/ SettleMark(i) \/ SettleBudget(i) \/ SettleLease(i)
  \/ \E a \in Actors :
       RevokeCheck(a) \/ RevokeTake(a) \/ RevokeBudget(a) \/ RevokeLease(a) \/ Drop(a)
  \/ \E c \in Cleaners : (\E S \in SUBSET active : Collect(c, S)) \/ CleanNext(c)
  \/ LeaseExpires

Spec == Init /\ [][Next]_vars

-----------------------------------------------------------------------------
(* Properties *)

\* The state of the model is well formed, and no more reservations are open
\* than the budget affords.
TypeOK ==
  /\ backend \in BOOLEAN
  /\ pc \in [Actors -> InvocationPc \cup ClosingPc \cup CleanerPc \cup {Done}]
  /\ target \in [Actors -> Invocations \cup {None}]
  /\ todo \in [Cleaners -> SUBSET Invocations]
  /\ request \in [Invocations -> Request \cup {NoRequest}]
  /\ active \in SUBSET Invocations /\ settled \in SUBSET Invocations
  /\ budgetOf \in SUBSET Invocations /\ Cardinality(budgetOf) <= Capacity
  /\ leaseOf \in Invocations \cup {None}
  /\ closings \in [Invocations -> Nat]
  /\ charged \in SUBSET Invocations
  /\ answer \in [Invocations -> Answers]

\* However settle, revoke and the cleanup of the process race, the reservation
\* of a permit is closed at most once, and charging its usage is the end of it,
\* wherever a caller is dropped: nothing can charge or refund it again.  invoke
\* answers with success only for a permit that it settled itself, and whose usage
\* was charged if it had a budget.
ClosedOnce ==
  /\ \A i \in Invocations : closings[i] <= 1
  /\ \A i \in charged : i \notin active /\ i \notin budgetOf /\ closings[i] = 1
  /\ \A i \in Invocations :
       answer[i] = "ok" => i \in settled /\ (request[i].budget => i \in charged)

\* Someone is responsible for what a permit holds: it is active, or an actor
\* is in the middle of admitting it or of giving its resources back.
InCare(i) ==
  \/ i \in active
  \/ pc[i] \in {"lease", "unreserve", "sandbox", "activate", "mark", "closeBudget", "closeLease"}
  \/ \E a \in Actors : target[a] = i /\ pc[a] \in {"revokeBudget", "revokeLease"}

\* A caller that was dropped may have left the permit half way.
Abandoned(i) == \E a \in Actors : target[a] = i /\ pc[a] = "dropped"

\* No budget reservation and no lease is left without anybody who will give it
\* back: every end of a permit, and every way that admission denies, returns
\* what it took, unless a caller was dropped on the way.  The one exception is
\* SandboxRequiredUnavailable, which returns nothing.
NothingLeaks ==
  /\ TypeOK
  /\ \A i \in budgetOf \cup ({leaseOf} \ {None}) :
       InCare(i) \/ Abandoned(i) \/ answer[i] = "noSandbox"
=============================================================================
