--------------------------- MODULE OperationTable ---------------------------
(***************************************************************************)
(* The kernel's operation tree (crates/kernel/src/operation/table.rs).     *)
(*                                                                         *)
(* The table keeps two maps behind two separate locks: `records`, the      *)
(* state of every operation, and `children`, the edges that a cancellation *)
(* follows.  submit_with_id takes the first lock and then the second;      *)
(* cancel takes the second, to collect the descendants, and then the first *)
(* once for every operation it cancels.  A task is a caller of one of      *)
(* these two methods and every step below is one critical section, so the  *)
(* tasks interleave exactly where the code releases a lock.                *)
(*                                                                         *)
(* A waiter is a caller of wait: it registers with the operation's Notify  *)
(* while it holds the `records` lock.  notify_waiters follows the change   *)
(* of a record with no await in between, and a waiter that takes the lock  *)
(* in between sees the new record, so the change and the notification are  *)
(* one step.                                                               *)
(***************************************************************************)
EXTENDS Integers, FiniteSets

CONSTANTS Ops,       \* operation identifiers
          Owners,    \* process identifiers
          Tasks,     \* callers of submit and cancel
          Waiters,   \* callers of wait
          None       \* no parent, no owner, no operation

ASSUME NoneAssumption == None \notin Ops /\ None \notin Owners

VARIABLES
  state,      \* records: the state of each operation, "Absent" before submit
  owner,      \* records: the owning process
  parent,     \* records: the parent operation
  exit,       \* records: why the operation ended
  children,   \* children: the edges, written after the record
  task,       \* what each task is in the middle of
  waiter      \* what each waiter is in the middle of

records == <<state, owner, parent, exit>>
vars == <<state, owner, parent, exit, children, task, waiter>>

Live == {"Submitted", "Running", "Cancelling"}
Terminal == {"Succeeded", "Failed", "Cancelled"}
States == {"Absent"} \cup Live \cup Terminal
Exits == {"None", "Completed", "Failed", "Panic", "Cancelled"}

\* OperationState::can_transition_to.
CanTransition(from, to) ==
  <<from, to>> \in { <<"Submitted", "Running">>, <<"Submitted", "Cancelling">>,
                     <<"Running", "Cancelling">>, <<"Running", "Succeeded">>,
                     <<"Running", "Failed">>, <<"Cancelling", "Cancelled">> }

IsTerminal(o) == state[o] \in Terminal
Registered(o) == state[o] # "Absent"

\* A task in "link" has inserted a record and not yet its edge.  A task in
\* "cancel" still has `todo`, and then `op`, to cancel; `seen` is all that it
\* collected.
TaskState == [at: {"idle", "link", "cancel"}, op: Ops \cup {None},
              todo: SUBSET Ops, seen: SUBSET Ops]
Idle == [at |-> "idle", op |-> None, todo |-> {}, seen |-> {}]
Linking(o) == [at |-> "link", op |-> o, todo |-> {}, seen |-> {}]

\* A "registered" waiter sleeps until op's Notify fires and is then "woken";
\* a "returned" one has answered its caller with op's state and exit.
WaiterState == [at: {"rest", "registered", "woken", "returned"},
                op: Ops \cup {None}, state: States, exit: Exits]
Resting == [at |-> "rest", op |-> None, state |-> "Absent", exit |-> "None"]
Sleeping(o) == [at |-> "registered", op |-> o, state |-> "Absent", exit |-> "None"]

\* Notify::notify_waiters.
Wake(o) ==
  waiter' = [w \in Waiters |->
               IF waiter[w].at = "registered" /\ waiter[w].op = o
               THEN [waiter[w] EXCEPT !.at = "woken"]
               ELSE waiter[w]]

Init ==
  /\ state = [o \in Ops |-> "Absent"]
  /\ owner = [o \in Ops |-> None]
  /\ parent = [o \in Ops |-> None]
  /\ exit = [o \in Ops |-> "None"]
  /\ children = [o \in Ops |-> {}]
  /\ task = [t \in Tasks |-> Idle]
  /\ waiter = [w \in Waiters |-> Resting]

-----------------------------------------------------------------------------
(* submit_with_id *)

\* Mutant: a child may be submitted under another process's operation.
MaySubmitAnyOwner(o, w, p) ==
  /\ ~Registered(o)
  /\ p # None => Registered(p) /\ ~IsTerminal(p)

\* What the critical section on `records` insists on.
MaySubmit(o, w, p) ==
  /\ ~Registered(o)
  /\ p # None => Registered(p) /\ owner[p] = w /\ ~IsTerminal(p)

\* The record is inserted; a child still needs its edge.
Submit(t, o, w, p) ==
  /\ task[t].at = "idle"
  /\ MaySubmit(o, w, p)
  /\ state' = [state EXCEPT ![o] = "Submitted"]
  /\ owner' = [owner EXCEPT ![o] = w]
  /\ parent' = [parent EXCEPT ![o] = p]
  /\ task' = IF p = None THEN task ELSE [task EXCEPT ![t] = Linking(o)]
  /\ UNCHANGED <<exit, children, waiter>>

\* The critical section on `children`.
LinkChild(t) ==
  /\ task[t].at = "link"
  /\ children' = [children EXCEPT ![parent[task[t].op]] = @ \cup {task[t].op}]
  /\ task' = [task EXCEPT ![t] = Idle]
  /\ UNCHANGED <<state, owner, parent, exit, waiter>>

-----------------------------------------------------------------------------
(* start, succeed, fail and panic, through set_running_state *)

SetRunningState(o, to, why) ==
  /\ CanTransition(state[o], to)
  /\ state' = [state EXCEPT ![o] = to]
  /\ exit' = [exit EXCEPT ![o] = why]
  /\ Wake(o)
  /\ UNCHANGED <<owner, parent, children, task>>

Start(o) == SetRunningState(o, "Running", "None")
Succeed(o) == SetRunningState(o, "Succeeded", "Completed")
Fail(o) == SetRunningState(o, "Failed", "Failed")
Panic(o) == SetRunningState(o, "Failed", "Panic")

-----------------------------------------------------------------------------
(* cancel *)

\* collect_descendants: the least set that holds root's children and, with
\* an operation, that operation's children.
Descendants(root) ==
  {o \in Ops : \A S \in SUBSET Ops :
     children[root] \subseteq S /\ (\A p \in S : children[p] \subseteq S) => o \in S}

\* The critical section on `children`.
CancelCollect(t, root) ==
  /\ task[t].at = "idle"
  /\ task' = [task EXCEPT ![t] =
                [at |-> "cancel", op |-> root,
                 todo |-> Descendants(root), seen |-> Descendants(root) \cup {root}]]
  /\ UNCHANGED <<state, owner, parent, exit, children, waiter>>

\* Mutants of cancel_one: no early return for a terminal record, no
\* cancellation of a record that has not started, no notification.
CancelOneAnyway(o) ==
  IF Registered(o)
  THEN /\ state' = [state EXCEPT ![o] = "Cancelled"]
       /\ exit' = [exit EXCEPT ![o] = "Cancelled"]
       /\ Wake(o)
       /\ UNCHANGED <<owner, parent, children>>
  ELSE UNCHANGED <<state, owner, parent, exit, children, waiter>>
CancelOneStarted(o) ==
  IF state[o] = "Running"
  THEN /\ state' = [state EXCEPT ![o] = "Cancelled"]
       /\ exit' = [exit EXCEPT ![o] = "Cancelled"]
       /\ Wake(o)
       /\ UNCHANGED <<owner, parent, children>>
  ELSE UNCHANGED <<state, owner, parent, exit, children, waiter>>
CancelOneQuietly(o) ==
  IF state[o] \in Live
  THEN /\ state' = [state EXCEPT ![o] = "Cancelled"]
       /\ exit' = [exit EXCEPT ![o] = "Cancelled"]
       /\ UNCHANGED <<owner, parent, children, waiter>>
  ELSE UNCHANGED <<state, owner, parent, exit, children, waiter>>

\* cancel_one: a terminal operation is left alone, a live one goes through
\* Cancelling to Cancelled inside one critical section.
CancelOne(o) ==
  IF state[o] \in Live
  THEN /\ state' = [state EXCEPT ![o] = "Cancelled"]
       /\ exit' = [exit EXCEPT ![o] = "Cancelled"]
       /\ Wake(o)
       /\ UNCHANGED <<owner, parent, children>>
  ELSE UNCHANGED <<state, owner, parent, exit, children, waiter>>

\* One turn of cancel's loop: the descendants, in any order, before the root.
\* The loop ends after the root, also when the root is unknown.
CancelNext(t) ==
  /\ task[t].at = "cancel"
  /\ \/ \E o \in task[t].todo :
          /\ CancelOne(o)
          /\ task' = [task EXCEPT ![t].todo = @ \ {o}]
     \/ /\ task[t].todo = {}
        /\ CancelOne(task[t].op)
        /\ task' = [task EXCEPT ![t] = Idle]

\* The caller of submit or cancel is dropped while it waits for its next lock.
Drop(t) ==
  /\ task[t].at # "idle"
  /\ task' = [task EXCEPT ![t] = Idle]
  /\ UNCHANGED <<state, owner, parent, exit, children, waiter>>

-----------------------------------------------------------------------------
(* wait, through wait_for_terminal *)

\* The critical section of the loop: return what a terminal record says, or
\* register for the notification before the lock is released.
Look(w, o) ==
  /\ Registered(o)
  /\ waiter' = [waiter EXCEPT ![w] =
                  IF IsTerminal(o)
                  THEN [at |-> "returned", op |-> o, state |-> state[o], exit |-> exit[o]]
                  ELSE Sleeping(o)]
  /\ UNCHANGED <<state, owner, parent, exit, children, task>>

Wait(w, o) == waiter[w].at = "rest" /\ Look(w, o)

LookAgain(w) == waiter[w].at = "woken" /\ Look(w, waiter[w].op)

-----------------------------------------------------------------------------
Next ==
  \/ \E t \in Tasks, o \in Ops, w \in Owners, p \in Ops \cup {None} : Submit(t, o, w, p)
  \/ \E t \in Tasks : LinkChild(t)
  \/ \E o \in Ops : Start(o) \/ Succeed(o) \/ Fail(o) \/ Panic(o)
  \/ \E t \in Tasks, o \in Ops : CancelCollect(t, o)
  \/ \E t \in Tasks : CancelNext(t)
  \/ \E t \in Tasks : Drop(t)
  \/ \E w \in Waiters, o \in Ops : Wait(w, o)
  \/ \E w \in Waiters : LookAgain(w)

Spec == Init /\ [][Next]_vars

-----------------------------------------------------------------------------
(* Properties *)

\* The state of the model is well formed (OperationRecord, the children map).
TypeOK ==
  /\ state \in [Ops -> States]
  /\ owner \in [Ops -> Owners \cup {None}]
  /\ parent \in [Ops -> Ops \cup {None}]
  /\ exit \in [Ops -> Exits]
  /\ children \in [Ops -> SUBSET Ops]
  /\ task \in [Tasks -> TaskState]
  /\ waiter \in [Waiters -> WaiterState]

\* Whatever submissions, transitions and cancellations race, an edge of the
\* children map is the parent link of a registered operation, and a tree has
\* one owner: a cancellation never crosses into another process.
TreeHasOneOwner ==
  \A p \in Ops : \A o \in children[p] :
     parent[o] = p /\ Registered(o) /\ Registered(p) /\ owner[o] = owner[p]

\* A cancellation that is under way has ended every operation it collected
\* and no longer has to visit, although succeed, fail, other cancellations
\* and submissions run between its steps.
CancelVisitsAll ==
  \A t \in Tasks : task[t].at = "cancel" =>
     \A o \in task[t].seen \ (task[t].todo \cup {task[t].op}) : IsTerminal(o)

\* A terminal record never changes again: of a success, a failure and a
\* cancellation that race for one operation the first one stays.
TerminalIsFinal ==
  [][\A o \in Ops : IsTerminal(o) => state'[o] = state[o] /\ exit'[o] = exit[o]]_vars

\* What wait has answered stays what the record says.
AnswerStands ==
  \A w \in Waiters : waiter[w].at = "returned" =>
     /\ IsTerminal(waiter[w].op)
     /\ waiter[w].state = state[waiter[w].op]
     /\ waiter[w].exit = exit[waiter[w].op]

\* The exit reason is the one of the state: a cancelled operation never
\* reports completion, a live one reports nothing.
ExitAgrees ==
  \A o \in Ops :
     /\ state[o] = "Succeeded" <=> exit[o] = "Completed"
     /\ state[o] = "Failed" <=> exit[o] \in {"Failed", "Panic"}
     /\ state[o] = "Cancelled" <=> exit[o] = "Cancelled"

\* No wakeup is lost: nobody sleeps on an operation that has ended, neither a
\* waiter that registered while the operation was being ended nor one of
\* several waiters.
NoLostWakeup ==
  \A w \in Waiters : waiter[w].at = "registered" => ~IsTerminal(waiter[w].op)
=============================================================================
