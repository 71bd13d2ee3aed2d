----------------------- MODULE OperationTableProofs ------------------------
(***************************************************************************)
(* What OperationTable guarantees for every number of operations, owners,  *)
(* tasks and waiters.  The invariants are not inductive one by one: that a *)
(* cancellation ends all it has collected needs every collected operation  *)
(* to be registered, which needs the edges to lead to registered records,  *)
(* which needs what a task that still has to insert its edge knows.  The   *)
(* second part is about Mailbox.                                           *)
(***************************************************************************)
EXTENDS OperationTable, Mailbox, SequenceTheorems, TLAPS

\* A task between its two critical sections of submit_with_id: the record it
\* inserted and the parent's are registered and have the same owner.
LinkInv ==
  \A t \in Tasks : task[t].at = "link" =>
     /\ task[t].op \in Ops
     /\ Registered(task[t].op)
     /\ parent[task[t].op] \in Ops
     /\ Registered(parent[task[t].op])
     /\ owner[task[t].op] = owner[parent[task[t].op]]

\* A cancellation has a root, and every descendant that it has left to visit
\* is registered.
TodoInv ==
  \A t \in Tasks : /\ task[t].at = "cancel" => task[t].op \in Ops
                   /\ \A o \in task[t].todo : o \in Ops /\ Registered(o)

\* A waiter that registered, was woken or returned waits for an operation.
WaiterInv ==
  \A w \in Waiters : waiter[w].at # "rest" => waiter[w].op \in Ops

IndInv ==
  /\ TypeOK /\ TreeHasOneOwner /\ LinkInv /\ TodoInv /\ WaiterInv
  /\ CancelVisitsAll /\ AnswerStands /\ ExitAgrees

-----------------------------------------------------------------------------
\* collect_descendants only ever returns registered operations, because the
\* registered operations are closed under the edges.
LEMMA DescendantsRegistered ==
  ASSUME TypeOK, TreeHasOneOwner, NEW r \in Ops
  PROVE  /\ Descendants(r) \subseteq Ops
         /\ \A o \in Descendants(r) : Registered(o)
<1> DEFINE S == {o \in Ops : Registered(o)}
<1>1. S \in SUBSET Ops
  OBVIOUS
<1>2. \A p \in Ops : children[p] \subseteq S
  BY DEF TypeOK, TreeHasOneOwner
<1>3. \A o \in Descendants(r) : o \in Ops /\ o \in S
  BY <1>1, <1>2 DEF Descendants
<1> QED
  BY <1>3

LEMMA InitInd == Init => IndInv
<1> SUFFICES ASSUME Init PROVE IndInv
  OBVIOUS
<1>1. TypeOK
  BY DEF Init, TypeOK, States, Live, Terminal, Exits, TaskState, Idle, WaiterState, Resting
<1>2. TreeHasOneOwner /\ LinkInv /\ TodoInv /\ CancelVisitsAll
  BY DEF Init, TreeHasOneOwner, LinkInv, TodoInv, CancelVisitsAll, Idle
<1>3. WaiterInv /\ AnswerStands /\ ExitAgrees
  BY DEF Init, WaiterInv, AnswerStands, ExitAgrees, Resting
<1> QED
  BY <1>1, <1>2, <1>3 DEF IndInv

\* submit_with_id, the records lock.
LEMMA SubmitInd ==
  ASSUME IndInv, NEW t \in Tasks, NEW o \in Ops, NEW w \in Owners,
         NEW p \in Ops \cup {None}, Submit(t, o, w, p)
  PROVE  IndInv'
<1> USE NoneAssumption DEF IndInv
<1>1. TypeOK'
  BY DEF Submit, Linking, TypeOK, States, Live, TaskState
<1>2. TreeHasOneOwner'
  BY DEF Submit, MaySubmit, TypeOK, TreeHasOneOwner, Registered
<1>3. LinkInv'
  <2> SUFFICES ASSUME NEW u \in Tasks, task'[u].at = "link"
               PROVE  /\ task'[u].op \in Ops
                      /\ state'[task'[u].op] # "Absent"
                      /\ parent'[task'[u].op] \in Ops
                      /\ state'[parent'[task'[u].op]] # "Absent"
                      /\ owner'[task'[u].op] = owner'[parent'[task'[u].op]]
    BY DEF LinkInv, Registered
  <2>1. CASE task'[u] = task[u]
    BY <2>1 DEF Submit, MaySubmit, TypeOK, LinkInv, Registered
  <2>2. CASE task'[u] = Linking(o) /\ p # None
    BY <2>2 DEF Submit, MaySubmit, TypeOK, Linking, Registered
  <2> QED
    BY <2>1, <2>2 DEF Submit, TypeOK
<1>4. TodoInv'
  BY DEF Submit, MaySubmit, Linking, TypeOK, TodoInv, Registered
<1>5. WaiterInv'
  BY DEF Submit, WaiterInv
<1>6. CancelVisitsAll'
  <2> SUFFICES ASSUME NEW u \in Tasks, task'[u].at = "cancel",
                      NEW q \in task'[u].seen \ (task'[u].todo \cup {task'[u].op})
               PROVE  IsTerminal(q)'
    BY DEF CancelVisitsAll
  <2>1. task'[u] = task[u]
    BY DEF Submit, Linking, TypeOK
  <2>2. q \in Ops /\ IsTerminal(q)
    BY <2>1 DEF CancelVisitsAll, TypeOK, TaskState
  <2> QED
    BY <2>2 DEF Submit, MaySubmit, Registered, IsTerminal, Terminal, TypeOK
<1>7. AnswerStands'
  BY DEF Submit, MaySubmit, AnswerStands, WaiterInv, Registered, IsTerminal, Terminal, TypeOK
<1>8. ExitAgrees'
  BY DEF Submit, MaySubmit, ExitAgrees, Registered, TypeOK
<1> QED
  BY <1>1, <1>2, <1>3, <1>4, <1>5, <1>6, <1>7, <1>8

\* submit_with_id, the children lock.
LEMMA LinkChildInd ==
  ASSUME IndInv, NEW t \in Tasks, LinkChild(t)
  PROVE  IndInv'
<1> USE DEF IndInv
<1>1. /\ task[t].op \in Ops
      /\ parent[task[t].op] \in Ops
  BY DEF LinkChild, LinkInv
<1>2. TypeOK'
  BY <1>1 DEF LinkChild, Idle, TypeOK, TaskState
<1>3. TreeHasOneOwner'
  BY <1>1 DEF LinkChild, TypeOK, TreeHasOneOwner, LinkInv, Registered
<1>4. LinkInv' /\ TodoInv' /\ CancelVisitsAll'
  BY DEF LinkChild, Idle, TypeOK, LinkInv, TodoInv, CancelVisitsAll, Registered, IsTerminal
<1>5. WaiterInv' /\ AnswerStands' /\ ExitAgrees'
  BY DEF LinkChild, WaiterInv, AnswerStands, ExitAgrees, IsTerminal
<1> QED
  BY <1>2, <1>3, <1>4, <1>5

\* What start, succeed, fail, panic and cancel_one have in common: the record
\* of one live operation moves on, together with the exit reason that fits.
LEMMA MoveInd ==
  ASSUME IndInv, NEW o \in Ops, state[o] \in Live,
         NEW to \in {"Running", "Succeeded", "Failed", "Cancelled"}, NEW why \in Exits,
         to = "Running" <=> why = "None",
         to = "Succeeded" <=> why = "Completed",
         to = "Failed" <=> why \in {"Failed", "Panic"},
         to = "Cancelled" <=> why = "Cancelled",
         state' = [state EXCEPT ![o] = to],
         exit' = [exit EXCEPT ![o] = why],
         Wake(o), UNCHANGED <<owner, parent, children>>
  PROVE  /\ state' \in [Ops -> States]
         /\ exit' \in [Ops -> Exits]
         /\ waiter' \in [Waiters -> WaiterState]
         /\ \A q \in Ops : Registered(q) => Registered(q)'
         /\ \A q \in Ops : IsTerminal(q) =>
              IsTerminal(q)' /\ state'[q] = state[q] /\ exit'[q] = exit[q]
         /\ TreeHasOneOwner' /\ WaiterInv' /\ AnswerStands' /\ ExitAgrees'
<1> USE DEF IndInv
<1>1. state' \in [Ops -> States] /\ exit' \in [Ops -> Exits]
  BY DEF TypeOK, States, Live, Terminal
<1>2. waiter' \in [Waiters -> WaiterState]
  BY DEF Wake, TypeOK, WaiterState
<1>3. \A q \in Ops : Registered(q) => Registered(q)'
  BY DEF TypeOK, Registered
<1>4. \A q \in Ops : IsTerminal(q) =>
              IsTerminal(q)' /\ state'[q] = state[q] /\ exit'[q] = exit[q]
  BY DEF TypeOK, IsTerminal, Terminal, Live
<1>5. TreeHasOneOwner'
  BY <1>3 DEF TreeHasOneOwner, TypeOK
<1>6. \A w \in Waiters : /\ waiter'[w].op = waiter[w].op
                         /\ waiter'[w].at = "rest" <=> waiter[w].at = "rest"
                         /\ waiter'[w].at = "returned" => waiter'[w] = waiter[w]
  BY DEF Wake, TypeOK, WaiterState
<1>7. WaiterInv'
  BY <1>6 DEF WaiterInv
<1>8. AnswerStands'
  BY <1>4, <1>6 DEF AnswerStands, WaiterInv
<1>9. ExitAgrees'
  BY DEF ExitAgrees, TypeOK, Live, Exits
<1> QED
  BY <1>1, <1>2, <1>3, <1>4, <1>5, <1>7, <1>8, <1>9

\* start, succeed, fail and panic.
LEMMA TransitionInd ==
  ASSUME IndInv, NEW o \in Ops, Start(o) \/ Succeed(o) \/ Fail(o) \/ Panic(o)
  PROVE  IndInv'
<1>1. PICK to \in {"Running", "Succeeded", "Failed"}, why \in Exits :
         /\ SetRunningState(o, to, why)
         /\ to = "Running" <=> why = "None"
         /\ to = "Succeeded" <=> why = "Completed"
         /\ to = "Failed" <=> why \in {"Failed", "Panic"}
         /\ why # "Cancelled"
  BY DEF Start, Succeed, Fail, Panic, Exits
<1>2. state[o] \in Live
  BY <1>1 DEF SetRunningState, CanTransition, Live
<1>3. /\ state' \in [Ops -> States]
      /\ exit' \in [Ops -> Exits]
      /\ waiter' \in [Waiters -> WaiterState]
      /\ \A q \in Ops : Registered(q) => Registered(q)'
      /\ \A q \in Ops : IsTerminal(q) => IsTerminal(q)'
      /\ TreeHasOneOwner' /\ WaiterInv' /\ AnswerStands' /\ ExitAgrees'
  BY <1>1, <1>2, MoveInd DEF SetRunningState
<1>4. TypeOK'
  BY <1>1, <1>3 DEF SetRunningState, TypeOK, IndInv
<1>5. LinkInv' /\ TodoInv'
  BY <1>1, <1>3 DEF SetRunningState, LinkInv, TodoInv, IndInv
<1>6. CancelVisitsAll'
  BY <1>1, <1>3 DEF SetRunningState, CancelVisitsAll, IndInv, TypeOK, TaskState
<1> QED
  BY <1>3, <1>4, <1>5, <1>6 DEF IndInv

\* cancel, the children lock.
LEMMA CancelCollectInd ==
  ASSUME IndInv, NEW t \in Tasks, NEW root \in Ops, CancelCollect(t, root)
  PROVE  IndInv'
<1> USE DEF IndInv
<1>1. /\ Descendants(root) \subseteq Ops
      /\ \A o \in Descendants(root) : Registered(o)
  BY DescendantsRegistered
<1>2. TypeOK'
  BY <1>1 DEF CancelCollect, TypeOK, TaskState
<1>3. TodoInv'
  BY <1>1 DEF CancelCollect, TypeOK, TodoInv, Registered
<1>4. LinkInv' /\ CancelVisitsAll'
  BY DEF CancelCollect, TypeOK, LinkInv, CancelVisitsAll, Registered, IsTerminal
<1>5. TreeHasOneOwner' /\ WaiterInv' /\ AnswerStands' /\ ExitAgrees'
  BY DEF CancelCollect, TreeHasOneOwner, WaiterInv, AnswerStands, ExitAgrees, Registered, IsTerminal
<1> QED
  BY <1>2, <1>3, <1>4, <1>5

\* cancel_one on a registered operation leaves it terminal and takes nothing
\* back; on an unknown one it does nothing.
LEMMA CancelOneInd ==
  ASSUME IndInv, NEW o \in Ops, CancelOne(o)
  PROVE  /\ state' \in [Ops -> States]
         /\ exit' \in [Ops -> Exits]
         /\ waiter' \in [Waiters -> WaiterState]
         /\ UNCHANGED <<owner, parent, children>>
         /\ Registered(o) => IsTerminal(o)'
         /\ \A q \in Ops : Registered(q) => Registered(q)'
         /\ \A q \in Ops : IsTerminal(q) =>
              IsTerminal(q)' /\ state'[q] = state[q] /\ exit'[q] = exit[q]
         /\ TreeHasOneOwner' /\ WaiterInv' /\ AnswerStands' /\ ExitAgrees'
<1>1. CASE state[o] \in Live
  <2>1. /\ state' = [state EXCEPT ![o] = "Cancelled"]
        /\ exit' = [exit EXCEPT ![o] = "Cancelled"]
        /\ Wake(o)
        /\ UNCHANGED <<owner, parent, children>>
    BY <1>1 DEF CancelOne
  <2>2. "Cancelled" \in Exits
    BY DEF Exits
  <2>3. IsTerminal(o)'
    BY <2>1 DEF IsTerminal, Terminal, IndInv, TypeOK
  <2> QED
    BY <1>1, <2>1, <2>2, <2>3, MoveInd
<1>2. CASE state[o] \notin Live
  <2>1. UNCHANGED <<state, owner, parent, exit, children, waiter>>
    BY <1>2 DEF CancelOne
  <2>2. Registered(o) => IsTerminal(o)
    BY <1>2 DEF Registered, IsTerminal, States, IndInv, TypeOK
  <2> QED
    BY <2>1, <2>2 DEF IndInv, TypeOK, TreeHasOneOwner, WaiterInv, AnswerStands,
                      ExitAgrees, Registered, IsTerminal
<1> QED
  BY <1>1, <1>2

\* cancel, one turn of its loop.
LEMMA CancelNextInd ==
  ASSUME IndInv, NEW t \in Tasks, CancelNext(t)
  PROVE  IndInv'
<1> USE DEF IndInv
<1>1. ASSUME NEW o \in task[t].todo, CancelOne(o),
             task' = [task EXCEPT ![t].todo = @ \ {o}]
      PROVE  IndInv'
  <2>1. o \in Ops /\ Registered(o)
    BY DEF TodoInv
  <2>2. /\ state' \in [Ops -> States]
        /\ exit' \in [Ops -> Exits]
        /\ waiter' \in [Waiters -> WaiterState]
        /\ UNCHANGED <<owner, parent, children>>
        /\ IsTerminal(o)'
        /\ \A q \in Ops : Registered(q) => Registered(q)'
        /\ \A q \in Ops : IsTerminal(q) => IsTerminal(q)'
        /\ TreeHasOneOwner' /\ WaiterInv' /\ AnswerStands' /\ ExitAgrees'
    BY <1>1, <2>1, CancelOneInd
  <2>3. TypeOK'
    <3>1. task[t] \in TaskState
      BY DEF TypeOK
    <3>2. [task[t] EXCEPT !.todo = @ \ {o}] \in TaskState
      BY <3>1 DEF TaskState
    <3>3. task' = [task EXCEPT ![t] = [task[t] EXCEPT !.todo = @ \ {o}]]
      BY <1>1
    <3>4. task' \in [Tasks -> TaskState]
      BY <3>2, <3>3 DEF TypeOK
    <3> QED
      BY <2>2, <3>4 DEF TypeOK
  <2>4. LinkInv' /\ TodoInv'
    BY <1>1, <2>2 DEF LinkInv, TodoInv, TypeOK, TaskState
  <2>5. CancelVisitsAll'
    BY <1>1, <2>2 DEF CancelVisitsAll, TypeOK, TaskState
  <2> QED
    BY <2>2, <2>3, <2>4, <2>5
<1>2. ASSUME CancelOne(task[t].op), task' = [task EXCEPT ![t] = Idle],
             task[t].op \in Ops
      PROVE  IndInv'
  <2>1. /\ state' \in [Ops -> States]
        /\ exit' \in [Ops -> Exits]
        /\ waiter' \in [Waiters -> WaiterState]
        /\ UNCHANGED <<owner, parent, children>>
        /\ \A q \in Ops : Registered(q) => Registered(q)'
        /\ \A q \in Ops : IsTerminal(q) => IsTerminal(q)'
        /\ TreeHasOneOwner' /\ WaiterInv' /\ AnswerStands' /\ ExitAgrees'
    BY <1>2, CancelOneInd
  <2>2. TypeOK'
    BY <1>2, <2>1 DEF TypeOK, TaskState, Idle
  <2>3. LinkInv' /\ TodoInv'
    BY <1>2, <2>1 DEF LinkInv, TodoInv, TypeOK, Idle
  <2>4. CancelVisitsAll'
    BY <1>2, <2>1 DEF CancelVisitsAll, TypeOK, TaskState, Idle
  <2> QED
    BY <2>1, <2>2, <2>3, <2>4
<1>3. task[t].op \in Ops
  BY DEF CancelNext, TodoInv
<1> QED
  BY <1>1, <1>2, <1>3 DEF CancelNext

\* wait, the critical section of its loop.
LEMMA LookInd ==
  ASSUME IndInv, NEW w \in Waiters, NEW o \in Ops, Look(w, o)
  PROVE  IndInv'
<1> USE DEF IndInv
<1>1. TypeOK'
  BY DEF Look, Sleeping, TypeOK, WaiterState, States, Exits
<1>2. WaiterInv' /\ AnswerStands'
  BY DEF Look, Sleeping, TypeOK, WaiterInv, AnswerStands, IsTerminal
<1>3. TreeHasOneOwner' /\ LinkInv' /\ TodoInv' /\ CancelVisitsAll' /\ ExitAgrees'
  BY DEF Look, TreeHasOneOwner, LinkInv, TodoInv, CancelVisitsAll, ExitAgrees, Registered, IsTerminal
<1> QED
  BY <1>1, <1>2, <1>3

LEMMA NextInd == IndInv /\ [Next]_vars => IndInv'
<1> SUFFICES ASSUME IndInv, [Next]_vars PROVE IndInv'
  OBVIOUS
<1>1. ASSUME NEW t \in Tasks, Drop(t) PROVE IndInv'
  BY <1>1 DEF Drop, Idle, IndInv, TypeOK, TaskState, TreeHasOneOwner, LinkInv, TodoInv,
              WaiterInv, CancelVisitsAll, AnswerStands, ExitAgrees, Registered, IsTerminal
<1>2. ASSUME NEW w \in Waiters, LookAgain(w) PROVE IndInv'
  <2>1. waiter[w].op \in Ops /\ Look(w, waiter[w].op)
    BY <1>2 DEF LookAgain, IndInv, WaiterInv
  <2> QED
    BY <2>1, LookInd
<1>3. ASSUME NEW w \in Waiters, NEW o \in Ops, Wait(w, o) PROVE IndInv'
  BY <1>3, LookInd DEF Wait
<1>4. CASE UNCHANGED vars
  BY <1>4 DEF vars, IndInv, TypeOK, TreeHasOneOwner, LinkInv, TodoInv,
              WaiterInv, CancelVisitsAll, AnswerStands, ExitAgrees, Registered, IsTerminal
<1> QED
  BY <1>1, <1>2, <1>3, <1>4, SubmitInd, LinkChildInd, TransitionInd, CancelCollectInd,
     CancelNextInd DEF Next

\* The inductive invariant holds in every reachable state.
THEOREM SpecInd == Spec => []IndInv
<1> QED
  BY InitInd, NextInd, PTL DEF Spec

-----------------------------------------------------------------------------
\* For any number of operations, owners and callers the table stays well
\* formed (OperationRecord and the children map).
THEOREM TypeCorrect == Spec => []TypeOK
<1>1. IndInv => TypeOK
  BY DEF IndInv
<1> QED
  BY <1>1, SpecInd, PTL

\* The edges that cancel follows never lead from one process's operations to
\* another's, however submissions interleave between their two locks.
THEOREM OneOwnerPerTree == Spec => []TreeHasOneOwner
<1>1. IndInv => TreeHasOneOwner
  BY DEF IndInv
<1> QED
  BY <1>1, SpecInd, PTL

\* Whatever runs between its steps, cancel has ended every collected
\* operation it is past.
THEOREM CancelVisitsAllCollected == Spec => []CancelVisitsAll
<1>1. IndInv => CancelVisitsAll
  BY DEF IndInv
<1> QED
  BY <1>1, SpecInd, PTL

\* The answer that wait gave is what the record says ever after.
THEOREM WaitAnswerStands == Spec => []AnswerStands
<1>1. IndInv => AnswerStands
  BY DEF IndInv
<1> QED
  BY <1>1, SpecInd, PTL

\* The first terminal state of an operation, and its exit reason, stay.
THEOREM TerminalNeverChanges == Spec => TerminalIsFinal
<1> DEFINE Keep == \A o \in Ops : IsTerminal(o) => state'[o] = state[o] /\ exit'[o] = exit[o]
<1>1. ASSUME IndInv, [Next]_vars PROVE [Keep]_vars
  <2> SUFFICES ASSUME Next PROVE Keep
    BY <1>1
  <2> USE <1>1 DEF IndInv
  <2>1. ASSUME NEW t \in Tasks, NEW o \in Ops, NEW w \in Owners,
               NEW p \in Ops \cup {None}, Submit(t, o, w, p)
        PROVE  Keep
    BY <2>1 DEF Submit, MaySubmit, Registered, IsTerminal, Terminal, TypeOK
  <2>2. ASSUME NEW o \in Ops, Start(o) \/ Succeed(o) \/ Fail(o) \/ Panic(o)
        PROVE  Keep
    BY <2>2 DEF Start, Succeed, Fail, Panic, SetRunningState, CanTransition,
                IsTerminal, Terminal, TypeOK
  <2>3. ASSUME NEW t \in Tasks, CancelNext(t) PROVE Keep
    <3>1. PICK o \in Ops : CancelOne(o)
      BY <2>3 DEF CancelNext, TodoInv
    <3> QED
      BY <3>1, CancelOneInd
  <2>4. ASSUME UNCHANGED <<state, exit>> PROVE Keep
    BY <2>4
  <2>5. ASSUME NEW t \in Tasks, NEW o \in Ops, CancelCollect(t, o) PROVE Keep
    BY <2>5, <2>4 DEF CancelCollect
  <2>6. ASSUME NEW w \in Waiters, NEW o \in Ops, Wait(w, o) PROVE Keep
    BY <2>6, <2>4 DEF Wait, Look
  <2>7. ASSUME NEW t \in Tasks, LinkChild(t) \/ Drop(t) PROVE Keep
    BY <2>7, <2>4 DEF LinkChild, Drop
  <2>8. ASSUME NEW w \in Waiters, LookAgain(w) PROVE Keep
    BY <2>8, <2>4 DEF LookAgain, Look
  <2> QED
    BY <2>1, <2>2, <2>3, <2>5, <2>6, <2>7, <2>8 DEF Next
<1> QED
  BY <1>1, SpecInd, PTL DEF Spec, TerminalIsFinal

\* A change of one record that notifies its waiters leaves nobody asleep on an
\* operation that has ended.
LEMMA MoveWakes ==
  ASSUME IndInv, NoLostWakeup, NEW o \in Ops, NEW to, Wake(o),
         state' = [state EXCEPT ![o] = to]
  PROVE  NoLostWakeup'
<1> SUFFICES ASSUME NEW w \in Waiters, waiter'[w].at = "registered"
             PROVE  state'[waiter'[w].op] \notin Terminal
  BY DEF NoLostWakeup, IsTerminal
<1>1. waiter'[w] = waiter[w] /\ waiter[w].op # o
  BY DEF Wake, IndInv, TypeOK, WaiterState
<1>2. waiter[w].op \in Ops /\ ~IsTerminal(waiter[w].op)
  BY <1>1 DEF NoLostWakeup, IndInv, WaiterInv
<1> QED
  BY <1>1, <1>2 DEF IsTerminal, IndInv, TypeOK

\* For any number of operations, calls and waiters, no waiter misses the
\* notification of the operation it waits for.
THEOREM NoWakeupIsLost == Spec => []NoLostWakeup
<1>1. Init => NoLostWakeup
  BY DEF Init, NoLostWakeup, Resting
<1>2. ASSUME IndInv, NoLostWakeup, [Next]_vars PROVE NoLostWakeup'
  <2> USE <1>2
  <2>1. ASSUME NEW t \in Tasks, NEW o \in Ops, NEW w \in Owners,
               NEW p \in Ops \cup {None}, Submit(t, o, w, p)
        PROVE  NoLostWakeup'
    BY <2>1 DEF Submit, NoLostWakeup, IndInv, TypeOK, WaiterInv, IsTerminal, Terminal
  <2>2. ASSUME NEW o \in Ops, Start(o) \/ Succeed(o) \/ Fail(o) \/ Panic(o)
        PROVE  NoLostWakeup'
    BY <2>2, MoveWakes DEF Start, Succeed, Fail, Panic, SetRunningState
  <2>3. ASSUME NEW t \in Tasks, CancelNext(t) PROVE NoLostWakeup'
    <3>1. PICK o \in Ops : CancelOne(o)
      BY <2>3 DEF CancelNext, IndInv, TodoInv
    <3>2. CASE state[o] \in Live
      BY <3>1, <3>2, MoveWakes DEF CancelOne
    <3>3. CASE state[o] \notin Live
      BY <3>1, <3>3 DEF CancelOne, NoLostWakeup, IsTerminal
    <3> QED
      BY <3>2, <3>3
  <2>4. ASSUME NEW w \in Waiters, NEW o \in Ops, Look(w, o) PROVE NoLostWakeup'
    BY <2>4 DEF Look, Sleeping, NoLostWakeup, IsTerminal, IndInv, TypeOK, WaiterState
  <2>5. ASSUME NEW w \in Waiters, LookAgain(w) PROVE NoLostWakeup'
    BY <2>5, <2>4 DEF LookAgain, IndInv, WaiterInv
  <2>6. ASSUME UNCHANGED <<state, waiter>> PROVE NoLostWakeup'
    BY <2>6 DEF NoLostWakeup, IsTerminal
  <2>7. ASSUME NEW t \in Tasks, LinkChild(t) \/ Drop(t) \/ \E o \in Ops : CancelCollect(t, o)
        PROVE  NoLostWakeup'
    BY <2>7, <2>6 DEF LinkChild, Drop, CancelCollect
  <2>8. CASE UNCHANGED vars
    BY <2>8, <2>6 DEF vars
  <2> QED
    BY <2>1, <2>2, <2>3, <2>4, <2>5, <2>7, <2>8 DEF Next, Wait
<1> QED
  BY <1>1, <1>2, SpecInd, PTL DEF Spec

-----------------------------------------------------------------------------
(***************************************************************************)
(* Mailbox, the other place where a task sleeps until it is notified: its  *)
(* lanes are bounded queues and no wake-up is lost, for any number of      *)
(* senders and receivers.                                                  *)
(***************************************************************************)

\* Where an actor can be.
Places == {"idle", "routed", "high", "normal", "notify", "take", "created", "called",
           "asleep", "woken", "again", "ended", "away", "gone"}

Notifying == \E s \in Senders : pc[s] = "notify"

\* Nobody is on the way to the queues.
AllRest == \A r \in Receivers : pc[r] \in {"created", "asleep", "away"}

\* The Notify keeps a permit only while nobody is registered, a closed mailbox has
\* nobody waiting, and with receivers that all rest beside an envelope of an open
\* one, its notification is pending or kept.
Awake ==
  /\ permit => \A r \in Receivers : pc[r] # "asleep"
  /\ closed => \A r \in Receivers : pc[r] \notin {"created", "asleep"}
  /\ ~closed => \A r \in Receivers : pc[r] # "called"
  /\ Waiting /\ AllRest /\ ~closed => permit \/ Notifying

\* The inductive invariant of the lanes.
LanesInv == MailTypeOK /\ InOrder

-----------------------------------------------------------------------------
(* Facts about the sequences of a lane. *)

\* What is accepted of a lane, after envelope e was appended to its queue.
Pushed(acc, rec, q, e) ==
  /\ Append(q, e) \in Seq(Nat) /\ Append(acc, e) \in Seq(Nat)
  /\ Len(Append(q, e)) = Len(q) + 1
  /\ Append(acc, e) = rec \o Append(q, e)

\* What is received of a lane, after the head of its queue was taken.
Taken(acc, rec, q) ==
  /\ Tail(q) \in Seq(Nat) /\ Append(rec, Head(q)) \in Seq(Nat)
  /\ Len(Tail(q)) = Len(q) - 1
  /\ acc = Append(rec, Head(q)) \o Tail(q)

\* Appending an envelope to the queue appends it to what went through the lane.
LEMMA PushKeepsOrder ==
  ASSUME NEW acc \in Seq(Nat), NEW rec \in Seq(Nat), NEW q \in Seq(Nat), NEW e \in Nat,
         acc = rec \o q
  PROVE  Pushed(acc, rec, q, e)
<1>1. <<e>> \in Seq(Nat)
  OBVIOUS
<1>2. Append(q, e) = q \o <<e>> /\ Append(acc, e) = acc \o <<e>>
  BY AppendIsConcat
<1>3. (rec \o q) \o <<e>> = rec \o (q \o <<e>>)
  BY <1>1, ConcatAssociative
<1> QED
  BY <1>2, <1>3 DEF Pushed

\* Moving the head of the queue to the received envelopes changes nothing.
LEMMA TakeKeepsOrder ==
  ASSUME NEW acc \in Seq(Nat), NEW rec \in Seq(Nat), NEW q \in Seq(Nat), q # <<>>,
         acc = rec \o q
  PROVE  Taken(acc, rec, q)
BY SMTT(30) DEF Taken

-----------------------------------------------------------------------------
(* The lanes. *)

\* Init establishes the invariant of the lanes.
LEMMA InitLanes == MailInit => LanesInv
<1> SUFFICES ASSUME MailInit
             PROVE  LanesInv
  OBVIOUS
<1>1. /\ queue \in [Lanes -> Seq(Nat)] /\ accepted = queue /\ received = queue
      /\ \A l \in Lanes : queue[l] = <<>>
  BY DEF MailInit, NoEnvelopes
<1>2. <<>> \o <<>> = <<>>
  OBVIOUS
<1>3. InOrder
  BY <1>1, <1>2 DEF InOrder
<1>4. Len(queue["high"]) <= 1 /\ Len(queue["normal"]) <= Capacity
  BY <1>1, MailboxAssumption DEF Lanes
<1> QED
  BY <1>1, <1>3, <1>4 DEF MailInit, LanesInv, MailTypeOK

\* A step that touches no lane keeps their invariant.
LEMMA QuietLanes ==
  ASSUME LanesInv, pc' \in [Actors -> Places],
         lock' \in Actors \cup {Nobody}, registry' \in Senders \cup {Nobody},
         closed' \in BOOLEAN, permit' \in BOOLEAN, registered' \in BOOLEAN,
         UNCHANGED <<queue, log>>
  PROVE  LanesInv'
BY DEF LanesInv, MailTypeOK, InOrder, Places, log

LEMMA PushLanes ==
  ASSUME LanesInv, NEW s \in Senders, SendPush(s)
  PROVE  LanesInv'
<1> DEFINE lane == pc[s]
<1>1. lane \in Lanes /\ ~Full(lane) /\ sent + 1 \in Nat
  BY DEF SendPush, LanesInv, MailTypeOK
<1>2. /\ queue[lane] \in Seq(Nat) /\ accepted[lane] \in Seq(Nat) /\ received[lane] \in Seq(Nat)
      /\ accepted[lane] = received[lane] \o queue[lane]
  BY <1>1 DEF LanesInv, MailTypeOK, InOrder
<1> DEFINE acc == accepted[lane]
           rec == received[lane]
           old == queue[lane]
           e == sent + 1
           q == Append(old, e)
           a == Append(acc, e)
<1> HIDE DEF acc, rec, old, e
<1>3. /\ q \in Seq(Nat) /\ a \in Seq(Nat) /\ Len(q) = Len(queue[lane]) + 1
      /\ a = received[lane] \o q
  <2>1. acc \in Seq(Nat) /\ rec \in Seq(Nat) /\ old \in Seq(Nat) /\ e \in Nat /\ acc = rec \o old
    BY <1>1, <1>2 DEF acc, rec, old, e
  <2>2. q \in Seq(Nat) /\ a \in Seq(Nat) /\ Len(q) = Len(old) + 1 /\ a = rec \o q
    <3>1. Pushed(acc, rec, old, e)
      BY <2>1, PushKeepsOrder
    <3> QED
      BY <3>1 DEF Pushed
  <2> HIDE DEF q, a
  <2> QED
    BY <2>2 DEF rec, old
<1>4. /\ queue' = [queue EXCEPT ![lane] = q] /\ accepted' = [accepted EXCEPT ![lane] = a]
      /\ received' = received
  BY DEF SendPush, acc, old, e
<1> HIDE DEF q, a
<1>5. Len(queue'["high"]) <= 1 /\ Len(queue'["normal"]) <= Capacity
  <2>1. CASE lane = "high"
    <3>1. Len(queue["high"]) = 0
      BY <1>1, <2>1 DEF Full, LanesInv, MailTypeOK, Lanes
    <3>2. queue'["high"] = q /\ queue'["normal"] = queue["normal"]
      BY <1>4, <2>1 DEF LanesInv, MailTypeOK, Lanes
    <3>3. Len(q) = 1
      BY <1>3, <2>1, <3>1
    <3> QED
      BY <3>2, <3>3 DEF LanesInv, MailTypeOK
  <2>2. CASE lane = "normal"
    <3>1. Len(queue["normal"]) < Capacity /\ Len(queue["normal"]) \in Nat
      BY <1>1, <2>2, MailboxAssumption DEF Full, LanesInv, MailTypeOK, Lanes
    <3> QED
      BY <1>3, <1>4, <2>2, <3>1, MailboxAssumption DEF LanesInv, MailTypeOK, Lanes
  <2> QED
    BY <1>1, <2>1, <2>2 DEF Lanes
<1>6. MailTypeOK'
  BY <1>1, <1>3, <1>4, <1>5 DEF SendPush, Goto, LanesInv, MailTypeOK, Actors
<1>7. InOrder'
  BY <1>1, <1>3, <1>4 DEF LanesInv, MailTypeOK, InOrder
<1> QED
  BY <1>6, <1>7 DEF LanesInv

LEMMA TakeLanes ==
  ASSUME LanesInv, NEW r \in Receivers, Take(r)
  PROVE  LanesInv'
<1> DEFINE lane == IF queue["high"] # <<>> THEN "high" ELSE "normal"
<1>1. lane \in Lanes /\ queue[lane] # <<>>
  BY DEF Take, Waiting, Lanes
<1>2. /\ queue[lane] \in Seq(Nat) /\ accepted[lane] \in Seq(Nat) /\ received[lane] \in Seq(Nat)
      /\ accepted[lane] = received[lane] \o queue[lane]
  BY <1>1 DEF LanesInv, MailTypeOK, InOrder
<1> DEFINE acc == accepted[lane]
           rec == received[lane]
           old == queue[lane]
           q == Tail(old)
           t == Append(rec, Head(old))
<1> HIDE DEF acc, rec, old
<1>3. /\ q \in Seq(Nat) /\ t \in Seq(Nat) /\ Len(q) = Len(queue[lane]) - 1
      /\ accepted[lane] = t \o q
  <2>1. /\ acc \in Seq(Nat) /\ rec \in Seq(Nat) /\ old \in Seq(Nat)
        /\ old # <<>> /\ acc = rec \o old
    BY <1>1, <1>2 DEF acc, rec, old
  <2>2. q \in Seq(Nat) /\ t \in Seq(Nat) /\ Len(q) = Len(old) - 1 /\ acc = t \o q
    <3>1. Taken(acc, rec, old)
      BY <2>1, TakeKeepsOrder
    <3> QED
      BY <3>1 DEF Taken
  <2> HIDE DEF q, t
  <2> QED
    BY <2>2 DEF acc, old
<1>4. /\ queue' = [queue EXCEPT ![lane] = q] /\ received' = [received EXCEPT ![lane] = t]
      /\ accepted' = accepted
  BY DEF Take, rec, old
<1> HIDE DEF q, t, lane
<1>5. Len(queue'["high"]) <= 1 /\ Len(queue'["normal"]) <= Capacity
  <2>1. /\ queue'[lane] = q /\ \A l \in Lanes \ {lane} : queue'[l] = queue[l]
        /\ "high" \in Lanes /\ "normal" \in Lanes
    BY <1>1, <1>4 DEF LanesInv, MailTypeOK, Lanes
  <2>2. Len(queue[lane]) \in Nat /\ Len(q) <= Len(queue[lane])
    BY <1>2, <1>3
  <2>3. /\ Len(queue["high"]) <= 1 /\ Len(queue["normal"]) <= Capacity
        /\ Len(q) \in Nat /\ Capacity \in Nat
    BY <1>3, MailboxAssumption DEF LanesInv, MailTypeOK
  <2>4. CASE lane = "high"
    BY <2>1, <2>2, <2>3, <2>4
  <2>5. CASE lane = "normal"
    BY <2>1, <2>2, <2>3, <2>5
  <2> QED
    BY <1>1, <2>4, <2>5 DEF Lanes
<1>6. MailTypeOK'
  <2>1. queue' \in [Lanes -> Seq(Nat)] /\ received' \in [Lanes -> Seq(Nat)]
    BY <1>1, <1>3, <1>4 DEF LanesInv, MailTypeOK
  <2> QED
    BY <1>4, <1>5, <2>1 DEF Take, Goto, LanesInv, MailTypeOK, Actors
<1>7. InOrder'
  BY <1>1, <1>3, <1>4 DEF LanesInv, MailTypeOK, InOrder
<1> QED
  BY <1>6, <1>7 DEF LanesInv

\* Every step keeps the invariant of the lanes.
LEMMA NextLanes == LanesInv /\ [MailNext]_mailVars => LanesInv'
<1> SUFFICES ASSUME LanesInv, [MailNext]_mailVars
             PROVE  LanesInv'
  OBVIOUS
<1> USE DEF Goto, Actors, Places
<1>0. pc \in [Actors -> Places] /\ Lanes \subseteq Places
  BY DEF LanesInv, MailTypeOK, Lanes
<1>1. ASSUME NEW s \in Senders, NEW lane \in Lanes, SendLock(s, lane)
      PROVE  LanesInv'
  BY <1>0, <1>1, QuietLanes DEF SendLock, LanesInv, MailTypeOK
<1>2. ASSUME NEW s \in Senders, Route(s) \/ SendReject(s) \/ SendNotify(s)
      PROVE  LanesInv'
  BY <1>0, <1>2, QuietLanes DEF Route, SendReject, SendNotify, EndRoute, LanesInv, MailTypeOK
<1>3. ASSUME NEW r \in Receivers,
             RecvLock(r) \/ TakeNothing(r) \/ Poll(r) \/ Abandon(r) \/ AbandonWoken(r) \/ Return(r)
      PROVE  LanesInv'
  BY <1>0, <1>3, QuietLanes
     DEF RecvLock, TakeNothing, Poll, Abandon, AbandonWoken, Return, LanesInv, MailTypeOK
<1>4. CASE Close
  <2>1. pc' \in [Actors -> Places]
    BY <1>0, <1>4 DEF Close
  <2> QED
    BY <1>4, <2>1, QuietLanes DEF Close, LanesInv, MailTypeOK
<1>5. CASE Unregister
  BY <1>0, <1>5, QuietLanes DEF Unregister, LanesInv, MailTypeOK
<1>6. CASE UNCHANGED mailVars
  BY <1>0, <1>6, QuietLanes DEF mailVars, LanesInv, MailTypeOK
<1> QED
  BY <1>1, <1>2, <1>3, <1>4, <1>5, <1>6, PushLanes, TakeLanes DEF MailNext, SendStep, RecvStep

\* InProcessMailbox is well formed and both its lanes are bounded, whatever the
\* senders and receivers do.
THEOREM LanesBounded == MailSpec => []MailTypeOK
BY InitLanes, NextLanes, PTL DEF MailSpec, LanesInv

\* In each lane recv hands out every accepted envelope once and in the order in
\* which send accepted it; close and unregister lose none.
THEOREM DeliveredInOrder == MailSpec => []InOrder
BY InitLanes, NextLanes, PTL DEF MailSpec, LanesInv

-----------------------------------------------------------------------------
(* Wake-ups. *)

LEMMA NextAwake ==
  ASSUME LanesInv, Awake, [MailNext]_mailVars
  PROVE  Awake'
<1> USE MailboxAssumption DEF Goto
<1>0. pc \in [Actors -> Places] /\ Senders \subseteq Actors /\ Receivers \subseteq Actors
  BY DEF LanesInv, MailTypeOK, Places, Actors
<1>1. ASSUME NEW s \in Senders, NEW lane \in Lanes, SendLock(s, lane)
      PROVE  Awake'
  BY <1>0, <1>1 DEF SendLock, Awake, AllRest, Notifying, Waiting, Lanes
<1>2. ASSUME NEW s \in Senders, Route(s) \/ SendReject(s)
      PROVE  Awake'
  BY <1>0, <1>2 DEF Route, SendReject, Awake, AllRest, Notifying, Waiting, Lanes
<1>3. ASSUME NEW s \in Senders, SendPush(s)
      PROVE  Awake'
  BY <1>0, <1>3 DEF SendPush, Awake, Notifying
<1>4. ASSUME NEW s \in Senders, SendNotify(s)
      PROVE  Awake'
  BY <1>0, <1>4 DEF SendNotify, Awake, AllRest, Notifying, Waiting
<1>5. ASSUME NEW r \in Receivers, RecvLock(r) \/ Take(r) \/ TakeNothing(r)
      PROVE  Awake'
  BY <1>0, <1>5 DEF RecvLock, Take, TakeNothing, Awake, AllRest, Notifying, Waiting
<1>6. ASSUME NEW r \in Receivers, Poll(r)
      PROVE  Awake'
  BY <1>0, <1>6 DEF Poll, Awake, AllRest, Notifying, Waiting
<1>7. ASSUME NEW r \in Receivers, Abandon(r) \/ AbandonWoken(r) \/ Return(r)
      PROVE  Awake'
  <2>1. CASE Abandon(r)
    BY <1>0, <2>1 DEF Abandon, Awake, AllRest, Notifying, Waiting
  <2>2. CASE AbandonWoken(r)
    BY <1>0, <2>2 DEF AbandonWoken, Awake, AllRest, Notifying, Waiting
  <2>3. CASE Return(r)
    BY <1>0, <2>3 DEF Return, Awake, AllRest, Notifying, Waiting
  <2> QED
    BY <1>7, <2>1, <2>2, <2>3
<1>8. CASE Close
  <2>1. /\ \A s \in Senders : pc[s] = "notify" => pc'[s] = "notify"
        /\ \A r \in Receivers : pc'[r] \notin {"created", "asleep"}
    BY <1>0, <1>8 DEF Close
  <2> QED
    BY <1>8, <2>1 DEF Close, Awake
<1>9. CASE Unregister \/ UNCHANGED mailVars
  BY <1>9 DEF Unregister, mailVars, Awake, AllRest, Notifying, Waiting
<1> QED
  BY <1>1, <1>2, <1>3, <1>4, <1>5, <1>6, <1>7, <1>8, <1>9 DEF MailNext, SendStep, RecvStep

\* The receivers of a mailbox never all sleep beside an envelope whose sender has
\* notified, although the Notify keeps one permit only and receivers stop while they
\* wait: send notifies after it released the lock, recv makes its future before it
\* does, and a woken future that is dropped passes its notification on.
THEOREM WakeupsArrive == MailSpec => []ReceiverNotified
<1>1. MailInit => Awake
  BY DEF MailInit, Awake, Waiting, NoEnvelopes, Lanes, Actors
<1>2. LanesInv /\ Awake /\ [MailNext]_mailVars => Awake'
  BY NextAwake
<1>3. Awake => ReceiverNotified
  BY DEF Awake, AllRest, ReceiverNotified, Notifying
<1> QED
  BY <1>1, <1>2, <1>3, InitLanes, NextLanes, PTL DEF MailSpec
=============================================================================
