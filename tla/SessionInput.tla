----------------------------- MODULE SessionInput -----------------------------
(***************************************************************************)
(* The prompt queue of one session: SessionInputCoordinator with its       *)
(* PromptQueueStore and InterjectionBuffer, driven by the daemon's         *)
(* execute_turn_with_context (crates/executive/src/application/            *)
(* session_input.rs and daemon_turn/execute.rs).                           *)
(*                                                                         *)
(* A client enqueues its prompt, tries to become the session's processor   *)
(* and, when it does, runs queued prompts until none is left.  The         *)
(* operation lock covers the calls of the coordinator except those that    *)
(* mark a prompt consumed, which only take the store's own lock; edit and  *)
(* cancel are therefore cut between their read and their write.  A turn is *)
(* a task of its own: it outlives the request that waits for it.           *)
(*                                                                         *)
(* A prompt is named by its idempotency key.  Its content is the version   *)
(* that wrote it.  The editor's principal is always the owner.             *)
(***************************************************************************)
EXTENDS Integers, Sequences, SequencesExt, FiniteSets

CONSTANTS
  Clients,
  Detached,                \* names the turn whose request was dropped
  Prompts, Interjections,  \* the idempotency keys of either kind
  MaxQueueLen,             \* MAX_QUEUE_LEN
  MaxChanges,              \* bound on edits and cancellations
  MaxIncidents,            \* bound on failing calls of the store, connections
                           \* that end and restarts of the daemon
  None

ASSUME SessionAssumption ==
  /\ MaxQueueLen \in Nat /\ MaxChanges \in Nat /\ MaxIncidents \in Nat
  /\ Prompts \cap Interjections = {}
  /\ Detached \notin Clients /\ None \notin Clients \cup {Detached} \cup Prompts \cup Interjections

Actors == Clients \cup {Detached}
Ids == Prompts \cup Interjections
Live == {"Queued", "Running"}

VARIABLES
  envelope,   \* the stored envelope of each key
  receipt,    \* the keys with a consume_receipt
  order,      \* the keys in the order of their sequence numbers
  lock,       \* who holds operation_lock
  processor,  \* is the session in `processors`?
  buffer,     \* the envelopes in the InterjectionBuffer, as they were enqueued
  call,       \* what each client, and the detached turn, is doing
  changes,    \* how many edits and cancellations were begun
  incidents,  \* how often something failed, was dropped or was restarted
  ran,        \* the prompts in the order in which their turns began (history)
  given       \* the interjections handed to a turn (history)

vars == <<envelope, receipt, order, lock, processor, buffer, call, changes, incidents, ran, given>>

Absent == [state |-> "absent", version |-> 0, content |-> 0]
Idle == [at |-> "idle", id |-> None, copy |-> Absent, drained |-> <<>>]

Init ==
  /\ envelope = [p \in Ids |-> Absent] /\ receipt = {} /\ order = <<>>
  /\ lock = None /\ processor = FALSE /\ buffer = <<>>
  /\ call = [c \in Actors |-> Idle]
  /\ changes = 0 /\ incidents = 0
  /\ ran = <<>> /\ given = <<>>

At(c, l) == call[c].at = l
Change == changes < MaxChanges /\ changes' = changes + 1
Incident == incidents < MaxIncidents /\ incidents' = incidents + 1
Goto(c, l) == call' = [call EXCEPT ![c].at = l]
Depth == Cardinality({p \in Ids : envelope[p].state \in Live})
Advance(e, s) == [e EXCEPT !.state = s, !.version = @ + 1]

-----------------------------------------------------------------------------
(* enqueue and the claim of the processor *)

StoreAppend(p) ==
  /\ envelope' = [envelope EXCEPT ![p].state = "Queued"]
  /\ order' = Append(order, p)

\* Mutant: a replayed request is queued again.
EnqueueAgain(c, p) ==
  /\ At(c, "idle") /\ lock = None
  /\ Depth < MaxQueueLen
  /\ StoreAppend(p)
  /\ Goto(c, "claim")
  /\ UNCHANGED <<changes, receipt, lock, processor, buffer, incidents, ran, given>>

\* A key that is known already returns the stored prompt; a full queue rejects.
\* The client goes on to the claim in either case but the last.
Enqueue(c, p) ==
  /\ At(c, "idle") /\ lock = None
  /\ \/ /\ envelope[p] # Absent
        /\ UNCHANGED <<envelope, order>>
     \/ /\ envelope[p] = Absent /\ Depth < MaxQueueLen
        /\ StoreAppend(p)
  /\ Goto(c, "claim")
  /\ UNCHANGED <<changes, receipt, lock, processor, buffer, incidents, ran, given>>

\* An interjection is stored first and buffered then, under the lock.
Interject(c, i) ==
  /\ At(c, "idle") /\ lock = None
  /\ envelope[i] = Absent /\ Depth < MaxQueueLen
  /\ StoreAppend(i)
  /\ lock' = c
  /\ call' = [call EXCEPT ![c].at = "push", ![c].id = i]
  /\ UNCHANGED <<changes, receipt, processor, buffer, incidents, ran, given>>

Push(c) ==
  /\ At(c, "push")
  /\ buffer' = Append(buffer, [id |-> call[c].id, content |-> 0])
  /\ lock' = None
  /\ call' = [call EXCEPT ![c] = Idle]
  /\ UNCHANGED <<changes, envelope, receipt, order, processor, incidents, ran, given>>

\* try_claim_processor; a client that is not the processor answers "queued".
Claim(c) ==
  /\ At(c, "claim") /\ lock = None
  /\ processor' = TRUE
  /\ Goto(c, IF processor THEN "idle" ELSE "take")
  /\ UNCHANGED <<changes, envelope, receipt, order, lock, buffer, incidents, ran, given>>

-----------------------------------------------------------------------------
(* The processor's loop *)

\* Where the queued prompts stand in the order.
Queued == {n \in 1..Len(order) : order[n] \in Prompts /\ envelope[order[n]].state = "Queued"}

\* Mutant: the newest prompt is taken first.
TakeNewest(c) ==
  /\ At(c, "take") /\ lock = None
  /\ \E n \in Queued : LET p == order[n] IN
         /\ \A m \in Queued : m <= n
         /\ envelope' = [envelope EXCEPT ![p] = Advance(@, "Running")]
         /\ ran' = Append(ran, p)
         /\ call' = [call EXCEPT ![c].at = "turn", ![c].id = p]
  /\ UNCHANGED <<changes, receipt, order, lock, processor, buffer, incidents, given>>

\* take_next_or_release with a prompt in the queue: the first one.
Take(c) ==
  /\ At(c, "take") /\ lock = None
  /\ \E n \in Queued : LET p == order[n] IN
         /\ \A m \in Queued : n <= m
         /\ envelope' = [envelope EXCEPT ![p] = Advance(@, "Running")]
         /\ ran' = Append(ran, p)
         /\ call' = [call EXCEPT ![c].at = "turn", ![c].id = p]
  /\ UNCHANGED <<changes, receipt, order, lock, processor, buffer, incidents, given>>

\* Mutant: the lock is given up between the look at the queue and the release.
TakeNoneUnlocked(c) ==
  /\ At(c, "take") /\ lock = None /\ Queued = {}
  /\ Goto(c, "release")
  /\ UNCHANGED <<changes, envelope, receipt, order, lock, processor, buffer, incidents, ran, given>>

\* take_next_or_release with none.
TakeNone(c) ==
  /\ At(c, "take") /\ lock = None /\ Queued = {}
  /\ processor' = FALSE
  /\ call' = [call EXCEPT ![c] = Idle]
  /\ UNCHANGED <<changes, envelope, receipt, order, lock, buffer, incidents, ran, given>>

\* The store fails, and release_processor comes as a call of its own.
TakeFails(c) ==
  /\ At(c, "take") /\ lock = None
  /\ Incident
  /\ Goto(c, "release")
  /\ UNCHANGED <<changes, envelope, receipt, order, lock, processor, buffer, ran, given>>

Release(c) ==
  /\ At(c, "release") /\ lock = None
  /\ processor' = FALSE
  /\ call' = [call EXCEPT ![c] = Idle]
  /\ UNCHANGED <<changes, envelope, receipt, order, lock, buffer, incidents, ran, given>>

\* A safe point of the turn empties the buffer ...
Drain(c) ==
  /\ At(c, "turn") /\ buffer # <<>>
  /\ call' = [call EXCEPT ![c].at = "drain", ![c].drained = buffer]
  /\ buffer' = <<>>
  /\ UNCHANGED <<changes, envelope, receipt, order, lock, processor, incidents, ran, given>>

\* mark_consumed: the first receipt counts.
MarkConsumed(p) ==
  /\ receipt' = receipt \cup {p}
  /\ envelope' = [envelope EXCEPT ![p] = IF p \in receipt THEN @ ELSE Advance(@, "Completed")]

\* ... and marks one interjection after the other.
Deliver(c) ==
  /\ At(c, "drain") /\ call[c].drained # <<>>
  /\ LET e == Head(call[c].drained)
     IN  /\ MarkConsumed(e.id)
         /\ given' = IF e.id \in receipt THEN given ELSE Append(given, e)
  /\ call' = [call EXCEPT ![c].drained = Tail(@)]
  /\ UNCHANGED <<changes, order, lock, processor, buffer, incidents, ran>>

DrainEnds(c) ==
  /\ At(c, "drain") /\ call[c].drained = <<>>
  /\ Goto(c, "turn")
  /\ UNCHANGED <<changes, envelope, receipt, order, lock, processor, buffer, incidents, ran, given>>

\* The store fails: the rest of what was drained goes with the error.
DrainFails(c) ==
  /\ At(c, "drain") /\ call[c].drained # <<>>
  /\ Incident
  /\ call' = [call EXCEPT ![c].at = "turn", ![c].drained = <<>>]
  /\ UNCHANGED <<changes, envelope, receipt, order, lock, processor, buffer, ran, given>>

\* The turn succeeded: mark_prompt_completed, without the operation lock.
TurnSucceeds(c) ==
  /\ At(c, "turn")
  /\ MarkConsumed(call[c].id)
  /\ Goto(c, "take")
  /\ UNCHANGED <<changes, order, lock, processor, buffer, incidents, ran, given>>

\* The turn failed: mark_prompt_rejected.
TurnFails(c) ==
  /\ At(c, "turn") /\ lock = None
  /\ envelope' = [envelope EXCEPT ![call[c].id] = Advance(@, "Rejected")]
  /\ Goto(c, "take")
  /\ UNCHANGED <<changes, receipt, order, lock, processor, buffer, incidents, ran, given>>

\* The store fails to record how the turn ended: the loop only warns.
MarkFails(c) ==
  /\ At(c, "turn")
  /\ Incident
  /\ Goto(c, "take")
  /\ UNCHANGED <<changes, envelope, receipt, order, lock, processor, buffer, ran, given>>

-----------------------------------------------------------------------------
(* edit and cancel *)

\* Mutant: a running prompt can be edited.
EditableAlways(e) == e # Absent

\* evaluate_edit, for the owner and the current version.
Editable(e) == e # Absent /\ e.state # "Running"

EditRead(c, p) ==
  /\ At(c, "idle") /\ lock = None
  /\ Editable(envelope[p]) /\ Change
  /\ lock' = c
  /\ call' = [call EXCEPT ![c].at = "edit", ![c].id = p, ![c].copy = envelope[p]]
  /\ UNCHANGED <<envelope, receipt, order, processor, buffer, incidents, ran, given>>

CancelRead(c, p) ==
  /\ At(c, "idle") /\ lock = None
  /\ envelope[p] # Absent /\ Change
  /\ lock' = c
  /\ call' = [call EXCEPT ![c].at = "cancel", ![c].id = p, ![c].copy = envelope[p]]
  /\ UNCHANGED <<envelope, receipt, order, processor, buffer, incidents, ran, given>>

\* The write replaces the whole envelope by the changed copy.
Write(c) ==
  LET copy == call[c].copy
  IN  /\ \/ /\ At(c, "edit")
            /\ envelope' = [envelope EXCEPT ![call[c].id] =
                              [copy EXCEPT !.version = @ + 1, !.content = copy.version + 1]]
         \/ /\ At(c, "cancel")
            /\ envelope' = [envelope EXCEPT ![call[c].id] = Advance(copy, "Cancelled")]
      /\ lock' = None
      /\ call' = [call EXCEPT ![c] = Idle]
      /\ UNCHANGED <<changes, receipt, order, processor, buffer, incidents, ran, given>>

-----------------------------------------------------------------------------
(* Connections and the daemon *)

\* The end of a connection drops the requests it has in progress; a turn, which drains
\* interjections by itself, goes on without the loop that would mark its prompt.
Disconnect(c) ==
  /\ Incident
  /\ ~At(c, "idle")
  /\ call' = IF call[c].at \in {"turn", "drain"}
             THEN [call EXCEPT ![Detached] = call[c], ![c] = Idle]
             ELSE [call EXCEPT ![c] = Idle]
  /\ lock' = IF lock = c THEN None ELSE lock
  /\ UNCHANGED <<changes, envelope, receipt, order, processor, buffer, ran, given>>

\* The detached turn ends, and nobody waits for its result.
DetachedEnds ==
  /\ At(Detached, "turn")
  /\ call' = [call EXCEPT ![Detached] = Idle]
  /\ UNCHANGED <<changes, envelope, receipt, order, lock, processor, buffer, incidents, ran, given>>

\* The daemon stops and starts again: the store is what is left.
Restart ==
  /\ Incident
  /\ call' = [c \in Actors |-> Idle]
  /\ lock' = None /\ processor' = FALSE /\ buffer' = <<>>
  /\ UNCHANGED <<changes, envelope, receipt, order, ran, given>>

-----------------------------------------------------------------------------
\* What a turn does at its safe points.
SafePoint(c) == Drain(c) \/ Deliver(c) \/ DrainEnds(c) \/ DrainFails(c)

\* What a request does once it has begun.
Proceed(c) ==
  \/ Push(c) \/ Claim(c) \/ Take(c) \/ TakeNone(c) \/ TakeFails(c) \/ Release(c)
  \/ TurnSucceeds(c) \/ TurnFails(c) \/ MarkFails(c) \/ Write(c)

Next ==
  \/ \E c \in Clients : \/ Proceed(c) \/ Disconnect(c)
                        \/ \E p \in Prompts : Enqueue(c, p)
                        \/ \E i \in Interjections : Interject(c, i)
                        \/ \E p \in Ids : EditRead(c, p) \/ CancelRead(c, p)
  \/ \E c \in Actors : SafePoint(c)
  \/ DetachedEnds \/ Restart

Spec == Init /\ [][Next]_vars

\* A request that was begun goes on, and a turn ends.
FairSpec == Spec /\ \A c \in Clients : WF_vars(Proceed(c) \/ SafePoint(c))

-----------------------------------------------------------------------------
(* Properties *)

\* The state of the model is well formed.
TypeOK ==
  /\ envelope \in [Ids -> [state : Live \cup {"absent", "Completed", "Cancelled", "Rejected"},
                           version : Nat, content : Nat]]
  /\ receipt \subseteq Ids
  /\ IsInjective(order) /\ ToSet(order) = {p \in Ids : envelope[p] # Absent}
  /\ lock \in Clients \cup {None} /\ processor \in BOOLEAN
  /\ \A i \in 1..Len(buffer) : buffer[i].id \in Interjections
  /\ \A c \in Actors :  /\ call[c].at \in {"idle", "push", "claim", "take", "release", "turn",
                                           "drain", "edit", "cancel"}
                        /\ call[c].id \in Ids \cup {None}
  /\ incidents \in 0..MaxIncidents

\* No prompt runs twice and no interjection is handed out twice, whatever is
\* retried, edited, dropped or restarted.
ExactlyOnce ==
  /\ TypeOK
  /\ IsInjective(ran) /\ IsInjective([k \in 1..Len(given) |-> given[k].id])

Busy == {c \in Actors : call[c].at \in {"take", "release", "turn", "drain"}}

\* Prompts begin one at a time, by a processor that holds the claim, and in the order in
\* which they were enqueued; no turn begins beside one that outlives its request.
InOrder ==
  /\ Cardinality(Busy) <= 1 /\ (Busy # {} => processor)
  /\ \A j, k \in 1..Len(ran) : \A m, n \in 1..Len(order) :
       j < k /\ order[m] = ran[j] /\ order[n] = ran[k] => m < n

\* A turn runs what its prompt says: until it is cancelled, the envelope of a
\* running prompt keeps the content with which it was taken.
RunsWhatItSays ==
  [][\A c \in Actors : At(c, "turn") /\ envelope[call[c].id].state = "Running" =>
        envelope'[call[c].id].content = envelope[call[c].id].content]_vars

\* Every queued prompt is taken or cancelled in the end, until something fails.
Served ==
  \A p \in Prompts : envelope[p].state = "Queued" ~> (envelope[p].state # "Queued" \/ incidents > 0)
===============================================================================
