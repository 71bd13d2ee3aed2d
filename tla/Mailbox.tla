------------------------------- MODULE Mailbox -------------------------------
(***************************************************************************)
(* The mailbox of a process and its place in the registry: InProcess-      *)
(* Mailbox and InProcessMailboxService (crates/fabric/src/ipc/mailbox.rs). *)
(*                                                                         *)
(* Senders push under the lock and notify after they released it;          *)
(* receivers look at the queues under the lock, create a future of the     *)
(* Notify there, and wait for it outside.  tokio's Notify keeps at most    *)
(* one permit for receivers that have not registered with it yet.          *)
(*                                                                         *)
(* A sender holds the mailbox itself or goes through route_at, which keeps *)
(* the lock of the registry until send is done.                            *)
(*                                                                         *)
(* Envelopes are numbered in the order in which they are accepted; expiry  *)
(* and schema checks reject an envelope before it comes here.              *)
(***************************************************************************)
EXTENDS Integers, Sequences, FiniteSets

CONSTANTS Senders, Receivers,
          Capacity,      \* of the normal lane
          MaxSends,      \* bound on the envelopes accepted
          Nobody

ASSUME MailboxAssumption ==
  /\ Capacity \in Nat /\ MaxSends \in Nat
  /\ Senders \cap Receivers = {}
  /\ Nobody \notin Senders \cup Receivers

Actors == Senders \cup Receivers
Lanes == {"high", "normal"}

VARIABLES
  pc,          \* where each actor is
  lock,        \* who holds the lock of the state
  queue,       \* the envelopes in each lane
  closed,
  permit,      \* the permit that the Notify keeps
  registered,  \* is the mailbox in the registry?
  registry,    \* who holds the lock of the registry
  sent,        \* how many envelopes were accepted (history)
  accepted,    \* those accepted in each lane (history)
  received     \* those received from each lane (history)

log == <<sent, accepted, received>>
mailVars == <<pc, lock, queue, closed, permit, registered, registry, log>>

NoEnvelopes == [l \in Lanes |-> <<>>]

MailInit ==
  /\ pc = [a \in Actors |-> "idle"]
  /\ lock = Nobody /\ registry = Nobody
  /\ queue = NoEnvelopes /\ accepted = NoEnvelopes /\ received = NoEnvelopes
  /\ closed = FALSE /\ permit = FALSE /\ registered = TRUE
  /\ sent = 0

Goto(a, l) == pc' = [pc EXCEPT ![a] = l]
Waiting == queue["high"] # <<>> \/ queue["normal"] # <<>>

-----------------------------------------------------------------------------
(* route_at and send *)

\* route_at finds the mailbox, and keeps the lock of the registry.
Route(s) ==
  /\ pc[s] = "idle" /\ registry = Nobody
  /\ registered /\ sent < MaxSends
  /\ registry' = s
  /\ Goto(s, "routed")
  /\ UNCHANGED <<lock, queue, closed, permit, registered, log>>

SendLock(s, lane) ==
  /\ pc[s] \in {"idle", "routed"} /\ lock = Nobody
  /\ sent < MaxSends
  /\ lock' = s
  /\ Goto(s, lane)
  /\ UNCHANGED <<queue, closed, permit, registered, registry, log>>

\* The end of send is the end of a route_at that called it.
EndRoute(s) == registry' = IF registry = s THEN Nobody ELSE registry

\* The emergency lane holds one envelope.
Full(lane) ==
  IF lane = "high" THEN queue["high"] # <<>> ELSE Len(queue["normal"]) >= Capacity

\* A closed mailbox and a full lane reject.
SendReject(s) ==
  /\ pc[s] \in Lanes
  /\ closed \/ Full(pc[s])
  /\ lock' = Nobody
  /\ EndRoute(s)
  /\ Goto(s, "idle")
  /\ UNCHANGED <<queue, closed, permit, registered, log>>

\* Mutant: the sender forgets to notify.
SendPushQuietly(s) ==
  LET lane == pc[s]
  IN  /\ lane \in Lanes
      /\ ~closed /\ ~Full(lane)
      /\ queue' = [queue EXCEPT ![lane] = Append(@, sent + 1)]
      /\ accepted' = [accepted EXCEPT ![lane] = Append(@, sent + 1)]
      /\ sent' = sent + 1
      /\ lock' = Nobody
      /\ EndRoute(s)
      /\ Goto(s, "idle")
      /\ UNCHANGED <<closed, permit, registered, received>>

SendPush(s) ==
  LET lane == pc[s]
  IN  /\ lane \in Lanes
      /\ ~closed /\ ~Full(lane)
      /\ queue' = [queue EXCEPT ![lane] = Append(@, sent + 1)]
      /\ accepted' = [accepted EXCEPT ![lane] = Append(@, sent + 1)]
      /\ sent' = sent + 1
      /\ lock' = Nobody
      /\ Goto(s, "notify")
      /\ UNCHANGED <<closed, permit, registered, registry, received>>

\* notify_one: wake a receiver that has registered, or keep a permit.  (The
\* one that has waited longest; here any.)
SendNotify(s) ==
  /\ pc[s] = "notify"
  /\ \/ \E r \in Receivers : /\ pc[r] = "asleep"
                             /\ pc' = [pc EXCEPT ![s] = "idle", ![r] = "woken"]
                             /\ UNCHANGED permit
     \/ /\ \A r \in Receivers : pc[r] # "asleep"
        /\ Goto(s, "idle")
        /\ permit' = TRUE
  /\ EndRoute(s)
  /\ UNCHANGED <<lock, queue, closed, registered, log>>

-----------------------------------------------------------------------------
(* recv *)

\* Mutant: recv of a closed mailbox returns None before it looks at the queues.
RecvLockClosed(r) ==
  /\ pc[r] \in {"idle", "again"} /\ lock = Nobody
  /\ lock' = IF closed THEN Nobody ELSE r
  /\ Goto(r, IF closed THEN "ended" ELSE "take")
  /\ UNCHANGED <<queue, closed, permit, registered, registry, log>>

RecvLock(r) ==
  /\ pc[r] \in {"idle", "again"} /\ lock = Nobody
  /\ lock' = r
  /\ Goto(r, "take")
  /\ UNCHANGED <<queue, closed, permit, registered, registry, log>>

\* Mutant: the newest envelope is taken first.
TakeLast(r) ==
  /\ pc[r] = "take" /\ Waiting
  /\ LET lane == IF queue["high"] # <<>> THEN "high" ELSE "normal"
         n == Len(queue[lane])
     IN  /\ queue' = [queue EXCEPT ![lane] = SubSeq(@, 1, n - 1)]
         /\ received' = [received EXCEPT ![lane] = Append(@, queue[lane][n])]
  /\ lock' = Nobody
  /\ Goto(r, "idle")
  /\ UNCHANGED <<closed, permit, registered, registry, sent, accepted>>

\* The high lane comes first; within a lane the oldest envelope.
Take(r) ==
  /\ pc[r] = "take" /\ Waiting
  /\ LET lane == IF queue["high"] # <<>> THEN "high" ELSE "normal"
     IN  /\ queue' = [queue EXCEPT ![lane] = Tail(@)]
         /\ received' = [received EXCEPT ![lane] = Append(@, Head(queue[lane]))]
  /\ lock' = Nobody
  /\ Goto(r, "idle")
  /\ UNCHANGED <<closed, permit, registered, registry, sent, accepted>>

\* With empty queues recv returns None if the mailbox is closed, or else makes
\* itself a future of the Notify before it releases the lock.
TakeNothing(r) ==
  /\ pc[r] = "take" /\ ~Waiting
  /\ Goto(r, IF closed THEN "ended" ELSE "created")
  /\ lock' = Nobody
  /\ UNCHANGED <<queue, closed, permit, registered, registry, log>>

\* The first poll of that future takes the permit, ends if notify_waiters was
\* called after the future was made, or registers.  A later one takes the
\* notification that woke it.
Poll(r) ==
  /\ pc[r] \in {"created", "called", "woken"}
  /\ Goto(r, IF permit \/ pc[r] # "created" THEN "again" ELSE "asleep")
  /\ permit' = (permit /\ pc[r] = "woken")
  /\ UNCHANGED <<lock, queue, closed, registered, registry, log>>

\* A caller of recv stops: AgentMailboxBridge::run selects between recv and its
\* cancellation, and returns after a signal, an envelope it cannot decode or when
\* its own reader is gone; the request helpers are under a timeout.  "away" left
\* while it waited for a notification, "gone" may have taken one, which is lost.
Abandon(r) ==
  /\ pc[r] \in {"idle", "created", "called", "asleep", "again"}
  /\ Goto(r, IF pc[r] \in {"idle", "again"} THEN "gone" ELSE "away")
  /\ UNCHANGED <<lock, queue, closed, permit, registered, registry, log>>

\* A future that was woken by notify_one and is dropped before it was polled passes
\* the notification on.
AbandonWoken(r) ==
  /\ pc[r] = "woken"
  /\ \/ \E q \in Receivers : /\ pc[q] = "asleep"
                             /\ pc' = [pc EXCEPT ![r] = "away", ![q] = "woken"]
                             /\ UNCHANGED permit
     \/ /\ \A q \in Receivers : pc[q] # "asleep"
        /\ Goto(r, "away") /\ permit' = TRUE
  /\ UNCHANGED <<lock, queue, closed, registered, registry, log>>

\* It may call recv again; the bridge does not.
Return(r) ==
  /\ pc[r] \in {"away", "gone"}
  /\ Goto(r, "idle")
  /\ UNCHANGED <<lock, queue, closed, permit, registered, registry, log>>

-----------------------------------------------------------------------------
(* close and unregister *)

\* close sets the flag and calls notify_waiters, which wakes every receiver that
\* has made its future.  It uses try_lock: while somebody holds the lock it does
\* nothing at all, and nobody is told.
Close ==
  /\ lock = Nobody
  /\ closed' = TRUE
  /\ pc' = [a \in Actors |-> CASE pc[a] = "created" -> "called"
                               [] pc[a] = "asleep" -> "again"
                               [] OTHER -> pc[a]]
  /\ UNCHANGED <<lock, queue, permit, registered, registry, log>>

\* unregister takes the mailbox out of the registry.
Unregister ==
  /\ registered /\ registry = Nobody
  /\ registered' = FALSE
  /\ UNCHANGED <<pc, lock, queue, closed, permit, registry, log>>

-----------------------------------------------------------------------------
SendStep(s) == SendReject(s) \/ SendPush(s) \/ SendNotify(s)
RecvStep(r) == RecvLock(r) \/ Take(r) \/ TakeNothing(r) \/ Poll(r)

MailNext ==
  \/ \E s \in Senders : SendStep(s) \/ Route(s) \/ \E lane \in Lanes : SendLock(s, lane)
  \/ \E r \in Receivers : RecvStep(r) \/ Abandon(r) \/ AbandonWoken(r) \/ Return(r)
  \/ Close \/ Unregister

MailSpec == MailInit /\ [][MailNext]_mailVars

\* Calls that were begun go on; a receiver that has not stopped calls recv in a
\* loop, and tokio's lock is granted in the order of the requests.  Nothing makes
\* a receiver that has stopped return.
Fairness ==
  /\ \A s \in Senders : WF_mailVars(SendStep(s))
  /\ \A r \in Receivers : WF_mailVars(Take(r) \/ TakeNothing(r) \/ Poll(r)) /\ SF_mailVars(RecvLock(r))

FairSpec == MailSpec /\ Fairness

-----------------------------------------------------------------------------
(* Properties *)

\* The state of the model is well formed, and both lanes keep their bounds.
MailTypeOK ==
  /\ pc \in [Actors -> {"idle", "routed", "high", "normal", "notify", "take", "created", "called",
                        "asleep", "woken", "again", "ended", "away", "gone"}]
  /\ lock \in Actors \cup {Nobody} /\ registry \in Senders \cup {Nobody}
  /\ queue \in [Lanes -> Seq(Nat)] /\ accepted \in [Lanes -> Seq(Nat)] /\ received \in [Lanes -> Seq(Nat)]
  /\ Len(queue["high"]) <= 1 /\ Len(queue["normal"]) <= Capacity
  /\ closed \in BOOLEAN /\ permit \in BOOLEAN /\ registered \in BOOLEAN
  /\ sent \in Nat

\* In each lane every accepted envelope is received once and in order, or is
\* still queued; closing and unregistering lose nothing.
InOrder == \A l \in Lanes : accepted[l] = received[l] \o queue[l]

\* No wake-up is lost, also not to a receiver that stopped while it waited: the
\* receivers that are left are all asleep beside a waiting envelope only as long as
\* its sender has not notified yet.
ReceiverNotified ==
  (/\ Waiting
   /\ \A r \in Receivers : pc[r] \in {"asleep", "away"}
   /\ \E r \in Receivers : pc[r] = "asleep") => \E s \in Senders : pc[s] = "notify"

\* From some time on a receiver stays, and none stops between taking a notification
\* and calling recv again.
ReceiversStay ==
  /\ \E r \in Receivers : <>[](pc[r] \notin {"away", "gone"})
  /\ \A r \in Receivers : <>[](pc[r] # "gone")

\* Then every accepted envelope is received in the end, although the Notify keeps
\* one permit only and receivers stop for good while they wait.
AllReceived ==
  ReceiversStay =>
    \A i \in 1..MaxSends : sent >= i ~> (\E l \in Lanes : \E k \in 1..Len(received[l]) : received[l][k] = i)
=============================================================================
