------------------------- MODULE SessionInputProofs -------------------------
(***************************************************************************)
(* What SessionInput guarantees for any clients, prompts and limits.       *)
(*                                                                         *)
(* A prompt that has run never stands in the queue again although an edit  *)
(* writes back what it read: between its read and its write only the calls *)
(* without the operation lock change an envelope, and those are about      *)
(* prompts that have left the queue (Tended, Ran).                         *)
(***************************************************************************)
EXTENDS SessionInput, FiniteSetTheorems, SequenceTheorems, TLAPS

\* An entry of the InterjectionBuffer.
Copy == [id : Interjections, content : Nat]
Envelope == [state : Live \cup {"absent", "Completed", "Cancelled", "Rejected"},
             version : Nat, content : Nat]
Places == {"idle", "push", "claim", "take", "release", "turn", "drain", "edit", "cancel"}
Call == [at : Places, id : Ids \cup {None}, copy : Envelope, drained : Seq(Copy)]

Types ==
  /\ envelope \in [Ids -> Envelope] /\ receipt \subseteq Ids
  /\ order \in Seq(Ids) /\ lock \in Clients \cup {None} /\ processor \in BOOLEAN
  /\ buffer \in Seq(Copy) /\ call \in [Actors -> Call]
  /\ changes \in Nat /\ incidents \in 0..MaxIncidents
  /\ ran \in Seq(Prompts) /\ given \in Seq(Copy)

Numbered == ToSet(order)

\* A key has a sequence number exactly when it has an envelope, and one only.
Known ==
  /\ IsInjective(order)
  /\ \A p \in Ids : /\ p \in Numbered <=> envelope[p].state # "absent"
                    /\ p \notin Numbered => envelope[p] = Absent

\* What is buffered is stored.
Stored == \A k \in 1..Len(buffer) : buffer[k].id \in Numbered

\* The lock belongs to the call that is between its two steps.
Locked ==
  \A c \in Actors : lock = c <=> call[c].at \in {"push", "edit", "cancel"}

\* One client is the processor, under the claim.
OneProcessor ==
  /\ \A c, d \in Busy : c = d
  /\ Busy # {} => processor

\* A prompt that ran left the queue for good, and what is in the queue comes after it.
Ran ==
  /\ \A k \in 1..Len(ran) : ran[k] \in Numbered /\ envelope[ran[k]].state # "Queued"
  /\ \A m \in 1..Len(order), n \in Queued : order[m] \in ToSet(ran) => m < n

\* What a client is in the middle of: its drained interjections are stored, its turn is
\* of a prompt that ran, and what it will write agrees with the envelope it has read.
Tended(c) ==
  /\ \A k \in 1..Len(call[c].drained) : call[c].drained[k].id \in Numbered
  /\ call[c].at = "push" => call[c].id \in Interjections \cap Numbered
  /\ call[c].at \in {"turn", "drain"} => call[c].id \in ToSet(ran)
  /\ call[c].at \in {"edit", "cancel"} => /\ call[c].id \in Numbered
                                         /\ call[c].copy.state # "absent"
  /\ call[c].at = "edit" /\ call[c].id \in Prompts =>
       /\ envelope[call[c].id].state # "Running"
       /\ call[c].copy.state = "Queued" => envelope[call[c].id].state = "Queued"
  /\ call[c].at = "cancel" => call[c].copy.content = envelope[call[c].id].content

\* An interjection was handed out once, under its receipt.
Given ==
  /\ \A k \in 1..Len(given) : given[k].id \in receipt
  /\ IsInjective([k \in 1..Len(given) |-> given[k].id])

\* Turns began once, in the order of the queue.
Ordered ==
  /\ IsInjective(ran)
  /\ \A j, k \in 1..Len(ran) : \A m, n \in 1..Len(order) :
       j < k /\ order[m] = ran[j] /\ order[n] = ran[k] => m < n

\* The inductive invariant.
SessionInv ==
  /\ Types /\ Known /\ Stored /\ Locked /\ OneProcessor /\ Ran /\ Given /\ Ordered
  /\ \A c \in Actors : Tended(c)

-----------------------------------------------------------------------------
(* Steps that leave the store alone. *)

\* What a new place changes of a call, and what it leaves alone.
LEMMA GotoMoves ==
  ASSUME Types, NEW c \in Actors, NEW l \in Places, Goto(c, l)
  PROVE  /\ call' \in [Actors -> Call] /\ \A d \in Actors \ {c} : call'[d] = call[d]
         /\ call'[c].at = l /\ call'[c].id = call[c].id /\ call'[c].copy = call[c].copy
         /\ call'[c].drained = call[c].drained
<1> DEFINE x == [call[c] EXCEPT !.at = l]
<1>1. call' = [call EXCEPT ![c] = x]
  BY DEF Goto
<1>2. /\ x \in Call /\ x.at = l /\ x.id = call[c].id /\ x.copy = call[c].copy
      /\ x.drained = call[c].drained
  BY DEF Types, Call
<1> HIDE DEF x
<1> QED
  BY <1>1, <1>2 DEF Types

\* No actor is the free lock.
LEMMA NoneApart == None \notin Actors
BY SessionAssumption DEF Actors

LEMMA IdleCall == Idle \in Call /\ Idle.at = "idle" /\ Idle.drained = <<>> /\ Absent \in Envelope
BY SessionAssumption DEF Idle, Call, Places, Absent, Envelope

\* A call that ends.
LEMMA IdleMoves ==
  ASSUME Types, NEW c \in Actors, call' = [call EXCEPT ![c] = Idle]
  PROVE  /\ call' \in [Actors -> Call] /\ \A d \in Actors \ {c} : call'[d] = call[d]
         /\ call'[c].at = "idle" /\ call'[c].drained = <<>>
BY IdleCall DEF Types

\* Incidents stay within their bound.
LEMMA IncidentMoves == Types /\ Incident => incidents' \in 0..MaxIncidents
BY SessionAssumption DEF Types, Incident

\* A step of a client that leaves the store and the histories alone.
LEMMA CallMoves ==
  ASSUME SessionInv, NEW c \in Actors,
         UNCHANGED <<envelope, receipt, order, ran, given>>,
         call' \in [Actors -> Call], \A d \in Actors \ {c} : call'[d] = call[d],
         changes' \in Nat, incidents' \in 0..MaxIncidents,
         lock' \in Clients \cup {None}, processor' \in BOOLEAN, buffer' \in Seq(Copy),
         Stored', Locked', OneProcessor', Tended(c)'
  PROVE  SessionInv'
<1>1. Types'
  BY DEF SessionInv, Types
<1>2. Known' /\ Given' /\ Ordered'
  BY DEF SessionInv, Known, Given, Ordered, Numbered, ToSet, IsInjective
<1>3. Ran'
  BY DEF SessionInv, Ran, Queued, Numbered
<1>4. ASSUME NEW d \in Actors PROVE Tended(d)'
  <2>1. CASE d = c
    BY <2>1
  <2>2. CASE d # c
    BY <2>2 DEF SessionInv, Tended, Numbered
  <2> QED
    BY <2>1, <2>2
<1> QED
  BY <1>1, <1>2, <1>3, <1>4 DEF SessionInv

\* Initially nothing is stored and nobody is at work.
LEMMA InitSession == Init => SessionInv
<1> SUFFICES ASSUME Init PROVE SessionInv
  OBVIOUS
<1>0. processor \in BOOLEAN
  BY DEF Init
<1>1. Types
  BY <1>0, IdleCall, SessionAssumption DEF Init, Types
<1>2. Known /\ Stored
  <2>1. \A p \in Ids : p \notin Numbered /\ envelope[p] = Absent /\ Absent.state = "absent"
    BY DEF Init, Numbered, ToSet, Absent
  <2>2. IsInjective(order) /\ Stored
    BY DEF Init, Stored, IsInjective
  <2> QED
    BY <2>1, <2>2 DEF Known
<1>3. Locked /\ OneProcessor
  BY NoneApart, IdleCall DEF Init, Locked, OneProcessor, Busy
<1>4. Ran /\ Given /\ Ordered
  BY DEF Init, Ran, Given, Ordered, Queued, IsInjective
<1>5. \A c \in Actors : Tended(c)
  BY IdleCall DEF Init, Tended
<1> QED
  BY <1>1, <1>2, <1>3, <1>4, <1>5 DEF SessionInv

LEMMA ClaimKeeps ==
  ASSUME SessionInv, NEW c \in Actors, Claim(c)
  PROVE  SessionInv'
<1>1. PICK l \in Places : Goto(c, l) /\ l = IF processor THEN "idle" ELSE "take"
  BY DEF Claim, Places
<1>2. /\ call' \in [Actors -> Call] /\ \A d \in Actors \ {c} : call'[d] = call[d]
      /\ call'[c].at = l /\ call'[c].drained = call[c].drained
  BY <1>1, GotoMoves DEF SessionInv
<1>3. Locked' /\ Stored'
  BY <1>1, <1>2 DEF SessionInv, Locked, Stored, Claim, At, Numbered
<1>4. OneProcessor'
  BY <1>1, <1>2 DEF SessionInv, OneProcessor, Busy, Claim, At
<1>5. Tended(c)'
  BY <1>1, <1>2 DEF SessionInv, Tended, Claim, Numbered
<1> QED
  BY <1>2, <1>3, <1>4, <1>5, CallMoves DEF Claim, SessionInv, Types

\* The processor finds no prompt and gives the claim back.
LEMMA TakeNoneKeeps ==
  ASSUME SessionInv, NEW c \in Actors, TakeNone(c)
  PROVE  SessionInv'
<1>1. /\ call' \in [Actors -> Call] /\ \A d \in Actors \ {c} : call'[d] = call[d]
      /\ call'[c].at = "idle" /\ call'[c].drained = <<>>
  BY IdleMoves DEF TakeNone, SessionInv
<1>2. Locked' /\ Stored'
  BY <1>1, NoneApart DEF SessionInv, Types, Locked, Stored, TakeNone, At, Numbered
<1>3. OneProcessor'
  BY <1>1 DEF SessionInv, OneProcessor, Busy, TakeNone, At
<1>4. Tended(c)'
  BY <1>1 DEF Tended
<1>5. processor' \in BOOLEAN
  BY DEF TakeNone, SessionInv, Types
<1> QED
  BY <1>1, <1>2, <1>3, <1>4, <1>5, CallMoves DEF TakeNone, SessionInv, Types

\* The processor gives the claim back.
LEMMA ReleaseKeeps ==
  ASSUME SessionInv, NEW c \in Actors, Release(c)
  PROVE  SessionInv'
<1>1. /\ call' \in [Actors -> Call] /\ \A d \in Actors \ {c} : call'[d] = call[d]
      /\ call'[c].at = "idle" /\ call'[c].drained = <<>>
  BY IdleMoves DEF Release, SessionInv
<1>2. Locked' /\ Stored'
  BY <1>1, NoneApart DEF SessionInv, Types, Locked, Stored, Release, At, Numbered
<1>3. OneProcessor'
  BY <1>1 DEF SessionInv, OneProcessor, Busy, Release, At
<1>4. Tended(c)'
  BY <1>1 DEF Tended
<1>5. processor' \in BOOLEAN
  BY DEF Release, SessionInv, Types
<1> QED
  BY <1>1, <1>2, <1>3, <1>4, <1>5, CallMoves DEF Release, SessionInv, Types

\* A dropped request leaves the claim where it is; its turn goes on detached.
LEMMA DisconnectKeeps ==
  ASSUME SessionInv, NEW c \in Clients, Disconnect(c)
  PROVE  SessionInv'
<1>0. c \in Actors /\ Detached \in Actors /\ c # Detached /\ None # c /\ None # Detached
  BY SessionAssumption DEF Actors
<1>1. CASE call[c].at \notin {"turn", "drain"}
  <2>1. /\ call' \in [Actors -> Call] /\ \A d \in Actors \ {c} : call'[d] = call[d]
        /\ call'[c].at = "idle" /\ call'[c].drained = <<>>
    BY <1>0, <1>1, IdleMoves DEF Disconnect, SessionInv
  <2>2. Locked' /\ Stored'
    BY <1>0, <2>1, NoneApart DEF SessionInv, Types, Locked, Stored, Disconnect, At, Numbered
  <2>3. OneProcessor'
    BY <2>1 DEF SessionInv, OneProcessor, Busy, Disconnect, At
  <2>4. Tended(c)'
    BY <2>1 DEF Tended
  <2>5. processor' \in BOOLEAN
    BY DEF Disconnect, SessionInv, Types
  <2> QED
    BY <1>0, <2>1, <2>2, <2>3, <2>4, <2>5, CallMoves, IncidentMoves DEF Disconnect, SessionInv, Types
<1>2. CASE call[c].at \in {"turn", "drain"}
  <2>1. /\ call' \in [Actors -> Call] /\ call'[Detached] = call[c] /\ call'[c] = Idle
        /\ \A d \in Actors \ {c, Detached} : call'[d] = call[d]
    BY <1>0, <1>2, IdleCall DEF Disconnect, SessionInv, Types
  <2>2. lock # c /\ lock # Detached /\ lock' = lock
    BY <1>0, <1>2, SessionAssumption DEF SessionInv, Types, Locked, Disconnect
  <2>3. Locked'
    BY <1>0, <1>2, <2>1, <2>2, IdleCall DEF SessionInv, Locked
  <2>4. c \in Busy /\ Busy = {c}
    BY <1>0, <1>2 DEF SessionInv, OneProcessor, Busy
  <2>5. Busy' = {Detached} /\ processor'
    <3>1. \A d \in Actors \ {c, Detached} : d \notin Busy'
      BY <2>1, <2>4 DEF Busy
    <3>2. c \notin Busy' /\ Detached \in Busy' /\ Busy' \subseteq Actors
      BY <1>0, <1>2, <2>1, IdleCall DEF Busy
    <3>3. processor'
      BY <2>4 DEF SessionInv, OneProcessor, Disconnect
    <3> QED
      BY <3>1, <3>2, <3>3
  <2>6. OneProcessor'
    BY <2>5 DEF OneProcessor
  <2>7. Types'
    BY <2>1, <2>2, IncidentMoves DEF Disconnect, SessionInv, Types
  <2>8. Known' /\ Given' /\ Ordered'
    BY DEF Disconnect, SessionInv, Known, Given, Ordered, Numbered, ToSet, IsInjective
  <2>9. Ran' /\ Stored'
    BY DEF Disconnect, SessionInv, Ran, Queued, Numbered, Stored
  <2>10. ASSUME NEW d \in Actors PROVE Tended(d)'
    <3>1. CASE d = c
      BY <2>1, <3>1, IdleCall DEF Tended
    <3>2. CASE d = Detached
      BY <1>0, <2>1, <3>2 DEF SessionInv, Tended, Numbered, Disconnect
    <3>3. CASE d \notin {c, Detached}
      BY <2>1, <3>3 DEF SessionInv, Tended, Numbered, Disconnect
    <3> QED
      BY <3>1, <3>2, <3>3
  <2> QED
    BY <2>3, <2>6, <2>7, <2>8, <2>9, <2>10 DEF SessionInv
<1> QED
  BY <1>1, <1>2

\* The detached turn ends.
LEMMA DetachedEndsKeeps ==
  ASSUME SessionInv, DetachedEnds
  PROVE  SessionInv'
<1> DEFINE c == Detached
<1>0. c \in Actors /\ None # c
  BY SessionAssumption DEF Actors
<1>1. /\ call' \in [Actors -> Call] /\ \A d \in Actors \ {c} : call'[d] = call[d]
      /\ call'[c].at = "idle" /\ call'[c].drained = <<>>
  BY <1>0, IdleMoves DEF DetachedEnds, SessionInv
<1> USE <1>0
<1> HIDE DEF c
<1>2. call[c].at = "turn"
  BY DEF DetachedEnds, At, c
<1>3. Locked' /\ Stored'
  BY <1>1, <1>2 DEF SessionInv, Types, Locked, Stored, DetachedEnds, Numbered
<1>4. OneProcessor'
  BY <1>1 DEF SessionInv, OneProcessor, Busy, DetachedEnds
<1>5. Tended(c)'
  BY <1>1 DEF Tended
<1> QED
  BY <1>1, <1>3, <1>4, <1>5, CallMoves DEF DetachedEnds, SessionInv, Types

\* The store fails.
LEMMA TakeFailsKeeps ==
  ASSUME SessionInv, NEW c \in Actors, TakeFails(c)
  PROVE  SessionInv'
<1>1. Goto(c, "release") /\ "release" \in Places
  BY DEF TakeFails, Places
<1>2. /\ call' \in [Actors -> Call] /\ \A d \in Actors \ {c} : call'[d] = call[d]
      /\ call'[c].at = "release" /\ call'[c].drained = call[c].drained /\ call'[c].id = call[c].id
  BY <1>1, GotoMoves DEF SessionInv
<1>3. Locked' /\ Stored'
  BY <1>2 DEF SessionInv, Locked, Stored, TakeFails, At, Numbered
<1>4. OneProcessor'
  BY <1>2 DEF SessionInv, OneProcessor, Busy, TakeFails, At
<1>5. Tended(c)'
  BY <1>2 DEF SessionInv, Tended, TakeFails, At, Numbered
<1> QED
  BY <1>2, <1>3, <1>4, <1>5, CallMoves, IncidentMoves DEF TakeFails, SessionInv, Types

\* A drain ends.
LEMMA DrainEndsKeeps ==
  ASSUME SessionInv, NEW c \in Actors, DrainEnds(c)
  PROVE  SessionInv'
<1>1. Goto(c, "turn") /\ "turn" \in Places
  BY DEF DrainEnds, Places
<1>2. /\ call' \in [Actors -> Call] /\ \A d \in Actors \ {c} : call'[d] = call[d]
      /\ call'[c].at = "turn" /\ call'[c].drained = call[c].drained /\ call'[c].id = call[c].id
  BY <1>1, GotoMoves DEF SessionInv
<1>3. Locked' /\ Stored'
  BY <1>2 DEF SessionInv, Locked, Stored, DrainEnds, At, Numbered
<1>4. OneProcessor'
  BY <1>2 DEF SessionInv, OneProcessor, Busy, DrainEnds, At
<1>5. Tended(c)'
  BY <1>2 DEF SessionInv, Tended, DrainEnds, At, Numbered
<1> QED
  BY <1>2, <1>3, <1>4, <1>5, CallMoves DEF DrainEnds, SessionInv, Types

\* The end of a turn is not recorded.
LEMMA MarkFailsKeeps ==
  ASSUME SessionInv, NEW c \in Actors, MarkFails(c)
  PROVE  SessionInv'
<1>1. Goto(c, "take") /\ "take" \in Places
  BY DEF MarkFails, Places
<1>2. /\ call' \in [Actors -> Call] /\ \A d \in Actors \ {c} : call'[d] = call[d]
      /\ call'[c].at = "take" /\ call'[c].drained = call[c].drained /\ call'[c].id = call[c].id
  BY <1>1, GotoMoves DEF SessionInv
<1>3. Locked' /\ Stored'
  BY <1>2 DEF SessionInv, Locked, Stored, MarkFails, At, Numbered
<1>4. OneProcessor'
  BY <1>2 DEF SessionInv, OneProcessor, Busy, MarkFails, At
<1>5. Tended(c)'
  BY <1>2 DEF SessionInv, Tended, MarkFails, At, Numbered
<1> QED
  BY <1>2, <1>3, <1>4, <1>5, CallMoves, IncidentMoves DEF MarkFails, SessionInv, Types

\* A safe point takes the buffer over.
LEMMA DrainKeeps ==
  ASSUME SessionInv, NEW c \in Actors, Drain(c)
  PROVE  SessionInv'
<1> DEFINE x == [call[c] EXCEPT !.at = "drain", !.drained = buffer]
<1>1. call' = [call EXCEPT ![c] = x]
  BY DEF Drain
<1>2. x \in Call /\ x.at = "drain" /\ x.id = call[c].id /\ x.drained = buffer
  BY DEF SessionInv, Types, Call, Places
<1> HIDE DEF x
<1>3. /\ call' \in [Actors -> Call] /\ \A d \in Actors \ {c} : call'[d] = call[d]
      /\ call'[c].at = "drain" /\ call'[c].drained = buffer /\ call'[c].id = call[c].id
  BY <1>1, <1>2 DEF SessionInv, Types
<1>4. Locked' /\ Stored' /\ buffer' \in Seq(Copy)
  BY <1>3 DEF SessionInv, Locked, Stored, Drain, At
<1>5. OneProcessor'
  BY <1>3 DEF SessionInv, OneProcessor, Busy, Drain, At
<1>6. Tended(c)'
  BY <1>3 DEF SessionInv, Tended, Stored, Drain, At, Numbered
<1> QED
  BY <1>3, <1>4, <1>5, <1>6, CallMoves DEF Drain, SessionInv, Types

\* The store fails in a drain.
LEMMA DrainFailsKeeps ==
  ASSUME SessionInv, NEW c \in Actors, DrainFails(c)
  PROVE  SessionInv'
<1> DEFINE x == [call[c] EXCEPT !.at = "turn", !.drained = <<>>]
<1>1. call' = [call EXCEPT ![c] = x]
  BY DEF DrainFails
<1>2. x \in Call /\ x.at = "turn" /\ x.id = call[c].id /\ x.drained = <<>>
  <2>1. <<>> \in Seq(Copy)
    OBVIOUS
  <2> QED
    BY <2>1 DEF SessionInv, Types, Call, Places
<1> HIDE DEF x
<1>3. /\ call' \in [Actors -> Call] /\ \A d \in Actors \ {c} : call'[d] = call[d]
      /\ call'[c].at = "turn" /\ call'[c].drained = <<>> /\ call'[c].id = call[c].id
  BY <1>1, <1>2 DEF SessionInv, Types
<1>4. Locked' /\ Stored'
  BY <1>3 DEF SessionInv, Locked, Stored, DrainFails, At, Numbered
<1>5. OneProcessor'
  BY <1>3 DEF SessionInv, OneProcessor, Busy, DrainFails, At
<1>6. Tended(c)'
  BY <1>3 DEF SessionInv, Tended, DrainFails, At, Numbered
<1> QED
  BY <1>3, <1>4, <1>5, <1>6, CallMoves, IncidentMoves DEF DrainFails, SessionInv, Types

\* An edit has read an envelope that does not run.
LEMMA EditReadKeeps ==
  ASSUME SessionInv, NEW c \in Clients, NEW p \in Ids, EditRead(c, p)
  PROVE  SessionInv'
<1>0. c \in Actors
  BY DEF Actors
<1> DEFINE x == [call[c] EXCEPT !.at = "edit", !.id = p, !.copy = envelope[p]]
<1>1. call' = [call EXCEPT ![c] = x]
  BY DEF EditRead
<1>2. /\ x \in Call /\ x.at = "edit" /\ x.id = p /\ x.copy = envelope[p]
      /\ x.drained = call[c].drained
  BY <1>0 DEF SessionInv, Types, Call, Places
<1> HIDE DEF x
<1>3. /\ call' \in [Actors -> Call] /\ \A d \in Actors \ {c} : call'[d] = call[d]
      /\ call'[c].at = "edit" /\ call'[c].drained = call[c].drained
      /\ call'[c].id = p /\ call'[c].copy = envelope[p]
  BY <1>0, <1>1, <1>2 DEF SessionInv, Types
<1>4. Locked' /\ Stored'
  BY <1>0, <1>3, NoneApart DEF SessionInv, Locked, Stored, EditRead, At, Numbered
<1>5. OneProcessor'
  BY <1>3 DEF SessionInv, OneProcessor, Busy, EditRead, At
<1>6. p \in Numbered /\ envelope[p].state # "absent" /\ envelope[p].state # "Running"
  BY DEF EditRead, SessionInv, Known, Editable, Absent
<1>7. Tended(c)'
  BY <1>3, <1>6 DEF SessionInv, Tended, EditRead, At, Numbered
<1>8. changes' \in Nat
  BY DEF EditRead, Change, SessionInv, Types
<1> QED
  BY <1>0, <1>3, <1>4, <1>5, <1>7, <1>8, CallMoves DEF EditRead, SessionInv, Types

\* A cancellation has read an envelope.
LEMMA CancelReadKeeps ==
  ASSUME SessionInv, NEW c \in Clients, NEW p \in Ids, CancelRead(c, p)
  PROVE  SessionInv'
<1>0. c \in Actors
  BY DEF Actors
<1> DEFINE x == [call[c] EXCEPT !.at = "cancel", !.id = p, !.copy = envelope[p]]
<1>1. call' = [call EXCEPT ![c] = x]
  BY DEF CancelRead
<1>2. /\ x \in Call /\ x.at = "cancel" /\ x.id = p /\ x.copy = envelope[p]
      /\ x.drained = call[c].drained
  BY <1>0 DEF SessionInv, Types, Call, Places
<1> HIDE DEF x
<1>3. /\ call' \in [Actors -> Call] /\ \A d \in Actors \ {c} : call'[d] = call[d]
      /\ call'[c].at = "cancel" /\ call'[c].drained = call[c].drained
      /\ call'[c].id = p /\ call'[c].copy = envelope[p]
  BY <1>0, <1>1, <1>2 DEF SessionInv, Types
<1>4. Locked' /\ Stored'
  BY <1>0, <1>3, NoneApart DEF SessionInv, Locked, Stored, CancelRead, At, Numbered
<1>5. OneProcessor'
  BY <1>3 DEF SessionInv, OneProcessor, Busy, CancelRead, At
<1>6. p \in Numbered /\ envelope[p].state # "absent"
  BY DEF CancelRead, SessionInv, Known, Absent
<1>7. Tended(c)'
  BY <1>3, <1>6 DEF SessionInv, Tended, CancelRead, At, Numbered
<1>8. changes' \in Nat
  BY DEF CancelRead, Change, SessionInv, Types
<1> QED
  BY <1>0, <1>3, <1>4, <1>5, <1>7, <1>8, CallMoves DEF CancelRead, SessionInv, Types

\* What appending does to a sequence and to what it holds.
LEMMA AppendMoves ==
  ASSUME NEW S, NEW s \in Seq(S), NEW x \in S
  PROVE  /\ Append(s, x) \in Seq(S) /\ Len(Append(s, x)) = Len(s) + 1 /\ Len(s) \in Nat
         /\ \A k \in 1..Len(s) : Append(s, x)[k] = s[k]
         /\ Append(s, x)[Len(s) + 1] = x
         /\ ToSet(Append(s, x)) = ToSet(s) \cup {x}
<1>1. /\ Append(s, x) \in Seq(S) /\ Len(Append(s, x)) = Len(s) + 1 /\ Len(s) \in Nat
      /\ \A k \in 1..Len(s) : Append(s, x)[k] = s[k]
      /\ Append(s, x)[Len(s) + 1] = x
  OBVIOUS
<1>2. DOMAIN s = 1..Len(s) /\ DOMAIN Append(s, x) = 1..(Len(s) + 1)
  BY <1>1
<1>3. ToSet(Append(s, x)) = ToSet(s) \cup {x}
  BY <1>1, <1>2 DEF ToSet
<1> QED
  BY <1>1, <1>3

\* The buffered interjection is a stored one.
LEMMA PushKeeps ==
  ASSUME SessionInv, NEW c \in Actors, Push(c)
  PROVE  SessionInv'
<1> DEFINE y == [id |-> call[c].id, content |-> 0]
<1>1. /\ call' \in [Actors -> Call] /\ \A d \in Actors \ {c} : call'[d] = call[d]
      /\ call'[c].at = "idle" /\ call'[c].drained = <<>>
  BY IdleMoves DEF Push, SessionInv
<1>2. y \in Copy /\ y.id \in Numbered /\ buffer' = Append(buffer, y) /\ buffer \in Seq(Copy)
  BY DEF Push, At, SessionInv, Tended, Types, Copy
<1> HIDE DEF y
<1>3. buffer' \in Seq(Copy) /\ Stored'
  <2>1. /\ buffer' \in Seq(Copy) /\ Len(buffer') = Len(buffer) + 1 /\ Len(buffer) \in Nat
        /\ \A k \in 1..Len(buffer) : buffer'[k] = buffer[k]
        /\ buffer'[Len(buffer) + 1] = y
    BY <1>2, AppendMoves
  <2>2. Numbered' = Numbered
    BY DEF Push, Numbered
  <2> QED
    BY <1>2, <2>1, <2>2 DEF SessionInv, Stored
<1>4. Locked'
  BY <1>1, NoneApart DEF SessionInv, Locked, Push, At
<1>5. OneProcessor'
  BY <1>1 DEF SessionInv, OneProcessor, Busy, Push, At
<1>6. Tended(c)'
  BY <1>1 DEF Tended
<1> QED
  BY <1>1, <1>3, <1>4, <1>5, <1>6, CallMoves DEF Push, SessionInv, Types

\* The daemon stops: the store is as it was, and nobody is at work.
LEMMA RestartKeeps ==
  ASSUME SessionInv, Restart
  PROVE  SessionInv'
<1>1. \A c \in Actors : call'[c] = Idle
  BY DEF Restart
<1>2. processor' \in BOOLEAN /\ incidents' \in 0..MaxIncidents
  BY IncidentMoves DEF Restart, SessionInv
<1>3. Types'
  BY <1>2, IdleCall DEF Restart, SessionInv, Types
<1>4. Known' /\ Given' /\ Ordered'
  BY DEF Restart, SessionInv, Known, Given, Ordered, Numbered, ToSet, IsInjective
<1>5. Ran' /\ Stored'
  BY DEF Restart, SessionInv, Ran, Queued, Numbered, Stored
<1>6. Locked' /\ OneProcessor'
  BY <1>1, IdleCall, NoneApart DEF Restart, Locked, OneProcessor, Busy
<1>7. \A c \in Actors : Tended(c)'
  BY <1>1, IdleCall DEF Tended
<1> QED
  BY <1>3, <1>4, <1>5, <1>6, <1>7 DEF SessionInv

-----------------------------------------------------------------------------
(* Steps that change the store. *)

\* A new key gets the next number and stands behind whatever ran.
LEMMA StoreAppendKeeps ==
  ASSUME SessionInv, NEW p \in Ids, envelope[p] = Absent, StoreAppend(p),
         UNCHANGED <<receipt, ran, given>>
  PROVE  /\ envelope' \in [Ids -> Envelope] /\ order' \in Seq(Ids)
         /\ Known' /\ Ran' /\ Given' /\ Ordered'
         /\ Numbered' = Numbered \cup {p} /\ p \notin Numbered
         /\ \A q \in Ids \ {p} : envelope'[q] = envelope[q]
<1> DEFINE e == [envelope[p] EXCEPT !.state = "Queued"]
<1>1. envelope' = [envelope EXCEPT ![p] = e]
  BY DEF StoreAppend
<1>2. e \in Envelope /\ e.state = "Queued"
  BY DEF SessionInv, Types, Envelope, Live
<1> HIDE DEF e
<1>3. /\ envelope' \in [Ids -> Envelope] /\ envelope'[p].state = "Queued"
      /\ \A q \in Ids \ {p} : envelope'[q] = envelope[q]
  BY <1>1, <1>2 DEF SessionInv, Types
<1>4. /\ order' \in Seq(Ids) /\ Len(order') = Len(order) + 1 /\ Len(order) \in Nat
      /\ \A k \in 1..Len(order) : order'[k] = order[k]
      /\ order'[Len(order) + 1] = p
  BY AppendMoves DEF StoreAppend, SessionInv, Types
<1>5. Numbered' = Numbered \cup {p}
  BY AppendMoves DEF StoreAppend, SessionInv, Types, Numbered
<1>6. p \notin Numbered
  BY DEF SessionInv, Known, Absent
<1>7. /\ DOMAIN order = 1..Len(order) /\ DOMAIN order' = 1..Len(order')
      /\ \A k \in 1..Len(order) : order[k] \in Ids /\ order[k] # p /\ order[k] \in Numbered
  BY <1>4, <1>6 DEF SessionInv, Types, Numbered, ToSet
<1>8. Known'
  <2>1. IsInjective(order)'
    BY <1>4, <1>7 DEF SessionInv, Known, IsInjective
  <2>2. ASSUME NEW q \in Ids
        PROVE  /\ q \in Numbered' <=> envelope'[q].state # "absent"
               /\ q \notin Numbered' => envelope'[q] = Absent
    BY <1>3, <1>5, <1>6 DEF SessionInv, Known
  <2> QED
    BY <2>1, <2>2 DEF Known
<1>9. \A k \in 1..Len(ran) : ran[k] \in Numbered /\ ran[k] # p /\ ran[k] \in Ids
  BY <1>6 DEF SessionInv, Types, Ran, Ids
<1>10. Ran'
  <2>1. \A k \in 1..Len(ran') : ran'[k] \in Numbered' /\ envelope'[ran'[k]].state # "Queued"
    BY <1>3, <1>5, <1>9 DEF SessionInv, Ran
  <2>2. ASSUME NEW m \in 1..Len(order'), NEW n \in Queued', order'[m] \in ToSet(ran')
        PROVE  m < n
    <3>1. order'[m] # p /\ order'[m] \in ToSet(ran)
      <4>1. ran' = ran /\ DOMAIN ran = 1..Len(ran)
        BY DEF SessionInv, Types
      <4>2. order'[m] \in ToSet(ran)
        BY <2>2, <4>1
      <4> QED
        BY <1>9, <4>1, <4>2 DEF ToSet
    <3>2. m \in 1..Len(order)
      BY <1>4, <3>1
    <3>3. CASE n = Len(order) + 1
      BY <1>4, <3>2, <3>3
    <3>4. CASE n # Len(order) + 1
      <4>1. n \in 1..Len(order) /\ n \in Queued
        BY <1>3, <1>4, <1>7, <3>4 DEF Queued
      <4> QED
        BY <1>4, <3>1, <3>2, <4>1 DEF SessionInv, Ran
    <3> QED
      BY <3>3, <3>4
  <2> QED
    BY <2>1, <2>2 DEF Ran
<1>11. Ordered'
  <2>1. IsInjective(ran)'
    BY DEF SessionInv, Ordered, IsInjective
  <2>2. ASSUME NEW j \in 1..Len(ran'), NEW k \in 1..Len(ran'),
               NEW m \in 1..Len(order'), NEW n \in 1..Len(order'),
               j < k, order'[m] = ran'[j], order'[n] = ran'[k]
        PROVE  m < n
    <3>1. m \in 1..Len(order) /\ n \in 1..Len(order)
      BY <1>4, <1>9, <2>2
    <3> QED
      BY <1>4, <2>2, <3>1 DEF SessionInv, Ordered
  <2> QED
    BY <2>1, <2>2 DEF Ordered
<1>12. Given'
  BY DEF SessionInv, Given, IsInjective
<1> QED
  BY <1>3, <1>4, <1>5, <1>6, <1>8, <1>10, <1>11, <1>12

\* A client that stands by while a key is stored.
LEMMA OthersSeeAppend ==
  ASSUME SessionInv, NEW p \in Ids, envelope[p] = Absent, StoreAppend(p),
         UNCHANGED <<receipt, ran, given>>,
         NEW d \in Actors, call'[d] = call[d]
  PROVE  Tended(d)'
<1>1. /\ Numbered' = Numbered \cup {p} /\ p \notin Numbered
      /\ \A q \in Ids \ {p} : envelope'[q] = envelope[q]
  BY StoreAppendKeeps
<1>2. Numbered \subseteq Ids
  BY DEF SessionInv, Types, Numbered, ToSet
<1> QED
  BY <1>1, <1>2 DEF SessionInv, Tended

\* A replayed request finds its envelope, a new one is stored.
LEMMA EnqueueKeeps ==
  ASSUME SessionInv, NEW c \in Actors, NEW p \in Prompts, Enqueue(c, p)
  PROVE  SessionInv'
<1>1. /\ call' \in [Actors -> Call] /\ \A d \in Actors \ {c} : call'[d] = call[d]
      /\ call'[c].at = "claim" /\ call'[c].drained = call[c].drained
  BY GotoMoves DEF Enqueue, SessionInv, Places
<1>2. Locked'
  BY <1>1 DEF SessionInv, Locked, Enqueue, At
<1>3. OneProcessor'
  BY <1>1 DEF SessionInv, OneProcessor, Busy, Enqueue, At
<1>4. CASE UNCHANGED <<envelope, order>>
  <2>1. Stored' /\ Tended(c)'
    BY <1>1, <1>4 DEF SessionInv, Stored, Tended, Numbered, Enqueue
  <2> QED
    BY <1>1, <1>2, <1>3, <1>4, <2>1, CallMoves DEF Enqueue, SessionInv, Types
<1>5. CASE envelope[p] = Absent /\ StoreAppend(p)
  <2>1. p \in Ids
    BY DEF Ids
  <2>2. /\ envelope' \in [Ids -> Envelope] /\ order' \in Seq(Ids)
        /\ Known' /\ Ran' /\ Given' /\ Ordered' /\ Numbered' = Numbered \cup {p}
    BY <1>5, <2>1, StoreAppendKeeps DEF Enqueue
  <2>3. Stored' /\ Tended(c)'
    BY <1>1, <2>2 DEF SessionInv, Stored, Tended, Enqueue
  <2>4. \A d \in Actors \ {c} : Tended(d)'
    BY <1>1, <1>5, <2>1, OthersSeeAppend DEF Enqueue
  <2>5. Types'
    BY <1>1, <2>2 DEF SessionInv, Types, Enqueue
  <2> QED
    BY <1>2, <1>3, <2>2, <2>3, <2>4, <2>5 DEF SessionInv
<1> QED
  BY <1>4, <1>5 DEF Enqueue

\* An interjection is stored before it is buffered.
LEMMA InterjectKeeps ==
  ASSUME SessionInv, NEW c \in Clients, NEW i \in Interjections, Interject(c, i)
  PROVE  SessionInv'
<1>0. c \in Actors
  BY DEF Actors
<1> DEFINE x == [call[c] EXCEPT !.at = "push", !.id = i]
<1>1. call' = [call EXCEPT ![c] = x] /\ i \in Ids
  BY DEF Interject, Ids
<1>2. x \in Call /\ x.at = "push" /\ x.id = i /\ x.drained = call[c].drained
  BY <1>0, <1>1 DEF SessionInv, Types, Call, Places
<1> HIDE DEF x
<1>3. /\ call' \in [Actors -> Call] /\ \A d \in Actors \ {c} : call'[d] = call[d]
      /\ call'[c].at = "push" /\ call'[c].drained = call[c].drained /\ call'[c].id = i
  BY <1>0, <1>1, <1>2 DEF SessionInv, Types
<1>4. Locked'
  BY <1>0, <1>3, NoneApart DEF SessionInv, Locked, Interject, At
<1>5. OneProcessor'
  BY <1>3 DEF SessionInv, OneProcessor, Busy, Interject, At
<1>6. /\ envelope' \in [Ids -> Envelope] /\ order' \in Seq(Ids)
      /\ Known' /\ Ran' /\ Given' /\ Ordered' /\ Numbered' = Numbered \cup {i}
  BY <1>1, StoreAppendKeeps DEF Interject
<1>7. Stored' /\ Tended(c)'
  BY <1>3, <1>6 DEF SessionInv, Stored, Tended, Interject
<1>8. \A d \in Actors \ {c} : Tended(d)'
  BY <1>1, <1>3, OthersSeeAppend DEF Interject
<1>9. Types'
  BY <1>3, <1>6 DEF SessionInv, Types, Interject
<1> QED
  BY <1>4, <1>5, <1>6, <1>7, <1>8, <1>9 DEF SessionInv

\* An envelope that is written anew, and that stands in the queue only if it stood there
\* before.
LEMMA EnvelopeMoves ==
  ASSUME SessionInv, NEW p \in Numbered, NEW e \in Envelope, e.state # "absent",
         p \in Prompts /\ e.state = "Queued" => envelope[p].state = "Queued",
         envelope' = [envelope EXCEPT ![p] = e], UNCHANGED <<order, ran>>
  PROVE  /\ envelope' \in [Ids -> Envelope] /\ Numbered' = Numbered
         /\ envelope'[p] = e /\ \A q \in Ids \ {p} : envelope'[q] = envelope[q]
         /\ p \in Ids /\ Known' /\ Ran' /\ Ordered'
<1>1. Numbered' = Numbered /\ p \in Ids /\ DOMAIN order = 1..Len(order)
  BY DEF SessionInv, Types, Numbered, ToSet
<1>2. /\ envelope' \in [Ids -> Envelope]
      /\ envelope'[p] = e /\ \A q \in Ids \ {p} : envelope'[q] = envelope[q]
  BY <1>1 DEF SessionInv, Types
<1>3. Known'
  <2>1. IsInjective(order)'
    BY DEF SessionInv, Known, IsInjective
  <2> QED
    BY <1>1, <1>2, <2>1 DEF SessionInv, Known
<1>4. \A k \in 1..Len(ran) : ran[k] \in Prompts /\ ran[k] \in Ids
  BY DEF SessionInv, Types, Ids
<1>5. Ran'
  <2>1. \A k \in 1..Len(ran') : ran'[k] \in Numbered' /\ envelope'[ran'[k]].state # "Queued"
    BY <1>1, <1>2, <1>4 DEF SessionInv, Ran
  <2>2. Queued' \subseteq Queued
    BY <1>1, <1>2 DEF SessionInv, Types, Queued
  <2> QED
    BY <2>1, <2>2 DEF SessionInv, Ran
<1>6. Ordered'
  BY DEF SessionInv, Ordered, IsInjective
<1> QED
  BY <1>1, <1>2, <1>3, <1>5, <1>6

\* A client that stands by while an envelope is marked: unless it is about to edit the
\* prompt, only the content matters to it.
LEMMA OthersSeeMark ==
  ASSUME SessionInv, NEW p \in Numbered, p \in Ids, NEW d \in Actors, call'[d] = call[d],
         Numbered' = Numbered, ToSet(ran) \subseteq ToSet(ran'),
         \A q \in Ids \ {p} : envelope'[q] = envelope[q],
         envelope'[p].content = envelope[p].content,
         call[d].at = "edit" /\ call[d].id = p /\ p \in Prompts =>
           envelope[p].state # "Queued" /\ envelope'[p].state # "Running"
  PROVE  Tended(d)'
<1>1. Numbered \subseteq Ids
  BY DEF SessionInv, Types, Numbered, ToSet
<1> QED
  BY <1>1 DEF SessionInv, Tended

\* What a new state leaves alone in an envelope.
LEMMA AdvanceMoves ==
  ASSUME NEW e \in Envelope, NEW s \in {"Running", "Completed", "Cancelled", "Rejected"}
  PROVE  /\ Advance(e, s) \in Envelope /\ Advance(e, s).state = s
         /\ Advance(e, s).content = e.content
<1> DEFINE v == e.version + 1
<1>1. v \in Nat /\ Advance(e, s) = [e EXCEPT !.state = s, !.version = v]
  BY DEF Advance, Envelope
<1> HIDE DEF v
<1> QED
  BY <1>1 DEF Envelope, Live

\* mark_consumed completes the envelope, the first time.
LEMMA MarkConsumedMoves ==
  ASSUME SessionInv, NEW p \in Numbered, MarkConsumed(p)
  PROVE  \E e \in Envelope :
           /\ envelope' = [envelope EXCEPT ![p] = e] /\ e.content = envelope[p].content
           /\ e = envelope[p] \/ e.state = "Completed"
           /\ p \in Ids /\ envelope[p].state # "absent" /\ receipt' = receipt \cup {p}
<1>1. p \in Ids
  BY DEF SessionInv, Types, Numbered, ToSet
<1>2. envelope[p] \in Envelope /\ envelope[p].state # "absent"
  BY <1>1 DEF SessionInv, Types, Known
<1>3. CASE p \in receipt
  BY <1>1, <1>2, <1>3 DEF MarkConsumed
<1>4. CASE p \notin receipt
  <2>1. PICK e \in Envelope : /\ e = Advance(envelope[p], "Completed")
                              /\ e.content = envelope[p].content /\ e.state = "Completed"
    BY <1>2, AdvanceMoves
  <2> QED
    BY <1>1, <1>2, <1>4, <2>1 DEF MarkConsumed
<1> QED
  BY <1>3, <1>4

\* The turn succeeded: its prompt left the queue when it was taken.
LEMMA TurnSucceedsKeeps ==
  ASSUME SessionInv, NEW c \in Actors, TurnSucceeds(c)
  PROVE  SessionInv'
<1>1. PICK p \in Numbered : p = call[c].id /\ p \in Prompts /\ envelope[p].state # "Queued"
  BY DEF TurnSucceeds, At, SessionInv, Types, Tended, Ran, ToSet
<1>2. PICK e \in Envelope :
           /\ envelope' = [envelope EXCEPT ![p] = e] /\ e.content = envelope[p].content
           /\ e = envelope[p] \/ e.state = "Completed"
           /\ p \in Ids /\ envelope[p].state # "absent" /\ receipt' = receipt \cup {p}
  BY <1>1, MarkConsumedMoves DEF TurnSucceeds
<1>3. /\ envelope' \in [Ids -> Envelope] /\ Numbered' = Numbered
      /\ envelope'[p] = e /\ \A q \in Ids \ {p} : envelope'[q] = envelope[q]
      /\ Known' /\ Ran' /\ Ordered'
  BY <1>1, <1>2, EnvelopeMoves DEF TurnSucceeds
<1>4. /\ call' \in [Actors -> Call] /\ \A d \in Actors \ {c} : call'[d] = call[d]
      /\ call'[c].at = "take" /\ call'[c].drained = call[c].drained
  BY GotoMoves DEF TurnSucceeds, SessionInv, Places
<1>5. Locked' /\ Stored'
  BY <1>3, <1>4 DEF SessionInv, Locked, Stored, TurnSucceeds, At
<1>6. OneProcessor'
  BY <1>4 DEF SessionInv, OneProcessor, Busy, TurnSucceeds, At
<1>7. Given'
  BY <1>2 DEF SessionInv, Given, IsInjective, TurnSucceeds
<1>8. ASSUME NEW d \in Actors PROVE Tended(d)'
  <2>1. CASE d = c
    BY <1>3, <1>4, <2>1 DEF SessionInv, Tended
  <2>2. CASE d # c
    <3>1. call[d].at = "edit" /\ call[d].id = p => envelope[p].state # "Running"
      BY <1>1 DEF SessionInv, Tended
    <3> QED
      BY <1>1, <1>2, <1>3, <1>4, <2>2, <3>1, OthersSeeMark DEF TurnSucceeds
  <2> QED
    BY <2>1, <2>2
<1>9. Types'
  BY <1>2, <1>3, <1>4 DEF SessionInv, Types, TurnSucceeds
<1> QED
  BY <1>3, <1>5, <1>6, <1>7, <1>8, <1>9 DEF SessionInv

\* The turn failed: nobody is about to edit, for the lock is free.
LEMMA TurnFailsKeeps ==
  ASSUME SessionInv, NEW c \in Actors, TurnFails(c)
  PROVE  SessionInv'
<1>1. PICK p \in Numbered : p = call[c].id /\ p \in Prompts
  BY DEF TurnFails, At, SessionInv, Types, Tended, Ran, ToSet
<1>2. PICK e \in Envelope : /\ envelope' = [envelope EXCEPT ![p] = e]
                            /\ e.content = envelope[p].content /\ e.state = "Rejected"
  <2>1. envelope[p] \in Envelope
    BY <1>1 DEF SessionInv, Types, Ids
  <2> QED
    BY <1>1, <2>1, AdvanceMoves DEF TurnFails
<1>3. /\ envelope' \in [Ids -> Envelope] /\ Numbered' = Numbered /\ p \in Ids
      /\ envelope'[p] = e /\ \A q \in Ids \ {p} : envelope'[q] = envelope[q]
      /\ Known' /\ Ran' /\ Ordered'
  BY <1>1, <1>2, EnvelopeMoves DEF TurnFails
<1>4. /\ call' \in [Actors -> Call] /\ \A d \in Actors \ {c} : call'[d] = call[d]
      /\ call'[c].at = "take" /\ call'[c].drained = call[c].drained
  BY GotoMoves DEF TurnFails, SessionInv, Places
<1>5. Locked' /\ Stored'
  BY <1>3, <1>4 DEF SessionInv, Locked, Stored, TurnFails, At
<1>6. OneProcessor'
  BY <1>4 DEF SessionInv, OneProcessor, Busy, TurnFails, At
<1>7. Given'
  BY DEF SessionInv, Given, IsInjective, TurnFails
<1>8. ASSUME NEW d \in Actors PROVE Tended(d)'
  <2>1. CASE d = c
    BY <1>3, <1>4, <2>1 DEF SessionInv, Tended
  <2>2. CASE d # c
    <3>1. call[d].at # "edit"
      BY NoneApart DEF SessionInv, Locked, TurnFails
    <3> QED
      BY <1>1, <1>2, <1>3, <1>4, <2>2, <3>1, OthersSeeMark DEF TurnFails
  <2> QED
    BY <2>1, <2>2
<1>9. Types'
  BY <1>2, <1>3, <1>4 DEF SessionInv, Types, TurnFails
<1> QED
  BY <1>3, <1>5, <1>6, <1>7, <1>8, <1>9 DEF SessionInv

\* An interjection is handed out with its first receipt.
LEMMA DeliverKeeps ==
  ASSUME SessionInv, NEW c \in Actors, Deliver(c)
  PROVE  SessionInv'
<1>1. PICK y \in Copy : /\ y = Head(call[c].drained) /\ y.id \in Numbered
                        /\ Tail(call[c].drained) \in Seq(Copy)
                        /\ \A k \in 1..Len(Tail(call[c].drained)) :
                             Tail(call[c].drained)[k].id \in Numbered
  <2>1. call[c].drained \in Seq(Copy) /\ call[c].drained # <<>>
    BY DEF Deliver, SessionInv, Types, Call
  <2>2. \A k \in 1..Len(call[c].drained) : call[c].drained[k].id \in Numbered
    BY DEF SessionInv, Tended
  <2> QED
    BY <2>1, <2>2
<1>2. PICK p \in Numbered : p = y.id /\ p \in Interjections /\ p \notin Prompts
  BY <1>1, SessionAssumption DEF Copy
<1>3. PICK e \in Envelope :
           /\ envelope' = [envelope EXCEPT ![p] = e] /\ e.content = envelope[p].content
           /\ e = envelope[p] \/ e.state = "Completed"
           /\ p \in Ids /\ envelope[p].state # "absent" /\ receipt' = receipt \cup {p}
  BY <1>1, <1>2, MarkConsumedMoves DEF Deliver
<1>4. /\ envelope' \in [Ids -> Envelope] /\ Numbered' = Numbered
      /\ envelope'[p] = e /\ \A q \in Ids \ {p} : envelope'[q] = envelope[q]
      /\ Known' /\ Ran' /\ Ordered'
  BY <1>2, <1>3, EnvelopeMoves DEF Deliver
<1>5. /\ call' \in [Actors -> Call] /\ \A d \in Actors \ {c} : call'[d] = call[d]
      /\ call'[c].at = "drain" /\ call'[c].id = call[c].id
      /\ call'[c].drained = Tail(call[c].drained)
  <2> DEFINE rest == Tail(call[c].drained)
             x == [call[c] EXCEPT !.drained = rest]
  <2>1. call' = [call EXCEPT ![c] = x]
    BY DEF Deliver
  <2>2. rest \in Seq(Copy)
    BY <1>1
  <2> HIDE DEF rest
  <2>3. x \in Call /\ x.at = "drain" /\ x.id = call[c].id /\ x.drained = rest
    BY <2>2 DEF Deliver, At, SessionInv, Types, Call
  <2> HIDE DEF x
  <2> QED
    BY <2>1, <2>3 DEF rest, SessionInv, Types
<1>6. Locked' /\ Stored'
  BY <1>4, <1>5 DEF SessionInv, Locked, Stored, Deliver, At
<1>7. OneProcessor'
  BY <1>5 DEF SessionInv, OneProcessor, Busy, Deliver, At
<1>8. Given' /\ given' \in Seq(Copy)
  <2>1. CASE p \in receipt
    BY <1>1, <1>2, <1>3, <2>1 DEF SessionInv, Types, Given, IsInjective, Deliver
  <2>2. CASE p \notin receipt
    <3>1. given' = Append(given, y) /\ given \in Seq(Copy)
      BY <1>1, <1>2, <2>2 DEF Deliver, SessionInv, Types
    <3>2. /\ given' \in Seq(Copy) /\ Len(given') = Len(given) + 1 /\ Len(given) \in Nat
          /\ \A k \in 1..Len(given) : given'[k] = given[k]
          /\ given'[Len(given) + 1] = y
      BY <3>1, AppendMoves
    <3>3. \A k \in 1..Len(given) : given[k].id \in receipt /\ given[k].id # p
      BY <2>2 DEF SessionInv, Given
    <3>4. \A j, k \in 1..Len(given) : given[j].id = given[k].id => j = k
      BY DEF SessionInv, Given, IsInjective
    <3>5. \A j, k \in 1..Len(given') : given'[j].id = given'[k].id => j = k
      BY <1>2, <3>2, <3>3, <3>4
    <3>6. \A k \in 1..Len(given') : given'[k].id \in receipt'
      BY <1>2, <1>3, <3>2, <3>3
    <3> QED
      BY <3>2, <3>5, <3>6 DEF Given, IsInjective
  <2> QED
    BY <2>1, <2>2
<1>9. ASSUME NEW d \in Actors PROVE Tended(d)'
  <2>1. CASE d = c
    BY <1>1, <1>4, <1>5, <2>1 DEF SessionInv, Tended, Deliver, At
  <2>2. CASE d # c
    BY <1>2, <1>3, <1>4, <1>5, <2>2, OthersSeeMark DEF Deliver
  <2> QED
    BY <2>1, <2>2
<1>10. Types'
  BY <1>3, <1>4, <1>5, <1>8 DEF SessionInv, Types, Deliver
<1> QED
  BY <1>4, <1>6, <1>7, <1>8, <1>9, <1>10 DEF SessionInv

\* The write of an edit or a cancellation: the lock kept the queue from changing since
\* the read, so a prompt that has run is not put back.
LEMMA WriteKeeps ==
  ASSUME SessionInv, NEW c \in Actors, Write(c)
  PROVE  SessionInv'
<1>1. PICK p \in Numbered : p = call[c].id
  BY DEF Write, At, SessionInv, Tended
<1>2. PICK e \in Envelope :
           /\ envelope' = [envelope EXCEPT ![p] = e] /\ e.state # "absent"
           /\ p \in Prompts /\ e.state = "Queued" => envelope[p].state = "Queued"
  <2>1. call[c].copy \in Envelope /\ call[c].copy.state # "absent"
    BY DEF Write, At, SessionInv, Types, Call, Tended
  <2>2. CASE At(c, "edit")
    <3>1. PICK v \in Nat : v = call[c].copy.version + 1
      BY <2>1 DEF Envelope
    <3>2. PICK e \in Envelope : /\ e = [call[c].copy EXCEPT !.version = v, !.content = v]
                                /\ e.state = call[c].copy.state
      <4>1. ASSUME NEW t \in Envelope
            PROVE  /\ [t EXCEPT !.version = v, !.content = v] \in Envelope
                   /\ [t EXCEPT !.version = v, !.content = v].state = t.state
        BY DEF Envelope
      <4> QED
        BY <2>1, <4>1
    <3>3. envelope' = [envelope EXCEPT ![p] = e]
      BY <1>1, <2>2, <3>1, <3>2 DEF Write, At
    <3> QED
      BY <1>1, <2>1, <2>2, <3>2, <3>3 DEF At, SessionInv, Tended
  <2>3. CASE At(c, "cancel")
    BY <1>1, <2>1, <2>3, AdvanceMoves DEF Write, At
  <2> QED
    BY <2>2, <2>3 DEF Write
<1>3. /\ envelope' \in [Ids -> Envelope] /\ Numbered' = Numbered
      /\ \A q \in Ids \ {p} : envelope'[q] = envelope[q]
      /\ Known' /\ Ran' /\ Ordered'
  BY <1>2, EnvelopeMoves DEF Write
<1>4. /\ call' \in [Actors -> Call] /\ \A d \in Actors \ {c} : call'[d] = call[d]
      /\ call'[c].at = "idle" /\ call'[c].drained = <<>>
  BY IdleMoves DEF Write, SessionInv
<1>5. lock = c /\ lock' = None
  BY DEF Write, At, SessionInv, Locked
<1>6. Locked' /\ Stored'
  BY <1>3, <1>4, <1>5, NoneApart DEF SessionInv, Locked, Stored, Write
<1>7. OneProcessor'
  BY <1>4 DEF SessionInv, OneProcessor, Busy, Write, At
<1>8. Given'
  BY DEF SessionInv, Given, IsInjective, Write
<1>9. ASSUME NEW d \in Actors PROVE Tended(d)'
  <2>1. CASE d = c
    BY <1>4, <2>1 DEF Tended
  <2>2. CASE d # c
    <3>1. call[d].at \notin {"edit", "cancel"} /\ ran' = ran
      BY <1>5, <2>2 DEF SessionInv, Locked, Write
    <3> QED
      BY <1>3, <1>4, <2>2, <3>1 DEF SessionInv, Tended
  <2> QED
    BY <2>1, <2>2
<1>10. Types'
  BY <1>3, <1>4, <1>5 DEF SessionInv, Types, Write
<1> QED
  BY <1>3, <1>6, <1>7, <1>8, <1>9, <1>10 DEF SessionInv

\* The processor takes the first prompt of the queue: it has not run, and whatever
\* has run stands before it.
LEMMA TakeKeeps ==
  ASSUME SessionInv, NEW c \in Actors, Take(c)
  PROVE  SessionInv'
<1>1. PICK n \in Queued :
           /\ \A m \in Queued : n <= m
           /\ envelope' = [envelope EXCEPT ![order[n]] = Advance(@, "Running")]
           /\ ran' = Append(ran, order[n])
           /\ call' = [call EXCEPT ![c].at = "turn", ![c].id = order[n]]
  BY DEF Take
<1>2. PICK p \in Prompts : p = order[n] /\ p \in Ids /\ envelope[p].state = "Queued"
  BY DEF Queued, Ids
<1>3. /\ DOMAIN order = 1..Len(order) /\ DOMAIN ran = 1..Len(ran) /\ n \in 1..Len(order)
      /\ \A k \in 1..Len(ran) : ran[k] \in Ids /\ ran[k] # p
      /\ order' = order /\ Numbered' = Numbered /\ p \in Numbered
      /\ \A m \in 1..Len(order) : order[m] \in Ids
  BY <1>2 DEF Take, SessionInv, Types, Ran, Queued, Ids, Numbered, ToSet
<1>4. PICK e \in Envelope : /\ envelope' = [envelope EXCEPT ![p] = e]
                            /\ e.content = envelope[p].content /\ e.state = "Running"
  <2>1. envelope[p] \in Envelope
    BY <1>2 DEF SessionInv, Types
  <2> QED
    BY <1>1, <1>2, <2>1, AdvanceMoves
<1>5. /\ envelope' \in [Ids -> Envelope]
      /\ envelope'[p] = e /\ \A q \in Ids \ {p} : envelope'[q] = envelope[q]
  BY <1>2, <1>4 DEF SessionInv, Types
<1>6. /\ ran' \in Seq(Prompts) /\ Len(ran') = Len(ran) + 1 /\ Len(ran) \in Nat
      /\ \A k \in 1..Len(ran) : ran'[k] = ran[k]
      /\ ran'[Len(ran) + 1] = p /\ ToSet(ran') = ToSet(ran) \cup {p}
  BY <1>1, <1>2, AppendMoves DEF SessionInv, Types
<1>7. /\ call' \in [Actors -> Call] /\ \A d \in Actors \ {c} : call'[d] = call[d]
      /\ call'[c].at = "turn" /\ call'[c].id = p /\ call'[c].drained = call[c].drained
  <2> DEFINE x == [call[c] EXCEPT !.at = "turn", !.id = p]
  <2>1. call' = [call EXCEPT ![c] = x]
    BY <1>1, <1>2
  <2>2. x \in Call /\ x.at = "turn" /\ x.id = p /\ x.drained = call[c].drained
    BY <1>2 DEF SessionInv, Types, Call, Places
  <2> HIDE DEF x
  <2> QED
    BY <2>1, <2>2 DEF SessionInv, Types
<1>8. Known'
  <2>1. IsInjective(order)'
    BY <1>3 DEF SessionInv, Known, IsInjective
  <2> QED
    BY <1>3, <1>4, <1>5, <2>1 DEF SessionInv, Known
<1>9. Queued' \subseteq Queued \ {n}
  BY <1>2, <1>3, <1>4, <1>5 DEF Queued
<1>10. \A m \in 1..Len(order) : order[m] = p => m = n
  BY <1>2, <1>3 DEF SessionInv, Known, IsInjective
<1>11. Ran'
  <2>1. \A k \in 1..Len(ran') : ran'[k] \in Numbered' /\ envelope'[ran'[k]].state # "Queued"
    BY <1>3, <1>4, <1>5, <1>6 DEF SessionInv, Ran
  <2>2. ASSUME NEW m \in 1..Len(order), NEW i \in Queued', order[m] \in ToSet(ran')
        PROVE  m < i
    <3>1. i \in Queued /\ i # n /\ n <= i /\ i \in Nat /\ n \in Nat
      BY <1>1, <1>3, <1>9 DEF Queued
    <3>2. CASE order[m] \in ToSet(ran)
      BY <3>1, <3>2 DEF SessionInv, Ran
    <3>3. CASE order[m] = p
      BY <1>10, <3>1, <3>3
    <3> QED
      BY <1>6, <2>2, <3>2, <3>3
  <2> QED
    BY <1>3, <2>1, <2>2 DEF Ran
<1>12. Ordered'
  <2>1. IsInjective(ran)'
    BY <1>3, <1>6 DEF SessionInv, Ordered, IsInjective
  <2>2. ASSUME NEW j \in 1..Len(ran'), NEW k \in 1..Len(ran'),
               NEW m \in 1..Len(order), NEW i \in 1..Len(order),
               j < k, order[m] = ran'[j], order[i] = ran'[k]
        PROVE  m < i
    <3>1. j \in 1..Len(ran) /\ order[m] = ran[j]
      BY <1>6, <2>2
    <3>2. CASE k \in 1..Len(ran)
      BY <1>6, <2>2, <3>1, <3>2 DEF SessionInv, Ordered
    <3>3. CASE k = Len(ran) + 1
      <4>1. i = n
        BY <1>6, <1>10, <2>2, <3>3
      <4>2. order[m] \in ToSet(ran)
        BY <1>3, <3>1 DEF ToSet
      <4> QED
        BY <4>1, <4>2 DEF SessionInv, Ran
    <3> QED
      BY <1>6, <3>2, <3>3
  <2> QED
    BY <1>3, <2>1, <2>2 DEF Ordered
<1>13. Locked' /\ Stored'
  BY <1>3, <1>7 DEF SessionInv, Locked, Stored, Take, At
<1>14. OneProcessor'
  BY <1>7 DEF SessionInv, OneProcessor, Busy, Take, At
<1>15. Given'
  BY DEF SessionInv, Given, IsInjective, Take
<1>16. ASSUME NEW d \in Actors PROVE Tended(d)'
  <2>1. CASE d = c
    BY <1>3, <1>6, <1>7, <2>1 DEF SessionInv, Tended
  <2>2. CASE d # c
    <3>1. call[d].at # "edit"
      BY NoneApart DEF SessionInv, Locked, Take
    <3> QED
      BY <1>2, <1>3, <1>4, <1>5, <1>6, <1>7, <2>2, <3>1, OthersSeeMark
  <2> QED
    BY <2>1, <2>2
<1>17. Types'
  BY <1>3, <1>5, <1>6, <1>7 DEF SessionInv, Types, Take
<1> QED
  BY <1>8, <1>11, <1>12, <1>13, <1>14, <1>15, <1>16, <1>17 DEF SessionInv

-----------------------------------------------------------------------------
(* The theorems. *)

\* Every step keeps the invariant.
LEMMA NextSession == SessionInv /\ [Next]_vars => SessionInv'
<1> SUFFICES ASSUME SessionInv, [Next]_vars PROVE SessionInv'
  OBVIOUS
<1>1. CASE UNCHANGED vars
  <2>1. Types' /\ Known' /\ Stored'
    BY <1>1 DEF vars, SessionInv, Types, Known, Stored, Numbered, ToSet, IsInjective
  <2>2. Locked' /\ OneProcessor'
    BY <1>1 DEF vars, SessionInv, Locked, OneProcessor, Busy
  <2>3. Ran' /\ Given' /\ Ordered'
    BY <1>1 DEF vars, SessionInv, Ran, Queued, Given, Ordered, Numbered, IsInjective
  <2>4. \A c \in Actors : Tended(c)'
    BY <1>1 DEF vars, SessionInv, Tended, Numbered
  <2> QED
    BY <2>1, <2>2, <2>3, <2>4 DEF SessionInv
<1>2. ASSUME NEW c \in Actors, Proceed(c) \/ SafePoint(c) PROVE SessionInv'
  BY <1>2, PushKeeps, ClaimKeeps, TakeKeeps, TakeNoneKeeps, TakeFailsKeeps, ReleaseKeeps,
     DrainKeeps, DeliverKeeps, DrainEndsKeeps, DrainFailsKeeps, TurnSucceedsKeeps,
     TurnFailsKeeps, MarkFailsKeeps, WriteKeeps DEF Proceed, SafePoint
<1>3. ASSUME NEW c \in Clients, c \in Actors,
             \/ \E p \in Prompts : Enqueue(c, p)
             \/ \E i \in Interjections : Interject(c, i)
             \/ \E p \in Ids : EditRead(c, p) \/ CancelRead(c, p)
      PROVE  SessionInv'
  BY <1>3, EnqueueKeeps, InterjectKeeps, EditReadKeeps, CancelReadKeeps
<1> QED
  BY <1>1, <1>2, <1>3, DisconnectKeeps, DetachedEndsKeeps, RestartKeeps DEF Next, Actors

\* Store, buffer, lock, claim and the calls in progress fit together in every state that
\* requests, turns, lost connections and restarts reach.
THEOREM SessionCoherent == Spec => []SessionInv
BY InitSession, NextSession, PTL DEF Spec

\* No prompt runs twice and no interjection is handed out twice, whatever is retried,
\* edited between a read and a write, dropped or restarted.
THEOREM PromptsRunOnce == Spec => []ExactlyOnce
<1>1. SessionInv => ExactlyOnce
  <2> SUFFICES ASSUME SessionInv PROVE ExactlyOnce
    OBVIOUS
  <2>1. ToSet(order) = {p \in Ids : envelope[p] # Absent}
    <3>1. ToSet(order) \subseteq Ids /\ Absent.state = "absent"
      BY DEF SessionInv, Types, ToSet, Absent
    <3> QED
      BY <3>1 DEF SessionInv, Known, Numbered
  <2>2. \A k \in 1..Len(buffer) : buffer[k].id \in Interjections
    <3>1. \A k \in 1..Len(buffer) : buffer[k] \in Copy
      BY DEF SessionInv, Types
    <3> QED
      BY <3>1 DEF Copy
  <2>3. \A c \in Actors : call[c].at \in Places /\ call[c].id \in Ids \cup {None}
    BY DEF SessionInv, Types, Call
  <2>4. TypeOK
    BY <2>1, <2>2, <2>3 DEF SessionInv, Types, Known, TypeOK, Places, Envelope
  <2> QED
    BY <2>4 DEF SessionInv, Ordered, Given, ExactlyOnce
<1> QED
  BY <1>1, SessionCoherent, PTL

\* One client at a time is the processor, under the claim, and turns begin in the order in
\* which the prompts were enqueued.
THEOREM PromptsRunInOrder == Spec => []InOrder
<1>1. SessionInv => InOrder
  <2> SUFFICES ASSUME SessionInv PROVE InOrder
    OBVIOUS
  <2>1. Cardinality(Busy) <= 1
    <3>1. CASE Busy = {}
      BY <3>1, FS_EmptySet
    <3>2. CASE Busy # {}
      <4>1. PICK c : Busy = {c}
        BY <3>2 DEF SessionInv, OneProcessor
      <4> QED
        BY <4>1, FS_Singleton
    <3> QED
      BY <3>1, <3>2
  <2> QED
    BY <2>1 DEF SessionInv, OneProcessor, Ordered, InOrder
<1> QED
  BY <1>1, SessionCoherent, PTL

\* Until it is cancelled, the envelope of a running prompt keeps the content with which it
\* was taken: no edit that was read before the turn is written during it.
THEOREM TurnsRunWhatTheySay == Spec => RunsWhatItSays
<1> DEFINE Keeps == \A c \in Actors : At(c, "turn") /\ envelope[call[c].id].state = "Running" =>
                      envelope'[call[c].id].content = envelope[call[c].id].content
<1>1. SessionInv /\ [Next]_vars => [Keeps]_vars
  <2> SUFFICES ASSUME SessionInv, Next, NEW c \in Actors, At(c, "turn"),
                      envelope[call[c].id].state = "Running"
               PROVE  envelope'[call[c].id].content = envelope[call[c].id].content
    OBVIOUS
  <2>1. PICK p \in Prompts : p = call[c].id /\ p \in Ids /\ envelope[p].state = "Running"
    BY DEF At, SessionInv, Types, Tended, ToSet, Ids
  <2>2. /\ envelope[p] \in Envelope /\ p \in Numbered
        /\ \A q \in Numbered : q \in Ids /\ envelope[q] \in Envelope
    <3>1. Numbered \subseteq Ids
      BY DEF SessionInv, Types, Numbered, ToSet
    <3> QED
      BY <2>1, <3>1 DEF SessionInv, Types, Known
  <2>3. ASSUME NEW d \in Actors, Proceed(d) \/ SafePoint(d)
        PROVE  envelope'[p].content = envelope[p].content
    <3>1. CASE Take(d)
      <4>1. PICK q \in Ids : envelope' = [envelope EXCEPT ![q] = Advance(@, "Running")]
        BY <3>1 DEF Take, Queued, Ids
      <4> QED
        BY <2>1, <2>2, <4>1, AdvanceMoves DEF SessionInv, Types
    <3>2. CASE Deliver(d) \/ TurnSucceeds(d)
      <4>1. PICK q \in Numbered : MarkConsumed(q)
        <5>1. CASE Deliver(d)
          <6>1. call[d].drained \in Seq(Copy) /\ call[d].drained # <<>>
            BY <5>1 DEF Deliver, SessionInv, Types, Call
          <6>2. Head(call[d].drained).id \in Numbered
            BY <6>1 DEF SessionInv, Tended
          <6> QED
            BY <5>1, <6>2 DEF Deliver
        <5>2. CASE TurnSucceeds(d)
          BY <5>2 DEF TurnSucceeds, At, SessionInv, Tended, Ran, ToSet, Types
        <5> QED
          BY <3>2, <5>1, <5>2
      <4> QED
        BY <2>1, <4>1, MarkConsumedMoves DEF SessionInv, Types
    <3>3. CASE TurnFails(d)
      BY <2>1, <2>2, <3>3, AdvanceMoves DEF TurnFails, SessionInv, Types
    <3>4. CASE Write(d)
      <4>1. CASE At(d, "edit")
        <5>1. call[d].id # p
          BY <2>1, <4>1 DEF At, SessionInv, Tended
        <5> QED
          BY <2>1, <3>4, <4>1, <5>1 DEF Write, At, SessionInv, Types
      <4>2. CASE At(d, "cancel")
        <5>1. call[d].copy \in Envelope /\ call[d].copy.content = envelope[call[d].id].content
          BY <4>2 DEF At, SessionInv, Types, Call, Tended
        <5>2. PICK e : /\ e = Advance(call[d].copy, "Cancelled")
                       /\ e.content = envelope[call[d].id].content
          BY <5>1, AdvanceMoves
        <5>3. envelope' = [envelope EXCEPT ![call[d].id] = e]
          BY <3>4, <4>2, <5>2 DEF Write, At
        <5> QED
          BY <2>1, <5>2, <5>3 DEF SessionInv, Types
      <4> QED
        BY <3>4, <4>1, <4>2 DEF Write
    <3>5. CASE \/ Push(d) \/ Claim(d) \/ TakeNone(d) \/ TakeFails(d) \/ Release(d) \/ Drain(d)
               \/ DrainEnds(d) \/ DrainFails(d) \/ MarkFails(d)
      BY <3>5 DEF Push, Claim, TakeNone, TakeFails, Release, Drain, DrainEnds, DrainFails,
                  MarkFails
    <3> QED
      BY <2>3, <3>1, <3>2, <3>3, <3>4, <3>5 DEF Proceed, SafePoint
  <2>4. ASSUME NEW d \in Actors, NEW q \in Ids, Enqueue(d, q) \/ Interject(d, q)
        PROVE  envelope'[p].content = envelope[p].content
    <3>1. CASE envelope[q] = Absent /\ StoreAppend(q)
      <4>1. q # p
        BY <2>1, <3>1 DEF Absent
      <4> QED
        BY <2>1, <3>1, <4>1 DEF StoreAppend, SessionInv, Types
    <3> QED
      BY <2>4, <3>1 DEF Enqueue, Interject
  <2>5. CASE \/ Restart \/ DetachedEnds
             \/ \E d \in Clients : \/ Disconnect(d)
                                   \/ \E q \in Ids : EditRead(d, q) \/ CancelRead(d, q)
    BY <2>1, <2>5 DEF Restart, DetachedEnds, Disconnect, EditRead, CancelRead
  <2> QED
    BY <2>1, <2>3, <2>4, <2>5 DEF Next, Ids, Actors
<1> QED
  BY <1>1, SessionCoherent, PTL DEF Spec, RunsWhatItSays
=============================================================================
