------------------------ MODULE AgentAdmissionProofs ------------------------
(***************************************************************************)
(* What AgentAdmission guarantees for any agents, roots and limits.        *)
(*                                                                         *)
(* The counters are compared with the sets of agents that occupy them: a   *)
(* step changes the phase of one agent at most, so that a set grows or     *)
(* shrinks by one, and the theorems about cardinality do the rest.  That a *)
(* counter is given back once rests on PlacedAt: the place of a future or a*)
(* lease determines the phase its counters are held under.                 *)
(***************************************************************************)
EXTENDS AgentAdmission, FiniteSetTheorems, SequenceTheorems, TLAPS

Everyone == {"Waiting", "Admitted", "Queued", "Running"}
Slotted == {"Admitted", "Queued", "Running"}
RootState == [resident : Nat, queued : Nat, running : Nat, scope : Nat]

Types ==
  /\ config \in Configs
  /\ agent \in [Agents -> Agent]
  /\ roots \in [Roots -> RootState]
  /\ slots \in Nat
  /\ lock \in Agents \cup {None}
  /\ listed \subseteq Agents /\ stray \subseteq Agents /\ faulted \subseteq Agents
  /\ created \in [Roots -> Nat]
  /\ budget \in [Agents -> {"none", "open", "closed"}]

\* The place of an agent determines what the counters hold for it.
PlacedAt(a) ==
  /\ agent[a].at \in Waiting => agent[a].phase = "Waiting"
  /\ agent[a].at \in {"admitted"} \cup InBudget => agent[a].phase = "Admitted"
  /\ agent[a].at \in InLease => agent[a].phase \in {"Queued", "Running"}
  /\ agent[a].at = "releasing" => agent[a].phase # "Closed"
  /\ agent[a].at \in {"new", "notifying", "done"} => agent[a].phase = "Closed"

\* Budget calls of the reservation happen under the lock, and a root's scope is
\* created when there is none.
Scoped ==
  /\ \A a \in Agents : agent[a].at \in InBudget => lock = a
  /\ \A a \in Agents : agent[a].at = "creating" => roots[Root[a]].scope = 0
  /\ \A r \in Roots : created[r] <= 1 /\ (roots[r].scope = 0 => created[r] = 0)

Distinct(s) == \A i, j \in 1..Len(s) : s[i] = s[j] => i = j

\* The queue holds every waiting agent once.
Queue ==
  /\ waiters \in Seq(Agents) /\ Distinct(waiters)
  /\ \A a \in Agents : agent[a].phase = "Waiting" <=> \E i \in 1..Len(waiters) : waiters[i] = a

Occupants(r, phases) == {b \in Agents : Root[b] = r /\ agent[b].phase \in phases}
Holders(phases) == {b \in Agents : agent[b].phase \in phases}

\* The counters are what agents occupy, and stay within their limits.
Counted ==
  /\ \A r \in Roots : /\ roots[r].resident = Cardinality(Occupants(r, Everyone))
                      /\ roots[r].queued = Cardinality(Occupants(r, {"Waiting", "Admitted", "Queued"}))
                      /\ roots[r].running = Cardinality(Occupants(r, {"Running"}))
                      /\ roots[r].resident <= config.resident /\ roots[r].queued <= config.queued
  /\ slots = Cardinality(Holders(Slotted)) /\ slots <= config.running

AdmissionInv ==
  /\ Types
  /\ \A a \in Agents : PlacedAt(a)
  /\ Scoped /\ Queue /\ Counted
  /\ ReleaseNotMissed /\ ReservationHasOwner

-----------------------------------------------------------------------------
(* Sets of agents and the queue. *)

\* One agent changes sides.
LEMMA OneMoves ==
  ASSUME NEW S \in SUBSET Agents, NEW T \in SUBSET Agents, NEW a \in Agents,
         \A b \in Agents \ {a} : b \in S <=> b \in T
  PROVE  /\ Cardinality(S) \in Nat /\ Cardinality(T) \in Nat
         /\ a \in S <=> a \in T => Cardinality(T) = Cardinality(S)
         /\ a \in T /\ a \notin S => Cardinality(T) = Cardinality(S) + 1
         /\ a \in S /\ a \notin T => Cardinality(T) = Cardinality(S) - 1 /\ Cardinality(S) # 0
<1>1. IsFiniteSet(S) /\ IsFiniteSet(T)
  BY AdmissionAssumption, FS_Subset
<1>2. Cardinality(S) \in Nat /\ Cardinality(T) \in Nat
  BY <1>1, FS_CardinalityType
<1>3. CASE a \in S <=> a \in T
  <2>1. S = T
    BY <1>3
  <2> QED
    BY <1>2, <1>3, <2>1
<1>4. CASE a \in T /\ a \notin S
  <2>1. T = S \cup {a}
    BY <1>4
  <2> QED
    BY <1>1, <1>2, <1>4, <2>1, FS_AddElement
<1>5. CASE a \in S /\ a \notin T
  <2>1. S = T \cup {a}
    BY <1>5
  <2>2. Cardinality(S) = Cardinality(T) + 1
    BY <1>1, <1>5, <2>1, FS_AddElement
  <2> QED
    BY <1>2, <1>5, <2>2
<1> QED
  BY <1>3, <1>4, <1>5

\* A queue of distinct elements is as long as its set of elements is large.
LEMMA DistinctCount ==
  ASSUME NEW s \in Seq(Agents), Distinct(s)
  PROVE  Len(s) = Cardinality(ToSet(s))
<1>1. Len(s) \in Nat /\ DOMAIN s = 1..Len(s) /\ s \in [1..Len(s) -> Agents]
  BY LenProperties
<1>2. s \in [1..Len(s) -> ToSet(s)]
  BY <1>1 DEF ToSet
<1>3. s \in Injection(1..Len(s), ToSet(s))
  BY <1>1, <1>2 DEF Injection, IsInjective, Distinct
<1>4. s \in Surjection(1..Len(s), ToSet(s))
  BY <1>1, <1>2 DEF Surjection, ToSet
<1>5. ExistsBijection(1..Len(s), ToSet(s))
  BY <1>3, <1>4 DEF ExistsBijection, Bijection
<1> QED
  BY <1>1, <1>5, FS_CountingElements

\* A new waiter goes to the end.
LEMMA AppendQueue ==
  ASSUME NEW s \in Seq(Agents), Distinct(s), NEW a \in Agents, \A i \in 1..Len(s) : s[i] # a
  PROVE  /\ Append(s, a) \in Seq(Agents) /\ Distinct(Append(s, a))
         /\ \A b : (\E i \in 1..Len(Append(s, a)) : Append(s, a)[i] = b)
                     <=> (b = a \/ \E i \in 1..Len(s) : s[i] = b)
         /\ s # <<>> => Head(Append(s, a)) = Head(s)
         /\ s = <<>> => Head(Append(s, a)) = a
<1>1. /\ Len(s) \in Nat /\ Append(s, a) \in Seq(Agents) /\ Len(Append(s, a)) = Len(s) + 1
      /\ \A i \in 1..Len(s) : Append(s, a)[i] = s[i]
      /\ Append(s, a)[Len(s) + 1] = a
  OBVIOUS
<1>2. \A i \in 1..Len(s) + 1 : i \in 1..Len(s) \/ i = Len(s) + 1
  BY <1>1
<1>3. Distinct(Append(s, a))
  BY <1>1, <1>2 DEF Distinct
<1>4. ASSUME NEW b
      PROVE  (\E i \in 1..Len(Append(s, a)) : Append(s, a)[i] = b)
               <=> (b = a \/ \E i \in 1..Len(s) : s[i] = b)
  BY <1>1, <1>2
<1>5. Append(s, a) # <<>> /\ Head(Append(s, a)) = Append(s, a)[1]
  BY <1>1
<1> QED
  BY <1>1, <1>3, <1>4, <1>5

\* The head of the queue leaves it.
LEMMA TailQueue ==
  ASSUME NEW s \in Seq(Agents), Distinct(s), s # <<>>
  PROVE  /\ Tail(s) \in Seq(Agents) /\ Distinct(Tail(s))
         /\ \A b : (\E i \in 1..Len(Tail(s)) : Tail(s)[i] = b)
                     <=> (b # Head(s) /\ \E i \in 1..Len(s) : s[i] = b)
<1>1. /\ Len(s) \in Nat \ {0} /\ Tail(s) \in Seq(Agents) /\ Len(Tail(s)) = Len(s) - 1
      /\ \A i \in 1..Len(Tail(s)) : Tail(s)[i] = s[i + 1]
      /\ Head(s) = s[1]
  BY HeadTailProperties, EmptySeq
<1>2. \A i \in 1..Len(s) - 1 : i + 1 \in 1..Len(s)
  BY <1>1
<1>3. \A i \in 1..Len(s) : i = 1 \/ (i - 1 \in 1..Len(s) - 1 /\ (i - 1) + 1 = i)
  BY <1>1
<1>4. Distinct(Tail(s))
  BY <1>1, <1>2 DEF Distinct
<1>5. ASSUME NEW b
      PROVE  (\E i \in 1..Len(Tail(s)) : Tail(s)[i] = b)
               <=> (b # Head(s) /\ \E i \in 1..Len(s) : s[i] = b)
  <2>1. ASSUME NEW i \in 1..Len(Tail(s)), Tail(s)[i] = b
        PROVE  b # Head(s) /\ \E j \in 1..Len(s) : s[j] = b
    BY <1>1, <1>2, <2>1 DEF Distinct
  <2>2. ASSUME b # Head(s), NEW i \in 1..Len(s), s[i] = b
        PROVE  \E j \in 1..Len(Tail(s)) : Tail(s)[j] = b
    <3>1. i - 1 \in 1..Len(s) - 1 /\ (i - 1) + 1 = i
      BY <1>1, <1>3, <2>2
    <3>2. Tail(s)[i - 1] = b
      BY <1>1, <2>2, <3>1
    <3> QED
      BY <1>1, <3>1, <3>2
  <2> QED
    BY <2>1, <2>2
<1> QED
  BY <1>1, <1>4, <1>5

\* What SubSeq leaves of n elements behind the j-th.
LEMMA SuffixLength ==
  ASSUME NEW n \in Nat, NEW j \in 1..n
  PROVE  (IF j + 1 <= n THEN n - (j + 1) + 1 ELSE 0) = n - j
OBVIOUS

\* A waiter leaves the queue wherever it stands.
LEMMA LeaveQueue ==
  ASSUME NEW s \in Seq(Agents), Distinct(s), NEW a \in Agents
  PROVE  /\ Leave(s, a) \in Seq(Agents) /\ Distinct(Leave(s, a))
         /\ \A b : (\E i \in 1..Len(Leave(s, a)) : Leave(s, a)[i] = b)
                     <=> (b # a /\ \E i \in 1..Len(s) : s[i] = b)
<1>1. Len(s) \in Nat /\ DOMAIN s = 1..Len(s) /\ \A i \in 1..Len(s) : s[i] \in Agents
  BY LenProperties, ElementOfSeq
<1>2. CASE a \notin ToSet(s)
  BY <1>1, <1>2 DEF Leave, ToSet
<1>3. CASE a \in ToSet(s)
  <2> DEFINE k == CHOOSE i \in DOMAIN s : s[i] = a
             t == Leave(s, a)
             u == SubSeq(s, 1, k - 1)
             v == SubSeq(s, k + 1, Len(s))
  <2>1. k \in 1..Len(s) /\ s[k] = a
    BY <1>1, <1>3 DEF ToSet
  <2>2. t = u \o v
    BY <1>3 DEF Leave, RemoveAt
  <2> HIDE DEF k, t
  <2>3. u \in Seq(Agents) /\ Len(u) = k - 1 /\ \A i \in 1..k - 1 : u[i] = s[i]
    <3>1. 1 \in Int /\ k - 1 \in Int /\ \A i \in 1..k - 1 : s[i] \in Agents
      BY <1>1, <2>1
    <3>2. /\ u \in Seq(Agents) /\ Len(u) = IF 1 <= k - 1 THEN k - 1 - 1 + 1 ELSE 0
          /\ \A i \in 1..k - 1 - 1 + 1 : u[i] = s[1 + i - 1]
      BY <3>1, SubSeqProperties
    <3> QED
      BY <2>1, <3>2
  <2>4. v \in Seq(Agents) /\ Len(v) = Len(s) - k /\ \A i \in 1..Len(s) - k : v[i] = s[k + i]
    <3>1. k + 1 \in Int /\ Len(s) \in Int /\ \A i \in k + 1..Len(s) : s[i] \in Agents
      BY <1>1, <2>1
    <3>2. /\ v \in Seq(Agents) /\ Len(v) = IF k + 1 <= Len(s) THEN Len(s) - (k + 1) + 1 ELSE 0
          /\ \A i \in 1..Len(s) - (k + 1) + 1 : v[i] = s[(k + 1) + i - 1]
      BY <3>1, SubSeqProperties
    <3> HIDE DEF v
    <3>3. v \in Seq(Agents) /\ Len(v) = IF k + 1 <= Len(s) THEN Len(s) - (k + 1) + 1 ELSE 0
      BY <3>2, Zenon
    <3>4. v \in Seq(Agents) /\ Len(v) = Len(s) - k
      BY <1>1, <2>1, <3>3, SuffixLength
    <3>5. ASSUME NEW i \in 1..Len(s) - k
          PROVE  v[i] = s[k + i]
      <4>1. i \in Nat /\ Len(s) - (k + 1) + 1 = Len(s) - k /\ (k + 1) + i - 1 = k + i
        BY <1>1, <2>1
      <4>2. v[i] = s[(k + 1) + i - 1]
        BY <3>2, <4>1, Zenon
      <4> QED
        BY <4>1, <4>2, Zenon
    <3> QED
      BY <3>4, <3>5, Zenon
  <2> HIDE DEF u, v
  <2>5. /\ t \in Seq(Agents) /\ Len(t) = Len(s) - 1
        /\ \A i \in 1..Len(s) - 1 : t[i] = IF i < k THEN s[i] ELSE s[i + 1]
    <3>1. /\ t \in Seq(Agents) /\ Len(t) = Len(u) + Len(v)
          /\ \A i \in 1..Len(u) + Len(v) : t[i] = IF i <= Len(u) THEN u[i] ELSE v[i - Len(u)]
      BY <2>2, <2>3, <2>4, ConcatProperties
    <3>2. ASSUME NEW i \in 1..Len(s) - 1, ~(i < k)
          PROVE  t[i] = s[i + 1]
      <4>1. i - (k - 1) \in 1..Len(s) - k /\ k + (i - (k - 1)) = i + 1
        BY <1>1, <2>1, <3>2
      <4>2. i \in 1..Len(u) + Len(v) /\ ~(i <= Len(u))
        BY <1>1, <2>1, <2>3, <2>4, <3>2
      <4>3. t[i] = v[i - Len(u)]
        BY <3>1, <4>2
      <4>4. t[i] = v[i - (k - 1)]
        BY <2>3, <4>3
      <4> QED
        BY <2>4, <4>1, <4>4
    <3>3. ASSUME NEW i \in 1..Len(s) - 1, i < k
          PROVE  t[i] = s[i]
      <4>1. i \in 1..Len(u) + Len(v) /\ i <= Len(u) /\ i \in 1..k - 1
        BY <1>1, <2>1, <2>3, <2>4, <3>3
      <4>2. t[i] = u[i]
        BY <3>1, <4>1
      <4> QED
        BY <2>3, <4>1, <4>2
    <3> QED
      BY <1>1, <2>1, <2>3, <2>4, <3>1, <3>2, <3>3
  <2>6. Distinct(t)
    BY <1>1, <2>1, <2>5 DEF Distinct
  <2>7. ASSUME NEW b
        PROVE  (\E i \in 1..Len(t) : t[i] = b) <=> (b # a /\ \E i \in 1..Len(s) : s[i] = b)
    <3>1. ASSUME NEW i \in 1..Len(t), t[i] = b
          PROVE  b # a /\ \E j \in 1..Len(s) : s[j] = b
      BY <1>1, <2>1, <2>5, <3>1 DEF Distinct
    <3>2. ASSUME b # a, NEW i \in 1..Len(s), s[i] = b
          PROVE  \E j \in 1..Len(t) : t[j] = b
      <4>1. CASE i < k
        BY <1>1, <2>1, <2>5, <3>2, <4>1
      <4>2. CASE i > k
        <5>1. i - 1 \in 1..Len(t) /\ t[i - 1] = s[(i - 1) + 1] /\ (i - 1) + 1 = i
          BY <1>1, <2>1, <2>5, <4>2
        <5> QED
          BY <3>2, <5>1
      <4> QED
        BY <1>1, <2>1, <3>2, <4>1, <4>2
    <3> QED
      BY <3>1, <3>2
  <2> QED
    BY <2>5, <2>6, <2>7 DEF t
<1> QED
  BY <1>2, <1>3

-----------------------------------------------------------------------------
(* Steps that leave the counters alone. *)

LEMMA Limits ==
  ASSUME Types
  PROVE  /\ config.running \in Nat \ {0} /\ config.resident \in Nat \ {0} /\ config.queued \in Nat \ {0}
         /\ config.queued <= config.resident
BY AdmissionAssumption DEF Types

LEMMA BooksKept ==
  ASSUME Queue, Counted, UNCHANGED <<config, slots, waiters>>,
         \A r \in Roots : /\ roots'[r].resident = roots[r].resident /\ roots'[r].queued = roots[r].queued
                          /\ roots'[r].running = roots[r].running,
         \A b \in Agents : \/ agent'[b].phase = agent[b].phase
                           \/ agent[b].phase = "Admitted" /\ agent'[b].phase = "Queued"
  PROVE  Queue' /\ Counted'
<1>1. /\ Holders(Slotted)' = Holders(Slotted)
      /\ \A r \in Roots : /\ Occupants(r, Everyone)' = Occupants(r, Everyone)
                          /\ Occupants(r, {"Waiting", "Admitted", "Queued"})'
                               = Occupants(r, {"Waiting", "Admitted", "Queued"})
                          /\ Occupants(r, {"Running"})' = Occupants(r, {"Running"})
  BY DEF Holders, Occupants, Slotted, Everyone
<1>2. Counted'
  BY <1>1 DEF Counted
<1>3. Queue'
  BY DEF Queue
<1> QED
  BY <1>2, <1>3

\* One agent moves, and keeps what the counters hold for it.
LEMMA LocalStep ==
  ASSUME AdmissionInv, NEW a \in Agents, Types', Scoped', ReservationHasOwner', PlacedAt(a)',
         \A b \in Agents \ {a} : agent'[b] = agent[b],
         \/ agent'[a].phase = agent[a].phase
         \/ agent[a].phase = "Admitted" /\ agent'[a].phase = "Queued",
         agent[a].at # "notifying",
         agent'[a].at = "sleeping" => ~agent'[a].since /\ ~(slots = 0 /\ a = Head(waiters)),
         UNCHANGED <<config, slots, waiters>>,
         \A r \in Roots : /\ roots'[r].resident = roots[r].resident /\ roots'[r].queued = roots[r].queued
                          /\ roots'[r].running = roots[r].running
  PROVE  AdmissionInv'
<1>1. \A b \in Agents : PlacedAt(b)'
  BY DEF AdmissionInv, PlacedAt
<1>2. Queue' /\ Counted'
  BY BooksKept DEF AdmissionInv
<1>3. ReleaseNotMissed'
  BY DEF AdmissionInv, ReleaseNotMissed
<1> QED
  BY <1>1, <1>2, <1>3 DEF AdmissionInv

Moves(a) ==
  Refuse(a) \/ Arm(a) \/ Sleep(a) \/ Wake(a) \/ Lock(a) \/ GiveUp(a) \/ Settle(a) \/ Transfer(a)

\* Waiting, locking, giving up and the calls of a lease.
LEMMA MovesInv ==
  ASSUME AdmissionInv, NEW a \in Agents, Moves(a)
  PROVE  AdmissionInv'
<1>1. /\ UNCHANGED <<Books, listed, created, budget, stray, faulted>>
      /\ \A b \in Agents \ {a} : agent'[b] = agent[b]
      /\ agent' \in [Agents -> Agent] /\ agent'[a].phase = agent[a].phase /\ agent'[a].holds = agent[a].holds
      /\ agent[a].at \notin {"revoking", "notifying"}
  BY DEF AdmissionInv, Types, Moves, Refuse, Arm, Sleep, Wake, Lock, GiveUp, Settle, Transfer, Goto, Books,
         Money, Agent, At, Waiting, InBudget, InLease
<1>2. LET from == agent[a].at
          to == agent'[a].at
      IN  \/ from = "new" /\ to = "done" /\ lock' = lock
          \/ from \in Waiting /\ to \in Waiting /\ lock' = lock /\ (to = "sleeping" => Sleep(a))
          \/ from = "admitted" /\ to \in InBudget /\ Lock(a)
          \/ from \in {"locking", "sleeping", "admitted"} \cup InBudget /\ to = "releasing" /\ GiveUp(a)
          \/ from = "leased" /\ to \in {"settling", "transferring"} /\ lock' = lock
  <2>1. CASE Refuse(a)
    BY <2>1 DEF AdmissionInv, Types, Refuse, Goto, Money
  <2>2. CASE Arm(a) \/ Sleep(a) \/ Wake(a)
    <3>1. lock' = lock /\ agent[a].at \in Waiting /\ agent'[a].at \in Waiting
      BY <2>2 DEF AdmissionInv, Types, Agent, Arm, Sleep, Wake, Goto, Money, Waiting
    <3>2. ~Sleep(a) => agent'[a].at # "sleeping"
      BY <2>2 DEF AdmissionInv, Types, Agent, Arm, Wake, Goto
    <3> QED
      BY <3>1, <3>2
  <2>3. CASE Lock(a)
    BY <2>3 DEF AdmissionInv, Types, Lock, Goto, InBudget
  <2>4. CASE GiveUp(a)
    BY <2>4 DEF AdmissionInv, Types, GiveUp
  <2>5. CASE Settle(a) \/ Transfer(a)
    <3>1. lock' = lock /\ agent[a].at = "leased"
      BY <2>5 DEF Settle, Transfer, Money
    <3>2. agent'[a].at \in {"settling", "transferring"}
      BY <2>5 DEF AdmissionInv, Types, Agent, Settle, Transfer, Goto
    <3> QED
      BY <3>1, <3>2
  <2> QED
    BY <2>1, <2>2, <2>3, <2>4, <2>5 DEF Moves
<1>7. PlacedAt(a)'
  BY <1>1, <1>2 DEF AdmissionInv, PlacedAt, Waiting, InBudget, InLease
<1>3. agent'[a].at = "sleeping" => ~agent'[a].since /\ ~(slots = 0 /\ a = Head(waiters))
  <2>1. CASE Sleep(a)
    BY <2>1, Limits DEF AdmissionInv, Types, Sleep, MyTurn
  <2>2. CASE ~Sleep(a)
    BY <1>2, <2>2 DEF InBudget
  <2> QED
    BY <2>1, <2>2
<1>4. Types'
  BY <1>1 DEF AdmissionInv, Types, Moves, Refuse, Arm, Sleep, Wake, Lock, GiveUp, Settle, Transfer, Goto, Books,
     Money
<1>5. Scoped'
  <2>1. CASE Lock(a)
    BY <1>1, <2>1, AdmissionAssumption DEF AdmissionInv, Types, Scoped, Lock, Goto, Books, InBudget
  <2>2. CASE GiveUp(a)
    BY <1>1, <2>2, AdmissionAssumption DEF AdmissionInv, Types, Scoped, GiveUp, Books, InBudget
  <2>3. CASE ~Lock(a) /\ ~GiveUp(a)
    <3>1. lock' = lock /\ agent'[a].at \notin InBudget
      BY <1>2, <2>3 DEF Waiting, InBudget
    <3> QED
      BY <1>1, <3>1 DEF AdmissionInv, Scoped, Books, InBudget
  <2> QED
    BY <2>1, <2>2, <2>3
<1>6. ReservationHasOwner'
  BY <1>1 DEF AdmissionInv, ReservationHasOwner
<1> QED
  BY <1>1, <1>3, <1>4, <1>5, <1>6, <1>7, LocalStep DEF Books

LEMMA CreateRootInv ==
  ASSUME AdmissionInv, NEW a \in Agents, CreateRoot(a)
  PROVE  AdmissionInv'
<1> DEFINE r == Root[a]
<1>1. r \in Roots /\ lock = a /\ roots[r].scope = 0 /\ created[r] = 0
  BY AdmissionAssumption DEF AdmissionInv, Scoped, CreateRoot, InBudget
<1>2. /\ UNCHANGED <<config, slots, waiters, lock, listed, budget, stray, faulted>>
      /\ \A b \in Agents \ {a} : agent'[b] = agent[b]
      /\ agent' \in [Agents -> Agent] /\ agent'[a].at = "reserving" /\ agent[a].at = "creating"
      /\ agent'[a].phase = agent[a].phase /\ agent'[a].holds = agent[a].holds
  BY DEF AdmissionInv, Types, CreateRoot, Goto, Agent, At, InBudget
<1>3. /\ created' = [created EXCEPT ![r] = 1]
      /\ roots' = [roots EXCEPT ![r].scope = 1]
  <2>1. created' = [created EXCEPT ![r] = 1]
    BY <1>1 DEF CreateRoot
  <2>2. created'[r] = 1
    BY <1>1, <2>1 DEF AdmissionInv, Types
  <2> QED
    BY <1>1, <2>1, <2>2 DEF CreateRoot
<1>4. Types'
  BY <1>1, <1>2, <1>3 DEF AdmissionInv, Types, RootState
<1>5. /\ created'[r] = 1 /\ roots'[r].scope = 1
      /\ \A q \in Roots \ {r} : created'[q] = created[q] /\ roots'[q] = roots[q]
      /\ \A q \in Roots : /\ roots'[q].resident = roots[q].resident /\ roots'[q].queued = roots[q].queued
                          /\ roots'[q].running = roots[q].running
  BY <1>1, <1>3 DEF AdmissionInv, Types, RootState
<1>6. Scoped'
  BY <1>1, <1>2, <1>5, AdmissionAssumption DEF AdmissionInv, Scoped, InBudget
<1>7. PlacedAt(a)' /\ ReservationHasOwner'
  BY <1>2 DEF AdmissionInv, PlacedAt, ReservationHasOwner, Waiting, InBudget, InLease
<1> QED
  BY <1>2, <1>4, <1>5, <1>6, <1>7, LocalStep

LEMMA ReserveChildInv ==
  ASSUME AdmissionInv, NEW a \in Agents, ReserveChild(a)
  PROVE  AdmissionInv'
<1>1. /\ UNCHANGED <<Books, created, stray, faulted>>
      /\ \A b \in Agents \ {a} : agent'[b] = agent[b] /\ budget'[b] = budget[b]
      /\ agent' \in [Agents -> Agent] /\ agent'[a].at = "leased" /\ agent[a].at = "reserving"
      /\ agent'[a].phase = "Queued" /\ agent'[a].holds = TRUE /\ lock' = None
  <2>1. /\ UNCHANGED <<Books, created, stray, faulted>> /\ agent[a].at = "reserving" /\ lock' = None
        /\ \A b \in Agents \ {a} : budget'[b] = budget[b]
    BY DEF AdmissionInv, Types, ReserveChild
  <2> DEFINE x == [agent[a] EXCEPT !.at = "leased", !.phase = "Queued", !.holds = TRUE]
  <2>2. agent' = [agent EXCEPT ![a] = x]
    BY DEF ReserveChild
  <2>3. x \in Agent /\ x.at = "leased" /\ x.phase = "Queued" /\ x.holds = TRUE
    <3>1. PICK y \in Agent : y = agent[a]
      BY DEF AdmissionInv, Types
    <3>2. x = [y EXCEPT !.at = "leased", !.phase = "Queued", !.holds = TRUE]
      BY <3>1
    <3> HIDE DEF x
    <3> QED
      BY <3>2 DEF Agent, At, InLease
  <2> HIDE DEF x
  <2> QED
    BY <2>1, <2>2, <2>3 DEF AdmissionInv, Types
<1>2. Types'
  BY <1>1 DEF AdmissionInv, Types, ReserveChild, Books
<1>3. agent[a].phase = "Admitted" /\ PlacedAt(a)'
  BY <1>1 DEF AdmissionInv, PlacedAt, Waiting, InBudget, InLease
<1>4. Scoped'
  BY <1>1, AdmissionAssumption DEF AdmissionInv, Scoped, Books, InBudget
<1>5. ReservationHasOwner'
  BY <1>1 DEF AdmissionInv, ReservationHasOwner
<1> QED
  BY <1>1, <1>2, <1>3, <1>4, <1>5, LocalStep DEF Books

Ends(a) == Revoke(a) \/ Settled(a) \/ Revoked(a) \/ Transferred(a) \/ CallFails(a) \/ DropLease(a)

\* A lease is given back, or the call that should do so fails.
LEMMA EndsInv ==
  ASSUME AdmissionInv, NEW a \in Agents, Ends(a)
  PROVE  AdmissionInv'
<1>1. /\ UNCHANGED <<Books, lock, created>>
      /\ \A b \in Agents \ {a} : /\ agent'[b] = agent[b] /\ budget'[b] = budget[b]
                                 /\ b \in stray <=> b \in stray'
                                 /\ b \in faulted <=> b \in faulted'
      /\ agent' \in [Agents -> Agent] /\ agent'[a].phase = agent[a].phase
      /\ agent[a].at \in InLease /\ agent'[a].at \in {"leased", "revoking", "releasing"}
  BY DEF AdmissionInv, Types, Ends, Revoke, Settled, Revoked, Transferred, Close, CallFails, DropLease, Fault, Goto,
         Books, Money, Agent, At, InLease
<1>2. Types'
  BY <1>1 DEF AdmissionInv, Types, Ends, Revoke, Settled, Revoked, Transferred, Close, CallFails, DropLease, Fault,
     Books, Money
<1>3. PlacedAt(a)'
  BY <1>1 DEF AdmissionInv, PlacedAt, Waiting, InBudget, InLease
<1>4. Scoped'
  BY <1>1 DEF AdmissionInv, Scoped, Books, InBudget
<1>5. ASSUME a \notin faulted', budget'[a] = "open"
      PROVE  agent'[a].holds \/ agent'[a].at = "revoking" \/ a \in stray'
  <2>1. a \notin faulted /\ budget[a] = "open"
    BY <1>5 DEF AdmissionInv, Types, Ends, Revoke, Settled, Revoked, Transferred, Close, CallFails, DropLease, Fault,
       Money
  <2>2. agent[a].holds = TRUE \/ agent[a].at = "revoking" \/ a \in stray
    BY <2>1 DEF AdmissionInv, ReservationHasOwner
  <2>3. CASE Revoke(a)
    BY <2>2, <2>3 DEF AdmissionInv, Types, Revoke
  <2>4. CASE Settled(a) \/ Revoked(a) \/ Transferred(a)
    BY <1>5, <2>4 DEF AdmissionInv, Types, Settled, Revoked, Transferred, Close
  <2>5. CASE CallFails(a)
    BY <1>5, <2>2, <2>5 DEF AdmissionInv, Types, CallFails, Fault, Goto, Money
  <2>6. CASE DropLease(a)
    BY <1>5, <2>2, <2>6 DEF AdmissionInv, Types, DropLease, Fault
  <2> QED
    BY <2>3, <2>4, <2>5, <2>6 DEF Ends
<1>6. ReservationHasOwner'
  BY <1>1, <1>5 DEF AdmissionInv, ReservationHasOwner
<1> QED
  BY <1>1, <1>2, <1>3, <1>4, <1>6, LocalStep DEF Books, InLease

LEMMA StrayRevokeInv ==
  ASSUME AdmissionInv, NEW a \in Agents, StrayRevoke(a)
  PROVE  AdmissionInv'
<1>1. /\ UNCHANGED <<Books, agent, lock, listed, created>> /\ stray' = stray \ {a}
      /\ \A b \in Agents \ {a} : budget'[b] = budget[b] /\ (b \in faulted <=> b \in faulted')
      /\ budget'[a] = "closed" \/ a \in faulted'
  BY DEF AdmissionInv, Types, StrayRevoke, Fault
<1>2. Types'
  BY <1>1 DEF AdmissionInv, Types, StrayRevoke, Fault, Books
<1>3. Scoped' /\ \A b \in Agents : PlacedAt(b)'
  BY <1>1 DEF AdmissionInv, Scoped, PlacedAt, Books
<1>4. Queue' /\ Counted'
  BY <1>1, BooksKept DEF AdmissionInv, Books
<1>5. ReleaseNotMissed' /\ ReservationHasOwner'
  BY <1>1 DEF AdmissionInv, ReleaseNotMissed, ReservationHasOwner, Books
<1> QED
  BY <1>2, <1>3, <1>4, <1>5 DEF AdmissionInv

LEMMA NotifyWaitersInv ==
  ASSUME AdmissionInv, NEW a \in Agents, NotifyWaiters(a)
  PROVE  AdmissionInv'
<1>1. /\ UNCHANGED <<Books, Money, faulted>>
      /\ agent[a].at = "notifying"
      /\ agent' = [b \in Agents |-> IF b = a THEN [agent[a] EXCEPT !.at = "done"] ELSE Hear(b)]
  BY DEF NotifyWaiters
<1>2. \A b \in Agents : Hear(b) \in Agent /\ [agent[b] EXCEPT !.at = "done"] \in Agent
  BY DEF AdmissionInv, Types, Hear, Agent, At
<1>3. /\ agent' \in [Agents -> Agent] /\ agent'[a].at = "done"
      /\ \A b \in Agents : agent'[b].phase = agent[b].phase /\ agent'[b].holds = agent[b].holds
      /\ \A b \in Agents \ {a} : agent'[b].at = agent[b].at
  <2>1. \A b \in Agents : /\ Hear(b).phase = agent[b].phase /\ Hear(b).at = agent[b].at
                          /\ Hear(b).holds = agent[b].holds
    BY DEF AdmissionInv, Types, Agent, Hear
  <2>2. LET x == [agent[a] EXCEPT !.at = "done"]
        IN  x.at = "done" /\ x.phase = agent[a].phase /\ x.holds = agent[a].holds
    BY DEF AdmissionInv, Types, Agent
  <2> QED
    BY <1>1, <1>2, <2>1, <2>2
<1>4. ASSUME NEW b \in Agents, agent'[b].at = "sleeping"
      PROVE  agent'[b].notified = TRUE
  <2>1. b # a /\ agent[b].at = "sleeping" /\ agent'[b] = Hear(b)
    BY <1>1, <1>3, <1>4
  <2>2. Hear(b) = [agent[b] EXCEPT !.notified = TRUE]
    BY <2>1 DEF Hear
  <2> QED
    BY <2>1, <2>2 DEF AdmissionInv, Types, Agent
<1>5. Types'
  BY <1>1, <1>3 DEF AdmissionInv, Types, Books, Money
<1>6. Scoped' /\ \A b \in Agents : PlacedAt(b)'
  BY <1>1, <1>3 DEF AdmissionInv, Scoped, PlacedAt, Books, Money, Waiting, InBudget, InLease
<1>7. Queue' /\ Counted'
  BY <1>1, <1>3, BooksKept DEF AdmissionInv, Books
<1>8. ReleaseNotMissed'
  BY <1>4 DEF ReleaseNotMissed
<1>9. ReservationHasOwner'
  BY <1>1, <1>3 DEF AdmissionInv, ReservationHasOwner, Money
<1> QED
  BY <1>5, <1>6, <1>7, <1>8, <1>9 DEF AdmissionInv

-----------------------------------------------------------------------------
(* Steps that move the counters. *)

\* The phase of one agent changes.
LEMMA PhaseMoves ==
  ASSUME NEW a \in Agents, \A b \in Agents \ {a} : agent'[b].phase = agent[b].phase
  PROVE  /\ \A r, phases :
              LET n == Cardinality(Occupants(r, phases))
                  m == Cardinality(Occupants(r, phases)')
                  before == Root[a] = r /\ agent[a].phase \in phases
                  after == Root[a] = r /\ agent'[a].phase \in phases
              IN  /\ n \in Nat /\ m \in Nat
                  /\ (before <=> after) => m = n
                  /\ after /\ ~before => m = n + 1
                  /\ before /\ ~after => m = n - 1 /\ n # 0
         /\ LET n == Cardinality(Holders(Slotted))
                m == Cardinality(Holders(Slotted)')
            IN  /\ n \in Nat /\ m \in Nat
                /\ (agent[a].phase \in Slotted <=> agent'[a].phase \in Slotted) => m = n
                /\ agent'[a].phase \in Slotted /\ agent[a].phase \notin Slotted => m = n + 1
                /\ agent[a].phase \in Slotted /\ agent'[a].phase \notin Slotted => m = n - 1 /\ n # 0
<1>1. ASSUME NEW r, NEW phases
      PROVE  LET n == Cardinality(Occupants(r, phases))
                 m == Cardinality(Occupants(r, phases)')
                 before == Root[a] = r /\ agent[a].phase \in phases
                 after == Root[a] = r /\ agent'[a].phase \in phases
             IN  /\ n \in Nat /\ m \in Nat
                 /\ (before <=> after) => m = n
                 /\ after /\ ~before => m = n + 1
                 /\ before /\ ~after => m = n - 1 /\ n # 0
  <2> DEFINE S == Occupants(r, phases)
             T == Occupants(r, phases)'
  <2>1. /\ S \in SUBSET Agents /\ T \in SUBSET Agents
        /\ \A b \in Agents \ {a} : b \in S <=> b \in T
        /\ a \in S <=> (Root[a] = r /\ agent[a].phase \in phases)
        /\ a \in T <=> (Root[a] = r /\ agent'[a].phase \in phases)
    BY DEF Occupants
  <2> HIDE DEF S, T
  <2>2. /\ Cardinality(S) \in Nat /\ Cardinality(T) \in Nat
        /\ (a \in S <=> a \in T) => Cardinality(T) = Cardinality(S)
        /\ a \in T /\ a \notin S => Cardinality(T) = Cardinality(S) + 1
        /\ a \in S /\ a \notin T => Cardinality(T) = Cardinality(S) - 1 /\ Cardinality(S) # 0
    BY <2>1, OneMoves
  <2> QED
    BY <2>1, <2>2 DEF S, T
<1>2. LET n == Cardinality(Holders(Slotted))
          m == Cardinality(Holders(Slotted)')
      IN  /\ n \in Nat /\ m \in Nat
          /\ (agent[a].phase \in Slotted <=> agent'[a].phase \in Slotted) => m = n
          /\ agent'[a].phase \in Slotted /\ agent[a].phase \notin Slotted => m = n + 1
          /\ agent[a].phase \in Slotted /\ agent'[a].phase \notin Slotted => m = n - 1 /\ n # 0
  <2> DEFINE S == Holders(Slotted)
             T == Holders(Slotted)'
  <2>1. /\ S \in SUBSET Agents /\ T \in SUBSET Agents
        /\ \A b \in Agents \ {a} : b \in S <=> b \in T
        /\ a \in S <=> agent[a].phase \in Slotted
        /\ a \in T <=> agent'[a].phase \in Slotted
    BY DEF Holders
  <2> HIDE DEF S, T
  <2>2. /\ Cardinality(S) \in Nat /\ Cardinality(T) \in Nat
        /\ (a \in S <=> a \in T) => Cardinality(T) = Cardinality(S)
        /\ a \in T /\ a \notin S => Cardinality(T) = Cardinality(S) + 1
        /\ a \in S /\ a \notin T => Cardinality(T) = Cardinality(S) - 1 /\ Cardinality(S) # 0
    BY <2>1, OneMoves
  <2> QED
    BY <2>1, <2>2 DEF S, T
<1> QED
  BY <1>1, <1>2

LEMMA EnterInv ==
  ASSUME AdmissionInv, NEW a \in Agents, Enter(a)
  PROVE  AdmissionInv'
<1> DEFINE r == Root[a]
<1>1. r \in Roots /\ roots[r] \in RootState
  BY AdmissionAssumption DEF AdmissionInv, Types
<1>2. /\ UNCHANGED <<config, slots, Money, faulted>> /\ waiters' = Append(waiters, a)
      /\ agent[a].at = "new" /\ agent[a].phase = "Closed"
      /\ roots[r].resident < config.resident /\ roots[r].queued < config.queued
  BY DEF Enter, HasRoom, AdmissionInv, PlacedAt
<1>3. /\ agent' \in [Agents -> Agent] /\ \A b \in Agents \ {a} : agent'[b] = agent[b]
      /\ agent'[a].at = "arming" /\ agent'[a].phase = "Waiting" /\ agent'[a].holds = agent[a].holds
  <2> DEFINE x == [agent[a] EXCEPT !.at = "arming", !.phase = "Waiting"]
  <2>1. agent' = [agent EXCEPT ![a] = x]
    BY DEF Enter
  <2>2. x \in Agent /\ x.at = "arming" /\ x.phase = "Waiting" /\ x.holds = agent[a].holds
    BY DEF AdmissionInv, Types, Agent, At, Waiting
  <2> HIDE DEF x
  <2> QED
    BY <2>1, <2>2 DEF AdmissionInv, Types
<1>4. /\ roots' \in [Roots -> RootState] /\ \A q \in Roots \ {r} : roots'[q] = roots[q]
      /\ roots'[r].resident = roots[r].resident + 1 /\ roots'[r].queued = roots[r].queued + 1
      /\ roots'[r].running = roots[r].running /\ roots'[r].scope = roots[r].scope
  <2> DEFINE x == [roots[r] EXCEPT !.resident = @ + 1, !.queued = @ + 1]
  <2>1. roots' = [roots EXCEPT ![r] = x]
    BY <1>1 DEF Enter
  <2>2. /\ x \in RootState /\ x.resident = roots[r].resident + 1 /\ x.queued = roots[r].queued + 1
        /\ x.running = roots[r].running /\ x.scope = roots[r].scope
    <3> HIDE DEF x
    <3>0. roots[r].resident + 1 \in Nat /\ roots[r].queued + 1 \in Nat
      BY <1>1 DEF RootState
    <3>1. PICK i \in Nat, j \in Nat : i = roots[r].resident + 1 /\ j = roots[r].queued + 1
      BY <3>0, Zenon
    <3>2. x = [roots[r] EXCEPT !.resident = i, !.queued = j]
      BY <3>1 DEF x
    <3>3. PICK t \in RootState : t = roots[r]
      BY <1>1
    <3>4. x = [t EXCEPT !.resident = i, !.queued = j]
      BY <3>2, <3>3
    <3> HIDE DEF x
    <3>5. /\ x \in RootState /\ x.resident = i /\ x.queued = j
          /\ x.running = t.running /\ x.scope = t.scope
      BY <3>4 DEF RootState
    <3> QED
      BY <3>1, <3>3, <3>5
  <2> HIDE DEF x
  <2> QED
    BY <1>1, <2>1, <2>2 DEF AdmissionInv, Types
<1> HIDE DEF r
<1>5. Types'
  BY <1>2, <1>3, <1>4 DEF AdmissionInv, Types, Money
<1>6. \A b \in Agents : PlacedAt(b)'
  BY <1>3 DEF AdmissionInv, PlacedAt, Waiting, InBudget, InLease
<1>7. Scoped'
  <2>1. \A q \in Roots : roots'[q].scope = roots[q].scope
    BY <1>1, <1>4
  <2>2. lock' = lock /\ created' = created /\ agent'[a].at \notin InBudget
    BY <1>2, <1>3 DEF Money, InBudget
  <2> QED
    BY <1>3, <2>1, <2>2, AdmissionAssumption DEF AdmissionInv, Scoped, InBudget
<1>8. /\ \A i \in 1..Len(waiters) : waiters[i] # a
      /\ waiters \in Seq(Agents) /\ Distinct(waiters)
  BY <1>2 DEF AdmissionInv, Queue
<1>9. Queue'
  <2>1. /\ waiters' \in Seq(Agents) /\ Distinct(waiters')
        /\ \A b : (\E i \in 1..Len(waiters') : waiters'[i] = b) <=> (b = a \/ \E i \in 1..Len(waiters) : waiters[i] = b)
    BY <1>2, <1>8, AppendQueue
  <2>2. Distinct(waiters)'
    BY <2>1 DEF Distinct
  <2> QED
    BY <1>2, <1>3, <2>1, <2>2 DEF AdmissionInv, Queue
<1>10. Counted'
  <2>1. ASSUME NEW q \in Roots
        PROVE  Cardinality(Occupants(q, Everyone)')
                 = Cardinality(Occupants(q, Everyone)) + (IF q = r THEN 1 ELSE 0)
    BY <1>2, <1>3, PhaseMoves DEF Everyone, r
  <2>5. ASSUME NEW q \in Roots
        PROVE  Cardinality(Occupants(q, {"Waiting", "Admitted", "Queued"})')
                 = Cardinality(Occupants(q, {"Waiting", "Admitted", "Queued"})) + (IF q = r THEN 1 ELSE 0)
    BY <1>2, <1>3, PhaseMoves DEF r
  <2>6. ASSUME NEW q \in Roots
        PROVE  Cardinality(Occupants(q, {"Running"})') = Cardinality(Occupants(q, {"Running"}))
    BY <1>2, <1>3, PhaseMoves
  <2>2. Cardinality(Holders(Slotted)') = Cardinality(Holders(Slotted))
    BY <1>2, <1>3, PhaseMoves DEF Slotted
  <2>3. \A q \in Roots : roots[q] \in RootState
    BY DEF AdmissionInv, Types
  <2>4. config.resident \in Nat /\ config.queued \in Nat
    BY Limits DEF AdmissionInv
  <2>7. slots' = Cardinality(Holders(Slotted)') /\ slots' <= config.running'
    BY <1>2, <2>2 DEF AdmissionInv, Counted
  <2>8. ASSUME NEW q \in Roots
        PROVE  /\ roots'[q].resident = Cardinality(Occupants(q, Everyone)')
               /\ roots'[q].queued = Cardinality(Occupants(q, {"Waiting", "Admitted", "Queued"})')
               /\ roots'[q].running = Cardinality(Occupants(q, {"Running"})')
               /\ roots'[q].resident <= config'.resident /\ roots'[q].queued <= config'.queued
    <3>1. /\ roots[q].resident = Cardinality(Occupants(q, Everyone))
          /\ roots[q].queued = Cardinality(Occupants(q, {"Waiting", "Admitted", "Queued"}))
          /\ roots[q].running = Cardinality(Occupants(q, {"Running"}))
          /\ roots[q].resident <= config.resident /\ roots[q].queued <= config.queued
          /\ roots[q].resident \in Nat /\ roots[q].queued \in Nat /\ roots[q].running \in Nat
          /\ config' = config
      BY <1>2, <2>3 DEF AdmissionInv, Counted, RootState
    <3>2. CASE q = r
      BY <1>2, <1>4, <2>1, <2>4, <2>5, <2>6, <3>1, <3>2
    <3>3. CASE q # r
      BY <1>4, <2>1, <2>5, <2>6, <3>1, <3>3
    <3> QED
      BY <3>2, <3>3
  <2> QED
    BY <2>7, <2>8 DEF Counted
<1>11. ReleaseNotMissed'
  <2>1. ASSUME NEW b \in Agents, agent'[b].at = "sleeping"
        PROVE  b # a /\ waiters # <<>>
    BY <1>3, <2>1 DEF AdmissionInv, PlacedAt, Queue, Waiting
  <2>2. waiters # <<>> => Head(waiters') = Head(waiters)
    BY <1>2, <1>8, AppendQueue
  <2> QED
    BY <1>2, <1>3, <2>1, <2>2 DEF AdmissionInv, ReleaseNotMissed
<1>12. ReservationHasOwner'
  BY <1>2, <1>3 DEF AdmissionInv, ReservationHasOwner, Money
<1> QED
  BY <1>5, <1>6, <1>7, <1>9, <1>10, <1>11, <1>12 DEF AdmissionInv

LEMMA AdmitInv ==
  ASSUME AdmissionInv, NEW a \in Agents, Admit(a)
  PROVE  AdmissionInv'
<1>1. /\ UNCHANGED <<config, roots, Money, faulted>> /\ waiters' = Tail(waiters) /\ slots' = slots + 1
      /\ agent[a].at = "locking" /\ agent[a].phase = "Waiting"
      /\ Head(waiters) = a /\ slots < config.running
  BY DEF Admit, MyTurn, AdmissionInv, PlacedAt, Waiting
<1>2. /\ agent' \in [Agents -> Agent] /\ \A b \in Agents \ {a} : agent'[b] = agent[b]
      /\ agent'[a].at = "admitted" /\ agent'[a].phase = "Admitted" /\ agent'[a].holds = agent[a].holds
  <2> DEFINE x == [agent[a] EXCEPT !.at = "admitted", !.phase = "Admitted", !.notified = FALSE]
  <2>1. agent' = [agent EXCEPT ![a] = x]
    BY DEF Admit
  <2>2. x \in Agent /\ x.at = "admitted" /\ x.phase = "Admitted" /\ x.holds = agent[a].holds
    BY DEF AdmissionInv, Types, Agent, At
  <2> HIDE DEF x
  <2> QED
    BY <2>1, <2>2 DEF AdmissionInv, Types
<1>3. Types'
  BY <1>1, <1>2 DEF AdmissionInv, Types, Money
<1>4. \A b \in Agents : PlacedAt(b)'
  BY <1>2 DEF AdmissionInv, PlacedAt, Waiting, InBudget, InLease
<1>5. Scoped'
  BY <1>1, <1>2 DEF AdmissionInv, Scoped, Money, InBudget
<1>6. waiters \in Seq(Agents) /\ Distinct(waiters) /\ waiters # <<>>
  BY <1>1 DEF AdmissionInv, Queue
<1>7. Queue'
  <2>1. /\ waiters' \in Seq(Agents) /\ Distinct(waiters')
        /\ \A b : (\E i \in 1..Len(waiters') : waiters'[i] = b) <=> (b # a /\ \E i \in 1..Len(waiters) : waiters[i] = b)
    BY <1>1, <1>6, TailQueue
  <2>2. Distinct(waiters)'
    BY <2>1 DEF Distinct
  <2> QED
    BY <1>2, <2>1, <2>2 DEF AdmissionInv, Queue
<1>8. Counted'
  <2>1. \A q \in Roots :
          /\ Cardinality(Occupants(q, Everyone)') = Cardinality(Occupants(q, Everyone))
          /\ Cardinality(Occupants(q, {"Waiting", "Admitted", "Queued"})')
               = Cardinality(Occupants(q, {"Waiting", "Admitted", "Queued"}))
          /\ Cardinality(Occupants(q, {"Running"})') = Cardinality(Occupants(q, {"Running"}))
    BY <1>1, <1>2, PhaseMoves DEF Everyone
  <2>2. Cardinality(Holders(Slotted)') = Cardinality(Holders(Slotted)) + 1
    BY <1>1, <1>2, PhaseMoves DEF Slotted
  <2>3. slots \in Nat /\ config.running \in Nat
    BY Limits DEF AdmissionInv, Types
  <2> QED
    BY <1>1, <2>1, <2>2, <2>3 DEF AdmissionInv, Counted
<1>9. ReleaseNotMissed'
  <2>1. slots' # 0
    BY <1>1 DEF AdmissionInv, Types
  <2> QED
    BY <1>1, <1>2, <2>1 DEF AdmissionInv, ReleaseNotMissed
<1>10. ReservationHasOwner'
  BY <1>1, <1>2 DEF AdmissionInv, ReservationHasOwner, Money
<1> QED
  BY <1>3, <1>4, <1>5, <1>7, <1>8, <1>9, <1>10 DEF AdmissionInv

LEMMA MarkRunningInv ==
  ASSUME AdmissionInv, NEW a \in Agents, MarkRunning(a)
  PROVE  AdmissionInv'
<1> DEFINE r == Root[a]
<1>1. r \in Roots /\ roots[r] \in RootState
  BY AdmissionAssumption DEF AdmissionInv, Types
<1>2. /\ UNCHANGED <<config, slots, waiters, Money, faulted>>
      /\ agent[a].at = "leased" /\ agent[a].phase = "Queued"
  BY DEF MarkRunning
<1>3. /\ agent' \in [Agents -> Agent] /\ \A b \in Agents \ {a} : agent'[b] = agent[b]
      /\ agent'[a].at = "leased" /\ agent'[a].phase = "Running" /\ agent'[a].holds = agent[a].holds
  BY DEF MarkRunning, AdmissionInv, Types, Agent
<1>4. /\ roots' \in [Roots -> RootState] /\ \A q \in Roots \ {r} : roots'[q] = roots[q]
      /\ roots'[r].resident = roots[r].resident /\ roots'[r].queued = Minus(roots[r].queued)
      /\ roots'[r].running = roots[r].running + 1 /\ roots'[r].scope = roots[r].scope
  BY <1>1 DEF MarkRunning, AdmissionInv, Types, RootState, Minus
<1> HIDE DEF r
<1>5. Types'
  BY <1>2, <1>3, <1>4 DEF AdmissionInv, Types, Money
<1>6. \A b \in Agents : PlacedAt(b)'
  BY <1>3 DEF AdmissionInv, PlacedAt, Waiting, InBudget, InLease
<1>7. Scoped'
  <2>1. \A q \in Roots : roots'[q].scope = roots[q].scope
    BY <1>1, <1>4
  <2>2. lock' = lock /\ created' = created /\ agent'[a].at \notin InBudget
    BY <1>2, <1>3 DEF Money, InBudget
  <2> QED
    BY <1>3, <2>1, <2>2, AdmissionAssumption DEF AdmissionInv, Scoped, InBudget
<1>8. Queue'
  BY <1>2, <1>3 DEF AdmissionInv, Queue
<1>9. Counted'
  <2>1. ASSUME NEW q \in Roots
        PROVE  /\ Cardinality(Occupants(q, Everyone)') = Cardinality(Occupants(q, Everyone))
               /\ Cardinality(Occupants(q, {"Waiting", "Admitted", "Queued"})')
                    = Cardinality(Occupants(q, {"Waiting", "Admitted", "Queued"})) - (IF q = r THEN 1 ELSE 0)
               /\ q = r => Cardinality(Occupants(q, {"Waiting", "Admitted", "Queued"})) # 0
               /\ Cardinality(Occupants(q, {"Running"})')
                    = Cardinality(Occupants(q, {"Running"})) + (IF q = r THEN 1 ELSE 0)
    BY <1>2, <1>3, PhaseMoves DEF Everyone, r
  <2>2. Cardinality(Holders(Slotted)') = Cardinality(Holders(Slotted))
    BY <1>2, <1>3, PhaseMoves DEF Slotted
  <2>3. \A q \in Roots : roots[q] \in RootState
    BY DEF AdmissionInv, Types
  <2>4. config.resident \in Nat /\ config.queued \in Nat
    BY Limits DEF AdmissionInv
  <2> QED
    BY <1>1, <1>2, <1>4, <2>1, <2>2, <2>3, <2>4 DEF AdmissionInv, Counted, RootState, Minus
<1>10. ReleaseNotMissed' /\ ReservationHasOwner'
  BY <1>2, <1>3 DEF AdmissionInv, ReleaseNotMissed, ReservationHasOwner, Money
<1> QED
  BY <1>5, <1>6, <1>7, <1>8, <1>9, <1>10 DEF AdmissionInv

\* What was taken is given back, under the phase it was taken in.
LEMMA ReleaseInv ==
  ASSUME AdmissionInv, NEW a \in Agents, Release(a)
  PROVE  AdmissionInv'
<1> DEFINE r == Root[a]
           was == agent[a].phase
<1>1. r \in Roots /\ roots[r] \in RootState /\ was \in Everyone /\ agent[a].at = "releasing"
  BY AdmissionAssumption DEF AdmissionInv, Types, PlacedAt, Release, Agent, Everyone
<1>2. /\ UNCHANGED <<config, Money, faulted>> /\ waiters' = Leave(waiters, a)
      /\ slots' = IF was = "Waiting" THEN slots ELSE Minus(slots)
  BY DEF Release
<1>3. /\ agent' \in [Agents -> Agent]
      /\ \A b \in Agents \ {a} : agent'[b].at = agent[b].at /\ agent'[b].phase = agent[b].phase
      /\ \A b \in Agents : agent'[b].holds = agent[b].holds
      /\ agent'[a].at = "notifying" /\ agent'[a].phase = "Closed"
  <2> DEFINE x == [agent[a] EXCEPT !.at = "notifying", !.phase = "Closed"]
             y(b) == [agent[b] EXCEPT !.since = @ \/ agent[b].at = "sleeping"]
  <2>1. agent' = [b \in Agents |-> IF b = a THEN x ELSE y(b)]
    BY DEF Release
  <2>2. x \in Agent /\ x.at = "notifying" /\ x.phase = "Closed" /\ x.holds = agent[a].holds
    BY DEF AdmissionInv, Types, Agent, At
  <2>3. \A b \in Agents : /\ y(b) \in Agent /\ y(b).at = agent[b].at /\ y(b).phase = agent[b].phase
                          /\ y(b).holds = agent[b].holds
    BY DEF AdmissionInv, Types, Agent
  <2> HIDE DEF x, y
  <2> QED
    BY <2>1, <2>2, <2>3
<1>4. /\ roots' \in [Roots -> RootState] /\ \A q \in Roots \ {r} : roots'[q] = roots[q]
      /\ roots'[r].resident = Minus(roots[r].resident)
      /\ roots'[r].queued = IF was = "Running" THEN roots[r].queued ELSE Minus(roots[r].queued)
      /\ roots'[r].running = IF was = "Running" THEN Minus(roots[r].running) ELSE roots[r].running
      /\ roots'[r].scope = roots[r].scope
  <2>1. roots' = [roots EXCEPT ![r] = Less(r, was)]
    BY DEF Release
  <2>2. /\ Less(r, was) \in RootState
        /\ Less(r, was).resident = Minus(roots[r].resident)
        /\ Less(r, was).queued = IF was = "Running" THEN roots[r].queued ELSE Minus(roots[r].queued)
        /\ Less(r, was).running = IF was = "Running" THEN Minus(roots[r].running) ELSE roots[r].running
        /\ Less(r, was).scope = roots[r].scope
    <3>1. /\ Minus(roots[r].resident) \in Nat /\ Minus(roots[r].queued) \in Nat
          /\ Minus(roots[r].running) \in Nat
      BY <1>1 DEF RootState, Minus
    <3> QED
      BY <1>1, <3>1 DEF Less, RootState
  <2> QED
    BY <1>1, <2>1, <2>2 DEF AdmissionInv, Types
<1> HIDE DEF r, was
<1>5. Types'
  BY <1>2, <1>3, <1>4 DEF AdmissionInv, Types, Money, Minus
<1>6. \A b \in Agents : PlacedAt(b)'
  BY <1>3 DEF AdmissionInv, PlacedAt, Waiting, InBudget, InLease
<1>7. Scoped'
  <2>1. \A q \in Roots : roots'[q].scope = roots[q].scope
    BY <1>1, <1>4
  <2>2. lock' = lock /\ created' = created /\ agent'[a].at \notin InBudget
    BY <1>2, <1>3 DEF Money, InBudget
  <2> QED
    BY <1>3, <2>1, <2>2, AdmissionAssumption DEF AdmissionInv, Scoped, InBudget
<1>8. Queue'
  <2>1. /\ waiters' \in Seq(Agents) /\ Distinct(waiters')
        /\ \A b : (\E i \in 1..Len(waiters') : waiters'[i] = b) <=> (b # a /\ \E i \in 1..Len(waiters) : waiters[i] = b)
    <3>1. waiters \in Seq(Agents) /\ Distinct(waiters)
      BY DEF AdmissionInv, Queue
    <3>2. /\ Leave(waiters, a) \in Seq(Agents) /\ Distinct(Leave(waiters, a))
          /\ \A b : (\E i \in 1..Len(Leave(waiters, a)) : Leave(waiters, a)[i] = b)
                      <=> (b # a /\ \E i \in 1..Len(waiters) : waiters[i] = b)
      BY <3>1, LeaveQueue
    <3> QED
      BY <1>2, <3>2, Zenon
  <2>2. Distinct(waiters)'
    BY <2>1 DEF Distinct
  <2>3. ASSUME NEW b \in Agents
        PROVE  agent'[b].phase = "Waiting" <=> \E i \in 1..Len(waiters') : waiters'[i] = b
    <3>1. CASE b = a
      BY <1>3, <2>1, <3>1
    <3>2. CASE b # a
      <4>1. agent[b].phase = "Waiting" <=> \E i \in 1..Len(waiters) : waiters[i] = b
        BY DEF AdmissionInv, Queue
      <4>2. agent'[b].phase = agent[b].phase
        BY <1>3, <3>2
      <4> QED
        BY <2>1, <3>2, <4>1, <4>2, Zenon
    <3> QED
      BY <3>1, <3>2
  <2> QED
    BY <2>1, <2>2, <2>3 DEF Queue
<1>9. Counted'
  <2>1. ASSUME NEW q \in Roots
        PROVE  /\ Cardinality(Occupants(q, Everyone)')
                    = Cardinality(Occupants(q, Everyone)) - (IF q = r THEN 1 ELSE 0)
               /\ q = r => Cardinality(Occupants(q, Everyone)) # 0
    BY <1>1, <1>3, PhaseMoves DEF Everyone, r, was
  <2>2. ASSUME NEW q \in Roots
        PROVE  /\ Cardinality(Occupants(q, {"Waiting", "Admitted", "Queued"})')
                    = Cardinality(Occupants(q, {"Waiting", "Admitted", "Queued"}))
                        - (IF q = r /\ was # "Running" THEN 1 ELSE 0)
               /\ q = r /\ was # "Running" => Cardinality(Occupants(q, {"Waiting", "Admitted", "Queued"})) # 0
    BY <1>1, <1>3, PhaseMoves DEF Everyone, r, was
  <2>3. ASSUME NEW q \in Roots
        PROVE  /\ Cardinality(Occupants(q, {"Running"})')
                    = Cardinality(Occupants(q, {"Running"})) - (IF q = r /\ was = "Running" THEN 1 ELSE 0)
               /\ q = r /\ was = "Running" => Cardinality(Occupants(q, {"Running"})) # 0
    BY <1>1, <1>3, PhaseMoves DEF Everyone, r, was
  <2>4. /\ Cardinality(Holders(Slotted)')
             = Cardinality(Holders(Slotted)) - (IF was # "Waiting" THEN 1 ELSE 0)
        /\ was # "Waiting" => Cardinality(Holders(Slotted)) # 0
    BY <1>1, <1>3, PhaseMoves DEF Slotted, Everyone, was
  <2>5. \A q \in Roots : roots[q] \in RootState
    BY DEF AdmissionInv, Types
  <2>6. config.resident \in Nat /\ config.queued \in Nat /\ config.running \in Nat /\ slots \in Nat
    BY Limits DEF AdmissionInv, Types
  <2>7. slots' = Cardinality(Holders(Slotted)') /\ slots' <= config.running'
    BY <1>2, <2>4, <2>6 DEF AdmissionInv, Counted, Minus
  <2> QED
    BY <1>1, <1>2, <1>4, <2>1, <2>2, <2>3, <2>5, <2>6, <2>7 DEF AdmissionInv, Counted, RootState, Minus
<1>10. ReleaseNotMissed'
  BY <1>3 DEF ReleaseNotMissed
<1>11. ReservationHasOwner'
  BY <1>1, <1>2, <1>3 DEF AdmissionInv, ReservationHasOwner, Money
<1> QED
  BY <1>5, <1>6, <1>7, <1>8, <1>9, <1>10, <1>11 DEF AdmissionInv

-----------------------------------------------------------------------------
(* The theorems. *)

LEMMA InitInv == Init => AdmissionInv
<1> SUFFICES ASSUME Init PROVE AdmissionInv
  OBVIOUS
<1>1. Types
  BY DEF Init, Types, Agent, At, RootState
<1>2. (\A a \in Agents : PlacedAt(a)) /\ Scoped
  BY DEF Init, PlacedAt, Scoped, Waiting, InBudget, InLease
<1>3. Queue
  BY DEF Init, Queue, Distinct
<1>4. Counted
  <2>1. Holders(Slotted) = {} /\ \A r : Occupants(r, Everyone) = {} /\ Occupants(r, {"Running"}) = {}
                                       /\ Occupants(r, {"Waiting", "Admitted", "Queued"}) = {}
    BY DEF Init, Holders, Occupants, Slotted, Everyone
  <2> QED
    <3>1. config.resident \in Nat /\ config.queued \in Nat /\ config.running \in Nat
      BY <1>1, Limits
    <3>2. slots = 0 /\ \A r \in Roots : roots[r].resident = 0 /\ roots[r].queued = 0 /\ roots[r].running = 0
      BY DEF Init
    <3>3. Cardinality({}) = 0
      BY FS_EmptySet
    <3> QED
      BY <2>1, <3>1, <3>2, <3>3 DEF Counted
<1>5. ReleaseNotMissed /\ ReservationHasOwner
  BY DEF Init, ReleaseNotMissed, ReservationHasOwner
<1> QED
  BY <1>1, <1>2, <1>3, <1>4, <1>5 DEF AdmissionInv

LEMMA NextInv == AdmissionInv /\ [Next]_vars => AdmissionInv'
<1> SUFFICES ASSUME AdmissionInv, [Next]_vars PROVE AdmissionInv'
  OBVIOUS
<1>1. CASE UNCHANGED vars
  <2>1. Queue' /\ Counted'
    BY <1>1, BooksKept DEF AdmissionInv, vars
  <2> QED
    BY <1>1, <2>1 DEF AdmissionInv, vars, Types, PlacedAt, Scoped, ReleaseNotMissed, ReservationHasOwner
<1>2. ASSUME NEW a \in Agents, Waits(a) \/ Reserves(a) \/ GiveUp(a) \/ Leases(a) \/ Answers(a) \/ DropLease(a) \/ Leaves(a)
      PROVE  AdmissionInv'
  BY <1>2, MovesInv, EnterInv, AdmitInv, CreateRootInv, ReserveChildInv, MarkRunningInv, EndsInv, ReleaseInv,
     NotifyWaitersInv, StrayRevokeInv
     DEF Waits, Reserves, Leases, Answers, Leaves, Moves, Ends
<1> QED
  BY <1>1, <1>2 DEF Next

\* The queue, the phases of the agents, the reservation lock and the counters agree
\* in every reachable state of the admission.
THEOREM AdmissionCoherent == Spec => []AdmissionInv
BY InitInv, NextInv, PTL DEF Spec

\* The counters of every root, the running slots and the queue are what live agents
\* occupy, within their limits, whatever times out, fails or is dropped, and the agents
\* of a root share one budget scope.
THEOREM BooksAlwaysBalance == Spec => []BooksBalance
<1>1. AdmissionInv => BooksBalance
  <2> SUFFICES ASSUME AdmissionInv PROVE BooksBalance
    OBVIOUS
  <2>1. Types /\ Counted /\ Scoped /\ Queue
    BY DEF AdmissionInv
  <2>2. \A r \in Roots : /\ roots[r] \in RootState
                        /\ Cardinality(Occupants(r, {"Running"})) <= Cardinality(Occupants(r, Everyone))
    <3> SUFFICES ASSUME NEW r \in Roots
                 PROVE  /\ roots[r] \in RootState
                        /\ Cardinality(Occupants(r, {"Running"})) <= Cardinality(Occupants(r, Everyone))
      OBVIOUS
    <3>1. IsFiniteSet(Occupants(r, Everyone)) /\ Occupants(r, {"Running"}) \in SUBSET Occupants(r, Everyone)
      BY AdmissionAssumption, FS_Subset DEF Occupants, Everyone
    <3> QED
      BY <2>1, <3>1, FS_Subset DEF Types
  <2>3. TypeOK
    BY <2>1, <2>2, Limits DEF Types, Counted, TypeOK, RootState, Queue
  <2>4. ToSet(waiters) = {a \in Agents : agent[a].phase = "Waiting"}
    BY <2>1 DEF Queue, ToSet
  <2>5. Len(waiters) = Cardinality(ToSet(waiters))
    BY <2>1, DistinctCount DEF Queue
  <2> QED
    BY <2>1, <2>3, <2>4, <2>5 DEF BooksBalance, Counted, Scoped, Occupants, Holders, Everyone, Slotted
<1> QED
  BY <1>1, AdmissionCoherent, PTL

\* A release is never missed: a sleeper in whose sleep somebody left, and the head of
\* the queue of an idle system, has been notified or is about to be.
THEOREM NoReleaseIsMissed == Spec => []ReleaseNotMissed
<1>1. AdmissionInv => ReleaseNotMissed
  BY DEF AdmissionInv
<1> QED
  BY <1>1, AdmissionCoherent, PTL

\* An open budget reservation has an owner that will close it, unless its budget call
\* failed or its revoke was aborted.
THEOREM ReservationsHaveOwners == Spec => []ReservationHasOwner
<1>1. AdmissionInv => ReservationHasOwner
  BY DEF AdmissionInv
<1> QED
  BY <1>1, AdmissionCoherent, PTL
=============================================================================
