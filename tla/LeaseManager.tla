---------------------------- MODULE LeaseManager ----------------------------
(***************************************************************************)
(* The kernel's resource leases (crates/kernel/src/admission/lease.rs).    *)
(*                                                                         *)
(* Two maps behind two locks: `leases` holds the entry of each resource,   *)
(* `by_id` finds the resource of a lease.  acquire keeps the first lock to *)
(* its end and by_id only ever changes for identifiers that no other call  *)
(* touches meanwhile, so it is one step; its caller may be dropped where   *)
(* it waits for the second lock, between the two inserts.  release takes   *)
(* the by_id lock, gives it back, and then takes the other one: two steps. *)
(*                                                                         *)
(* The caller of acquire read the clock before (ProductionAdmission-       *)
(* Controller::admit does so first of all), so `now` may be stale when it  *)
(* is compared and when it is stored.  Nothing renews a lease and nothing  *)
(* tells a holder that its lease has expired.                              *)
(***************************************************************************)
EXTENDS Integers, FiniteSets

CONSTANTS Resources, \* resource names
          Leases,    \* lease identifiers, each granted at most once
          Callers,   \* tasks that acquire and release
          Durations, \* durations that a request may ask for
          MaxTime,   \* bound on the clock
          Nothing

ASSUME LeaseAssumption ==
  /\ Durations \subseteq Nat
  /\ MaxTime \in Nat
  /\ Nothing \notin Leases
  /\ Nothing \notin Resources

VARIABLES
  now,     \* the monotonic clock
  leases,  \* the entry of each resource
  byId,    \* by_id: the resource of each lease
  call,    \* what each caller is in the middle of
  grant,   \* what became of each lease identifier (history)
  late     \* did a call ever use a lease, or a clock, that was out of date? (history)

leaseVars == <<now, leases, byId, call, grant, late>>

Entry == [id: Leases \cup {Nothing}, acquired: Nat, duration: Nat]
Free == [id |-> Nothing, acquired |-> 0, duration |-> 0]

CallState == [at: {"idle", "acquire", "release"}, time: Nat,
              lease: Leases \cup {Nothing}, resource: Resources \cup {Nothing}]
Idle == [at |-> "idle", time |-> 0, lease |-> Nothing, resource |-> Nothing]
Acquiring(t) == [at |-> "acquire", time |-> t, lease |-> Nothing, resource |-> Nothing]
Releasing(l, r) == [at |-> "release", time |-> 0, lease |-> l, resource |-> r]

Grant == [status: {"unused", "held", "releasing", "released", "lost"},
          resource: Resources \cup {Nothing}, until: Nat]

\* u64::saturating_sub.
SaturatingSub(a, b) == IF a < b THEN 0 ELSE a - b

\* Mutant: the last time unit of a lease is given away.
UnexpiredShort(e, t) == e.id # Nothing /\ SaturatingSub(t, e.acquired) + 1 < e.duration

\* An entry keeps others out until its duration has elapsed on the clock that
\* the asking caller read.
Unexpired(e, t) == e.id # Nothing /\ SaturatingSub(t, e.acquired) < e.duration

\* is_leased: what the manager tells about a resource.
IsLeased(r) == Unexpired(leases[r], now)

LeaseInit ==
  /\ now = 0
  /\ leases = [r \in Resources |-> Free]
  /\ byId = [l \in Leases |-> Nothing]
  /\ call = [c \in Callers |-> Idle]
  /\ grant = [l \in Leases |-> [status |-> "unused", resource |-> Nothing, until |-> 0]]
  /\ late = FALSE

InUse(l) == grant[l].status \in {"held", "releasing"}

\* Time passes, for callers that have read the clock and for holders too.
Tick ==
  /\ now < MaxTime
  /\ now' = now + 1
  /\ late' = \/ late
             \/ \E c \in Callers : call[c].at = "acquire"
             \/ \E l \in Leases : InUse(l) /\ grant[l].until <= now + 1
  /\ UNCHANGED <<leases, byId, call, grant>>

\* The caller reads the clock that it will pass to acquire.
ReadClock(c) ==
  /\ call[c].at = "idle"
  /\ call' = [call EXCEPT ![c] = Acquiring(now)]
  /\ UNCHANGED <<now, leases, byId, grant, late>>

\* Mutant: the new lease is not entered in by_id.
AcquireUnindexed(c, r, d, l) ==
  /\ call[c].at = "acquire"
  /\ grant[l].status = "unused"
  /\ ~Unexpired(leases[r], call[c].time)
  /\ leases' = [leases EXCEPT ![r] = [id |-> l, acquired |-> call[c].time, duration |-> d]]
  /\ grant' = [grant EXCEPT ![l] =
                 [status |-> "held", resource |-> r, until |-> call[c].time + d]]
  /\ call' = [call EXCEPT ![c] = Idle]
  /\ late' = (late \/ d = 0)
  /\ UNCHANGED <<now, byId>>

\* acquire, granted: the resource is free or its entry has expired; an expired
\* entry also leaves by_id.
Acquire(c, r, d, l) ==
  /\ call[c].at = "acquire"
  /\ grant[l].status = "unused"
  /\ ~Unexpired(leases[r], call[c].time)
  /\ leases' = [leases EXCEPT ![r] = [id |-> l, acquired |-> call[c].time, duration |-> d]]
  /\ byId' = [i \in Leases |-> IF i = l THEN r ELSE
                               IF i = leases[r].id THEN Nothing ELSE byId[i]]
  /\ grant' = [grant EXCEPT ![l] =
                 [status |-> "held", resource |-> r, until |-> call[c].time + d]]
  /\ call' = [call EXCEPT ![c] = Idle]
  /\ late' = (late \/ d = 0)
  /\ UNCHANGED now

\* acquire, dropped after its first insert: the entry keeps others out until it
\* expires, nobody has its identifier, and by_id does not name it.
AcquireDropped(c, r, d, l) ==
  /\ call[c].at = "acquire"
  /\ grant[l].status = "unused"
  /\ ~Unexpired(leases[r], call[c].time)
  /\ leases' = [leases EXCEPT ![r] = [id |-> l, acquired |-> call[c].time, duration |-> d]]
  /\ byId' = [i \in Leases |-> IF i = leases[r].id THEN Nothing ELSE byId[i]]
  /\ grant' = [grant EXCEPT ![l] =
                 [status |-> "lost", resource |-> r, until |-> call[c].time + d]]
  /\ call' = [call EXCEPT ![c] = Idle]
  /\ UNCHANGED <<now, late>>

\* acquire, denied: LeaseUnavailable.
Deny(c, r) ==
  /\ call[c].at = "acquire"
  /\ Unexpired(leases[r], call[c].time)
  /\ call' = [call EXCEPT ![c] = Idle]
  /\ UNCHANGED <<now, leases, byId, grant, late>>

\* release, under the by_id lock.  A lease that an acquire has expired is no
\* longer there and the call ends.
ReleaseId(c, l) ==
  /\ call[c].at = "idle"
  /\ grant[l].status = "held"
  /\ byId' = [byId EXCEPT ![l] = Nothing]
  /\ IF byId[l] = Nothing
     THEN /\ grant' = [grant EXCEPT ![l].status = "released"]
          /\ UNCHANGED call
     ELSE /\ grant' = [grant EXCEPT ![l].status = "releasing"]
          /\ call' = [call EXCEPT ![c] = Releasing(l, byId[l])]
  /\ UNCHANGED <<now, leases, late>>

\* Mutant: release forgets the entry of the resource.
ReleaseIdOnly(c) ==
  /\ call[c].at = "release"
  /\ grant' = [grant EXCEPT ![call[c].lease].status = "released"]
  /\ call' = [call EXCEPT ![c] = Idle]
  /\ UNCHANGED <<now, leases, byId, late>>

\* release, under the leases lock: the entry of the resource goes, whosever
\* it is by now.
ReleaseResource(c) ==
  /\ call[c].at = "release"
  /\ leases' = [leases EXCEPT ![call[c].resource] = Free]
  /\ grant' = [grant EXCEPT ![call[c].lease].status = "released"]
  /\ call' = [call EXCEPT ![c] = Idle]
  /\ UNCHANGED <<now, byId, late>>

LeaseNext ==
  \/ Tick
  \/ \E c \in Callers : ReadClock(c)
  \/ \E c \in Callers, r \in Resources, d \in Durations, l \in Leases :
       Acquire(c, r, d, l) \/ AcquireDropped(c, r, d, l)
  \/ \E c \in Callers, r \in Resources : Deny(c, r)
  \/ \E c \in Callers, l \in Leases : ReleaseId(c, l)
  \/ \E c \in Callers : ReleaseResource(c)

LeaseSpec == LeaseInit /\ [][LeaseNext]_leaseVars

-----------------------------------------------------------------------------
\* The state of the model is well formed.
LeaseTypeOK ==
  /\ now \in Nat
  /\ leases \in [Resources -> Entry]
  /\ byId \in [Leases -> Resources \cup {Nothing}]
  /\ call \in [Callers -> CallState]
  /\ grant \in [Leases -> Grant]
  /\ late \in BOOLEAN

\* A lease whose release has returned keeps nobody out, although release
\* gives up its lock half way and an entry may have been replaced meanwhile: only
\* a lease in use, or one that a dropped acquire left to expire, is an entry.
ReleasedNeverBlocks ==
  \A r \in Resources :
     leases[r].id # Nothing => InUse(leases[r].id) \/ grant[leases[r].id].status = "lost"

\* Whoever holds the lease that an entry names can still give it back: by_id
\* leads to the entry until its release has begun.
EntryCanBeReleased ==
  \A r \in Resources :
     leases[r].id # Nothing /\ grant[leases[r].id].status = "held" => byId[leases[r].id] = r

\* The leases whose holders may use the resource at this moment.
Holders(r) ==
  {l \in Leases : grant[l].status = "held" /\ grant[l].resource = r /\ now < grant[l].until}

\* "only one lease per resource at a time" (the module's concurrency model).
Exclusive ==
  \A r \in Resources : \A l, m \in Holders(r) : l = m

\* The same as far as it is true: a resource has one holder as long as every
\* acquire has used the present time and every holder, of a lease that lasts at
\* all, has released it before it expired.
ExclusiveWhilePrompt == late \/ Exclusive
=============================================================================
