------------------------ MODULE KernelRuntimeProofs ------------------------
(***************************************************************************)
(* Proofs about KernelRuntime for any callers, processes and workloads,    *)
(* with every drop, panic and failed cleanup: the answers of               *)
(* terminate_process agree and restarts are bounded.  In quiet workloads a *)
(* process that is seen as terminal owns at most a space and strays.       *)
(***************************************************************************)
EXTENDS KernelRuntime, FiniteSetTheorems, TLAPS

\* Where a caller can be.
SpawnPlaces == {"inspect", "parent", "insert", "reserve", "note", "identity"}
TerminatePlaces == Things \cup {"mark", "marked", "supervise", "restart", "lineage", "restarted",
                                "finish", "settle"}
Places == SpawnPlaces \cup TerminatePlaces
            \cup {"idle", "panicked", "submit", "register", "enter", "forget", "unbind"}

Ids == Procs \cup {None}
Decisions == {"none", "DoNotRestart", "FailedLimitReached", "Restart"}
Outcomes == [reason : ExitReason \cup {"none"}, decision : Decisions, restarted : Ids]
Calls == [kind : {"none", "spawn", "submit", "register", "reap", "terminate"}, proc : Ids,
          agent : Agents \cup {None}, parent : Ids, existing : Ids, new : Ids, end : Outcomes]
Progresses == [reason : ExitReason \cup {"none"}, phase : Phases \cup {"none"}, decision : Decisions,
               restarted : Ids]
Records == [agent : Agents \cup {None}, parent : Ids,
            state : Terminal \cup {"none", "live", "reaped"}, exit : ExitReason \cup {"none"}]
Histories == [answers : SUBSET Outcomes, decisions : Nat, replacements : Nat, before : Nat,
              dropped : BOOLEAN, lost : BOOLEAN]

Types ==
  /\ work \in DOMAIN Workloads
  /\ pc \in [Callers -> Places]
  /\ call \in [Callers -> Calls]
  /\ lifecycle \in Callers \cup {None}
  /\ record \in [Procs -> Records]
  /\ byAgent \in [Agents -> Ids]
  /\ specs \in SUBSET Procs
  /\ progress \in [Procs -> Progresses]
  /\ outcome \in [Procs -> Outcomes]
  /\ policy \in [Procs -> {0, MaxRestarts}]
  /\ restarts \in [Procs -> 0..MaxRestarts]
  /\ owned \in [Procs -> SUBSET (Things \cup Strays)]
  /\ incidents \in 0..MaxIncidents
  /\ history \in [Procs -> Histories]

Ended(p) == record[p].state \in Terminal \cup {"reaped"}

\* Place and call of a caller belong together, and exactly the caller that
\* terminates a process holds the lock.
CallOK(c) ==
  /\ call[c].kind = "terminate" <=> lifecycle = c
  /\ pc[c] \in {"idle", "panicked"} => call[c] = NoCall
  /\ pc[c] \in TerminatePlaces => call[c].kind = "terminate"
  /\ pc[c] \in SpawnPlaces => call[c].kind \in {"spawn", "terminate"} /\ call[c].agent \in Agents
  /\ pc[c] \in {"submit", "register", "enter", "forget", "unbind"} => call[c].proc \in Procs
  /\ pc[c] \in {"forget", "unbind"} => record[call[c].proc].state = "reaped" /\ call[c].agent \in Agents
  /\ pc[c] \in {"reserve", "note", "identity", "lineage", "restarted"} => call[c].new \in Procs
  /\ call[c].parent # None => Forks

\* What the caller that holds the lock may rely on.  The entry of its process
\* goes only when a reaper takes it, and is in the phase of the place otherwise.
TermOK(c) ==
  LET p == call[c].proc
      new == call[c].new
      g == progress[p]
      h == history[p]
  IN  /\ p \in Procs /\ record[p].state # "none"
      /\ pc[c] \in TerminatePlaces \cup SpawnPlaces
      /\ pc[c] = "operation" => record[p].state = "reaped" \/ g.phase = "Cleanup"
      /\ pc[c] \in {"permit", "budget", "mailbox", "space"} =>
           /\ Live(p) \/ h.lost
           /\ g = NoProgress => ~Live(p)
           /\ g = NoProgress \/ g.phase = "Cleanup"
           /\ h.answers = {} /\ outcome[p] = NoOutcome
      /\ pc[c] = "mark" => g.phase = "MarkTerminal" \/ (g = NoProgress /\ record[p].state = "reaped")
      /\ pc[c] = "marked" => Ended(p) /\ (g = NoProgress \/ g.phase = "MarkTerminal")
      /\ pc[c] = "supervise" => Ended(p) /\ (g = NoProgress \/ g.phase = "Supervise")
      /\ pc[c] \in SpawnPlaces \cup {"restart", "lineage", "restarted", "finish"} =>
           Ended(p) /\ (g = NoProgress \/ g.phase = "Restart")
      /\ pc[c] = "settle" => /\ Ended(p) /\ g = NoProgress /\ call[c].end.reason # "none"
                             /\ call[c].end.reason = record[p].exit \/ h.lost
                             /\ h.answers = {} /\ outcome[p] = NoOutcome
      /\ pc[c] \notin {"reserve", "note", "identity", "lineage", "restarted", "finish", "settle"} => new = None
      /\ pc[c] \in {"inspect", "parent", "insert"} =>
           /\ h.before < restarts[p]
           /\ h.replacements = 0 \/ h.dropped \/ h.lost
      /\ pc[c] \in {"reserve", "note", "identity", "lineage"} =>
           /\ history[new].before = h.before + 1 /\ h.before < restarts[p]
           /\ progress[new] = NoProgress /\ record[new].state # "none"

\* Record, progress, outcome and history of a process fit together.
ProcOK(p) ==
  LET r == record[p]
      g == progress[p]
      o == outcome[p]
      h == history[p]
  IN  /\ r.state = "none" => r = NoRecord /\ g = NoProgress /\ h.before = 0 /\ policy[p] = 0
      /\ r.state # "none" => r.agent \in Agents /\ (r.parent # None => Forks)
      /\ r.state \in {"none", "live"} =>
           /\ r.exit = "none" /\ o = NoOutcome
           /\ h.answers = {} /\ h.decisions = 0 /\ h.replacements = 0 /\ ~h.lost /\ ~h.dropped
      /\ (g.reason = "none" \/ g.phase = "none") => g = NoProgress
      /\ o.reason = "none" => o = NoOutcome
      /\ g.phase = "Cleanup" => r.state \in {"live", "reaped"} \/ h.lost
      /\ g.phase \in {"Supervise", "Restart"} => Ended(p)
      /\ g.phase \in {"MarkTerminal", "Supervise", "Restart"} =>
           /\ h.answers = {} /\ o = NoOutcome
           /\ Live(p) \/ g.reason = r.exit \/ h.lost
      /\ o # NoOutcome => h.answers = {o} /\ g = NoProgress
      /\ (h.answers # {} /\ o = NoOutcome) => r.state = "reaped"
      /\ \A x, y \in h.answers : x = y
      /\ \A x \in h.answers : x.reason = r.exit \/ h.lost
      /\ g.phase \in {"MarkTerminal", "Supervise"} => (h.decisions = 0 /\ h.replacements = 0) \/ h.lost
      /\ h.decisions <= 1 \/ h.lost
      /\ h.replacements <= 1 \/ h.dropped \/ h.lost
      /\ h.before <= MaxRestarts
      /\ policy[p] # 0 => h.before <= restarts[p]
      /\ g.decision = "Restart" => h.before < restarts[p]

\* An end that is neither in progress nor kept, and a replacement that is not
\* noted, are in the hands of the caller that holds the lock, or a caller was
\* dropped with them.
LinkOK(p) ==
  /\ (record[p].state \in Terminal /\ progress[p] = NoProgress /\ outcome[p] = NoOutcome /\ ~history[p].lost) =>
       lifecycle \in Callers /\ pc[lifecycle] = "settle" /\ call[lifecycle].proc = p
  /\ (/\ progress[p].phase = "Restart" /\ progress[p].restarted = None
      /\ history[p].replacements # 0 /\ ~history[p].dropped /\ ~history[p].lost) =>
       lifecycle \in Callers /\ call[lifecycle].proc = p /\ call[lifecycle].new # None

RuntimeInv ==
  /\ Types
  /\ \A c \in Callers : CallOK(c)
  /\ lifecycle \in Callers => TermOK(lifecycle)
  /\ \A p \in Procs : ProcOK(p) /\ LinkOK(p)

\* What the cleanup has taken when it is at a thing.
Gone == [permit |-> {"operation"}, budget |-> {"operation", "permit"},
         mailbox |-> {"operation", "permit", "budget"},
         space |-> {"operation", "permit", "budget", "mailbox"}]

\* What can be left with a process in a quiet workload: the space that the
\* restart of a child gives to a parent whose cleanup is over.
Residue == IF Forks /\ MaxRestarts # 0 THEN {"space"} ELSE {}

Untouched(p) == progress[p] = NoProgress /\ (lifecycle \in Callers => call[lifecycle].proc # p)

\* In a quiet workload nobody is terminated while a caller uses it.
UseOK(c) ==
  /\ pc[c] \in {"submit", "register", "enter"} => Live(call[c].proc) /\ Untouched(call[c].proc)
  /\ pc[c] \in {"reserve", "note"} => Live(call[c].new) /\ Untouched(call[c].new)
  /\ (call[c].kind = "spawn" /\ call[c].parent # None) =>
       Untouched(call[c].parent) /\ (pc[c] = "insert" => Live(call[c].parent))
  /\ pc[c] \in DOMAIN Gone => owned[call[c].proc] \cap Gone[pc[c]] = {}

OwnOK(p) == (Ended(p) \/ progress[p].phase = "MarkTerminal") => owned[p] \subseteq Residue \cup Strays

QuietInv == Quiet => (\A c \in Callers : UseOK(c)) /\ (\A p \in Procs : OwnOK(p))

-----------------------------------------------------------------------------
(* The workload, the operators and the frame of a step. *)

\* A workload does not change; its numbers are numbers.
LEMMA WorkKept ==
  ASSUME Types, UNCHANGED work
  PROVE  /\ MaxRestarts \in Nat /\ Forks \in BOOLEAN /\ Quiet \in BOOLEAN
         /\ MaxRestarts' = MaxRestarts /\ Forks' = Forks /\ Quiet' = Quiet
         /\ 1..Workloads[work].procs \subseteq Procs
         /\ work' \in DOMAIN Workloads
BY RuntimeAssumption DEF Types, MaxRestarts, Forks, Quiet, Workload, Procs

\* The empty values are values.
LEMMA EmptyTypes ==
  /\ NoRecord \in Records /\ NoProgress \in Progresses /\ NoOutcome \in Outcomes /\ NoCall \in Calls
  /\ None \in Ids /\ None \notin Procs /\ None \notin Callers /\ None \notin Agents
BY RuntimeAssumption
   DEF NoRecord, NoProgress, NoOutcome, NoCall, Records, Progresses, Outcomes, Calls, Ids, Terminal,
       Decisions

LEMMA InitRuntime == Init => RuntimeInv
<1> SUFFICES ASSUME Init
             PROVE  RuntimeInv
  OBVIOUS
<1>1. MaxRestarts \in Nat
  BY RuntimeAssumption DEF Init, MaxRestarts, Workload
<1>2. \A p \in Procs : /\ record[p] = NoRecord /\ progress[p] = NoProgress /\ outcome[p] = NoOutcome
                       /\ policy[p] = 0 /\ restarts[p] = 0
                       /\ history[p] = [answers |-> {}, decisions |-> 0, replacements |-> 0, before |-> 0,
                                        dropped |-> FALSE, lost |-> FALSE]
  BY DEF Init
<1>3. \A c \in Callers : pc[c] = "idle" /\ call[c] = NoCall
  BY DEF Init
<1>4. Types
  <2>1. history \in [Procs -> Histories]
    BY DEF Init, Histories
  <2> QED
    BY <1>1, <2>1, EmptyTypes, RuntimeAssumption DEF Init, Types, Places
<1>5. \A c \in Callers : CallOK(c)
  BY <1>3, EmptyTypes DEF Init, CallOK, NoCall, SpawnPlaces, TerminatePlaces, Things
<1>6. \A p \in Procs : ProcOK(p) /\ LinkOK(p)
  <2> SUFFICES ASSUME NEW p \in Procs
               PROVE  ProcOK(p) /\ LinkOK(p)
    OBVIOUS
  <2>1. ProcOK(p)
    BY <1>1, <1>2 DEF ProcOK, NoRecord, NoProgress, NoOutcome, Live, Ended, Terminal
  <2>2. LinkOK(p)
    BY <1>2 DEF LinkOK, NoRecord, NoProgress, Terminal
  <2> QED
    BY <2>1, <2>2
<1> QED
  BY <1>4, <1>5, <1>6, EmptyTypes DEF Init, RuntimeInv

\* A caller that does not move keeps its place and call in order, whatever
\* else happens.
LEMMA CallFrame ==
  ASSUME NEW d \in Callers, CallOK(d), Types, UNCHANGED work,
         pc'[d] = pc[d], call'[d] = call[d], lifecycle' = d <=> lifecycle = d,
         \A p \in Procs : record[p].state = "reaped" => record'[p].state = "reaped"
  PROVE  CallOK(d)'
BY WorkKept DEF CallOK

\* A process whose entries do not change stays in order.
LEMMA ProcFrame ==
  ASSUME NEW p \in Procs, ProcOK(p), Types, UNCHANGED work,
         record'[p] = record[p], progress'[p] = progress[p], outcome'[p] = outcome[p],
         history'[p] = history[p], policy'[p] = policy[p], restarts'[p] = restarts[p]
  PROVE  ProcOK(p)'
BY WorkKept DEF ProcOK, Live, Ended

\* The caller that holds the lock is not disturbed by what others do.
LEMMA TermFrame ==
  ASSUME RuntimeInv, lifecycle' = lifecycle,
         \A d \in Callers : lifecycle = d => pc'[d] = pc[d] /\ call'[d] = call[d],
         \A p \in Procs : record[p].state # "none" =>
           /\ record'[p] = record[p] /\ progress'[p] = progress[p] /\ outcome'[p] = outcome[p]
           /\ history'[p] = history[p] /\ restarts'[p] = restarts[p],
         \A p \in Procs : progress'[p] = progress[p] /\ history'[p].before = history[p].before
  PROVE  lifecycle' \in Callers => TermOK(lifecycle)'
<1> SUFFICES ASSUME NEW c \in Callers, lifecycle = c
             PROVE  TermOK(c)'
  OBVIOUS
<1>1. TermOK(c) /\ pc'[c] = pc[c] /\ call'[c] = call[c] /\ call[c] \in Calls
  BY DEF RuntimeInv, Types
<1>2. call[c].new \in Procs \cup {None}
  BY <1>1 DEF Calls, Ids
<1>3. pc[c] \in {"reserve", "note", "identity", "lineage", "restarted"} => call[c].new \in Procs
  BY DEF RuntimeInv, CallOK
<1> QED
  BY <1>1, <1>2, <1>3 DEF TermOK, Live, Ended

\* Nothing is in other hands than before when the caller that holds the lock
\* does not move.
LEMMA LinkFrame ==
  ASSUME NEW p \in Procs, LinkOK(p), lifecycle' = lifecycle,
         \A d \in Callers : lifecycle = d => pc'[d] = pc[d] /\ call'[d] = call[d],
         record'[p].state = record[p].state, progress'[p] = progress[p], outcome'[p] = outcome[p],
         history'[p] = history[p]
  PROVE  LinkOK(p)'
BY DEF LinkOK

\* A caller without the lock moves and no process changes.
LEMMA BystanderStep ==
  ASSUME RuntimeInv, UNCHANGED work, Types', NEW c \in Callers, lifecycle # c, lifecycle' = lifecycle,
         \A d \in Callers \ {c} : pc'[d] = pc[d] /\ call'[d] = call[d],
         CallOK(c)', UNCHANGED <<record, progress, outcome, history, policy, restarts>>
  PROVE  RuntimeInv'
<1>1. Types /\ \A d \in Callers : lifecycle = d => pc'[d] = pc[d] /\ call'[d] = call[d]
  BY DEF RuntimeInv
<1>2. \A d \in Callers : CallOK(d)'
  <2> SUFFICES ASSUME NEW d \in Callers \ {c}
               PROVE  CallOK(d)'
    OBVIOUS
  <2>1. CallOK(d) /\ pc'[d] = pc[d] /\ call'[d] = call[d]
    BY DEF RuntimeInv
  <2> QED
    BY <1>1, <2>1, CallFrame
<1>3. lifecycle' \in Callers => TermOK(lifecycle)'
  BY <1>1, TermFrame
<1>4. \A p \in Procs : ProcOK(p)' /\ LinkOK(p)'
  <2> SUFFICES ASSUME NEW p \in Procs
               PROVE  ProcOK(p)' /\ LinkOK(p)'
    OBVIOUS
  <2>1. ProcOK(p) /\ LinkOK(p)
    BY DEF RuntimeInv
  <2> QED
    BY <1>1, <2>1, ProcFrame, LinkFrame
<1> QED
  BY <1>2, <1>3, <1>4 DEF RuntimeInv

\* No caller moves and no process changes.
LEMMA TableStep ==
  ASSUME RuntimeInv, UNCHANGED work, Types', UNCHANGED <<pc, call, lifecycle>>,
         UNCHANGED <<record, progress, outcome, history, policy, restarts>>
  PROVE  RuntimeInv'
<1>1. Types
  BY DEF RuntimeInv
<1>2. \A d \in Callers : CallOK(d)'
  BY <1>1, CallFrame DEF RuntimeInv
<1>3. lifecycle' \in Callers => TermOK(lifecycle)'
  BY TermFrame
<1>4. \A p \in Procs : ProcOK(p)' /\ LinkOK(p)'
  BY <1>1, ProcFrame, LinkFrame DEF RuntimeInv
<1> QED
  BY <1>2, <1>3, <1>4 DEF RuntimeInv

\* The caller that holds the lock moves and changes at most its process.
LEMMA HolderStep ==
  ASSUME RuntimeInv, UNCHANGED work, Types', NEW c \in Callers, lifecycle = c, lifecycle' = lifecycle,
         \A d \in Callers \ {c} : pc'[d] = pc[d] /\ call'[d] = call[d],
         call'[c].proc = call[c].proc,
         \A p \in Procs : record[p].state = "reaped" => record'[p].state = "reaped",
         \A p \in Procs \ {call[c].proc} :
           /\ record'[p] = record[p] /\ progress'[p] = progress[p] /\ outcome'[p] = outcome[p]
           /\ history'[p] = history[p] /\ policy'[p] = policy[p] /\ restarts'[p] = restarts[p],
         CallOK(c)', TermOK(c)', ProcOK(call[c].proc)', LinkOK(call[c].proc)'
  PROVE  RuntimeInv'
<1>1. Types
  BY DEF RuntimeInv
<1>2. \A d \in Callers : CallOK(d)'
  <2> SUFFICES ASSUME NEW d \in Callers \ {c}
               PROVE  CallOK(d)'
    OBVIOUS
  <2>1. CallOK(d) /\ pc'[d] = pc[d] /\ call'[d] = call[d]
    BY DEF RuntimeInv
  <2> QED
    BY <1>1, <2>1, CallFrame
<1>3. lifecycle' \in Callers => TermOK(lifecycle)'
  OBVIOUS
<1>4. \A p \in Procs : ProcOK(p)' /\ LinkOK(p)'
  <2> SUFFICES ASSUME NEW p \in Procs \ {call[c].proc}
               PROVE  ProcOK(p)' /\ LinkOK(p)'
    OBVIOUS
  <2>1. ProcOK(p) /\ LinkOK(p)
    BY DEF RuntimeInv
  <2>2. LinkOK(p)'
    BY <2>1 DEF LinkOK
  <2> QED
    BY <1>1, <2>1, <2>2, ProcFrame
<1> QED
  BY <1>2, <1>3, <1>4 DEF RuntimeInv

\* The caller that holds the lock leaves with nothing in its hands.
LEMMA LeaveStep ==
  ASSUME RuntimeInv, UNCHANGED work, Types', NEW c \in Callers, lifecycle = c, lifecycle' = None,
         \A d \in Callers \ {c} : pc'[d] = pc[d] /\ call'[d] = call[d],
         pc'[c] \in {"idle", "panicked"}, call'[c] = NoCall,
         pc[c] # "settle", call[c].new = None \/ progress[call[c].proc] = NoProgress,
         UNCHANGED <<record, progress, outcome, history, policy, restarts>>
  PROVE  RuntimeInv'
<1>1. Types
  BY DEF RuntimeInv
<1>2. \A d \in Callers : CallOK(d)'
  <2> SUFFICES ASSUME NEW d \in Callers
               PROVE  CallOK(d)'
    OBVIOUS
  <2>1. CASE d # c
    <3>1. CallOK(d) /\ pc'[d] = pc[d] /\ call'[d] = call[d]
      BY <2>1 DEF RuntimeInv
    <3> QED
      BY <1>1, <2>1, <3>1, CallFrame, EmptyTypes
  <2>2. CASE d = c
    BY <2>2, EmptyTypes DEF CallOK, NoCall, TerminatePlaces, SpawnPlaces, Things
  <2> QED
    BY <2>1, <2>2
<1>3. ~ (lifecycle' \in Callers)
  BY EmptyTypes
<1>4. \A p \in Procs : ProcOK(p)' /\ LinkOK(p)'
  <2> SUFFICES ASSUME NEW p \in Procs
               PROVE  ProcOK(p)' /\ LinkOK(p)'
    OBVIOUS
  <2>1. ProcOK(p) /\ LinkOK(p)
    BY DEF RuntimeInv
  <2>2. LinkOK(p)'
    BY <2>1 DEF LinkOK, NoProgress
  <2> QED
    BY <1>1, <2>1, <2>2, ProcFrame
<1> QED
  BY <1>2, <1>3, <1>4 DEF RuntimeInv

-----------------------------------------------------------------------------
(* Steps of callers that do not hold the lock. *)

\* A caller that is idle has no call and no lock.
LEMMA IdleFree ==
  ASSUME RuntimeInv, NEW c \in Callers, pc[c] = "idle"
  PROVE  call[c] = NoCall /\ lifecycle # c
BY DEF RuntimeInv, CallOK, NoCall

\* A caller begins a call that needs no lock.
LEMMA BeginKeeps ==
  ASSUME RuntimeInv, UNCHANGED work, NEW c \in Callers,
         NEW l \in {"inspect", "submit", "register"}, NEW what \in Calls,
         Begin(c, l, what), what.kind # "terminate", what.parent # None => Forks,
         l = "inspect" => what.kind = "spawn" /\ what.agent \in Agents,
         l # "inspect" => what.proc \in Procs,
         UNCHANGED <<lifecycle, table, terminal, owned, incidents, history>>
  PROVE  RuntimeInv'
<1> USE DEF table, terminal
<1>1. Types /\ lifecycle # c
  BY IdleFree DEF RuntimeInv, Begin
<1>2. pc' = [pc EXCEPT ![c] = l] /\ call' = [call EXCEPT ![c] = what]
  BY DEF Begin, Goto
<1>3. Types'
  BY <1>1, <1>2, WorkKept DEF Types, Places, SpawnPlaces
<1>4. CallOK(c)'
  BY <1>1, <1>2, WorkKept DEF CallOK, Types, TerminatePlaces, SpawnPlaces, Things
<1>5. \A d \in Callers \ {c} : pc'[d] = pc[d] /\ call'[d] = call[d]
  BY <1>1, <1>2 DEF Types
<1> QED
  BY <1>1, <1>3, <1>4, <1>5, BystanderStep

\* A caller without the lock ends its call.
LEMMA EndKeeps ==
  ASSUME RuntimeInv, UNCHANGED work, NEW c \in Callers, lifecycle # c, End(c),
         byAgent' \in [Agents -> Ids], specs' \in SUBSET Procs, owned' \in [Procs -> SUBSET (Things \cup Strays)],
         incidents' \in 0..MaxIncidents,
         UNCHANGED <<record, terminal, history>>
  PROVE  RuntimeInv'
<1> USE DEF terminal
<1>1. Types /\ lifecycle' = lifecycle
  BY DEF RuntimeInv, End
<1>2. pc' = [pc EXCEPT ![c] = "idle"] /\ call' = [call EXCEPT ![c] = NoCall]
  BY DEF End
<1>3. Types'
  BY <1>1, <1>2, WorkKept, EmptyTypes DEF Types, Places
<1>4. CallOK(c)'
  BY <1>1, <1>2, WorkKept DEF CallOK, Types, NoCall, TerminatePlaces, SpawnPlaces, Things
<1>5. \A d \in Callers \ {c} : pc'[d] = pc[d] /\ call'[d] = call[d]
  BY <1>1, <1>2 DEF Types
<1> QED
  BY <1>1, <1>3, <1>4, <1>5, BystanderStep

\* A caller without the lock goes on with its call.
LEMMA MoveKeeps ==
  ASSUME RuntimeInv, UNCHANGED work, NEW c \in Callers, lifecycle # c, lifecycle' = lifecycle,
         NEW l \in Places, pc' = [pc EXCEPT ![c] = l], call' \in [Callers -> Calls], CallOK(c)',
         \A d \in Callers \ {c} : call'[d] = call[d],
         owned' \in [Procs -> SUBSET (Things \cup Strays)], specs' \in SUBSET Procs, byAgent' \in [Agents -> Ids],
         UNCHANGED <<record, terminal, incidents, history>>
  PROVE  RuntimeInv'
<1> USE DEF terminal
<1>1. Types
  BY DEF RuntimeInv
<1>2. Types'
  BY <1>1, WorkKept DEF Types
<1>3. \A d \in Callers \ {c} : pc'[d] = pc[d] /\ call'[d] = call[d]
  BY <1>1 DEF Types
<1> QED
  BY <1>2, <1>3, BystanderStep

LEMMA SpawnKeeps ==
  ASSUME RuntimeInv, UNCHANGED work, NEW c \in Callers, NEW a \in Agents, NEW p \in Procs \cup {None},
         Spawn(c, a, p)
  PROVE  RuntimeInv'
<1> DEFINE what == [Spawning(a) EXCEPT !.parent = p]
<1>1. byAgent[a] \in Ids
  BY DEF RuntimeInv, Types
<1>2. /\ what \in Calls /\ what.kind = "spawn" /\ what.agent = a /\ what.parent = p
      /\ p # None => Forks
  BY <1>1, EmptyTypes DEF Spawn, Spawning, NoCall, Calls, Ids
<1>3. /\ Begin(c, "inspect", what)
      /\ UNCHANGED <<lifecycle, table, terminal, owned, incidents, history>>
  BY DEF Spawn
<1> HIDE DEF what
<1> QED
  BY <1>2, <1>3, BeginKeeps

LEMMA SubmitKeeps ==
  ASSUME RuntimeInv, UNCHANGED work, NEW c \in Callers, NEW p \in Procs,
         Submit(c, p) \/ RegisterMailbox(c, p)
  PROVE  RuntimeInv'
<1> DEFINE whatS == [NoCall EXCEPT !.kind = "submit", !.proc = p]
           whatR == [NoCall EXCEPT !.kind = "register", !.proc = p]
<1>1. /\ whatS \in Calls /\ whatS.kind = "submit" /\ whatS.proc = p /\ whatS.parent = None
      /\ whatR \in Calls /\ whatR.kind = "register" /\ whatR.proc = p /\ whatR.parent = None
  BY EmptyTypes DEF NoCall, Calls, Ids
<1>2. CASE Submit(c, p)
  <2>1. /\ Begin(c, "submit", whatS)
        /\ UNCHANGED <<lifecycle, table, terminal, owned, incidents, history>>
    BY <1>2 DEF Submit
  <2> HIDE DEF whatS
  <2> QED
    BY <1>1, <2>1, BeginKeeps
<1>3. CASE RegisterMailbox(c, p)
  <2>1. /\ Begin(c, "register", whatR)
        /\ UNCHANGED <<lifecycle, table, terminal, owned, incidents, history>>
    BY <1>3 DEF RegisterMailbox
  <2> HIDE DEF whatR
  <2> QED
    BY <1>1, <2>1, BeginKeeps
<1> QED
  BY <1>2, <1>3

\* What a process gains or loses has no part in this invariant.
LEMMA GiveKeeps ==
  ASSUME RuntimeInv, UNCHANGED work, NEW p \in Procs, NEW thing \in Things,
         Give(p, thing) \/ Take(p, thing)
  PROVE  RuntimeInv'
<1> USE DEF table, terminal
<1>1. owned' \in [Procs -> SUBSET (Things \cup Strays)]
  BY DEF RuntimeInv, Types, Give, Take, Gain, Lose
<1>2. UNCHANGED <<pc, call, lifecycle, table, terminal, incidents, history>>
  BY DEF Give, Take
<1>3. Types'
  BY <1>1, <1>2, WorkKept DEF RuntimeInv, Types
<1> QED
  BY <1>2, <1>3, TableStep

LEMMA SubmitInsertKeeps ==
  ASSUME RuntimeInv, UNCHANGED work, NEW c \in Callers, SubmitInsert(c) \/ RegisterEnter(c) \/ ReapUnbind(c)
  PROVE  RuntimeInv'
<1> USE DEF table, terminal
<1>1. lifecycle # c
  BY DEF RuntimeInv, CallOK, TermOK, SubmitInsert, RegisterEnter, ReapUnbind, SpawnPlaces, TerminatePlaces, Things
<1>2. owned' \in [Procs -> SUBSET (Things \cup Strays)]
  BY DEF RuntimeInv, Types, SubmitInsert, RegisterEnter, ReapUnbind, Gain, Things
<1>3. byAgent' \in [Agents -> Ids]
  BY DEF RuntimeInv, Types, SubmitInsert, RegisterEnter, ReapUnbind, Ids
<1>4. End(c) /\ UNCHANGED <<record, specs, terminal, incidents, history>>
  BY DEF SubmitInsert, RegisterEnter, ReapUnbind
<1> QED
  BY <1>1, <1>2, <1>3, <1>4, EndKeeps DEF RuntimeInv, Types

\* The mailbox service takes the mailbox, or refuses it.
LEMMA RegisterKeeps ==
  ASSUME RuntimeInv, UNCHANGED work, NEW c \in Callers, Register(c)
  PROVE  RuntimeInv'
<1> USE DEF table, terminal
<1>1. /\ Types /\ CallOK(c) /\ pc[c] = "register" /\ lifecycle # c
      /\ UNCHANGED <<table, terminal, owned, incidents, history>>
  BY DEF RuntimeInv, CallOK, TermOK, Register, SpawnPlaces, TerminatePlaces, Things
<1>2. CASE End(c)
  BY <1>1, <1>2, EndKeeps DEF Types
<1>3. CASE Goto(c, "enter") /\ UNCHANGED <<call, lifecycle>>
  <2>1. pc' = [pc EXCEPT ![c] = "enter"] /\ "enter" \in Places /\ pc'[c] = "enter"
    BY <1>1, <1>3 DEF Goto, Places, Types
  <2>2. CallOK(c)'
    BY <1>1, <1>3, <2>1, WorkKept DEF CallOK, SpawnPlaces, TerminatePlaces, Things
  <2> QED
    BY <1>1, <1>3, <2>1, <2>2, MoveKeeps DEF Types
<1> QED
  BY <1>2, <1>3 DEF Register

-----------------------------------------------------------------------------
(* Steps of the caller that holds the lock, and of spawn_process. *)

\* It leaves, with an error or in a panic, and has nothing in its hands.
LEMMA LeaveKeeps ==
  ASSUME RuntimeInv, UNCHANGED work, NEW c \in Callers, lifecycle = c, End(c) \/ Panic(c),
         pc[c] # "settle", call[c].new = None \/ progress[call[c].proc] = NoProgress,
         owned' \in [Procs -> SUBSET (Things \cup Strays)], incidents' \in 0..MaxIncidents,
         UNCHANGED <<table, terminal, history>>
  PROVE  RuntimeInv'
<1> USE DEF table, terminal
<1>1. Types /\ lifecycle' = None
  BY DEF RuntimeInv, End, Panic
<1>2. /\ call' = [call EXCEPT ![c] = NoCall]
      /\ pc' = [pc EXCEPT ![c] = "idle"] \/ pc' = [pc EXCEPT ![c] = "panicked"]
  BY DEF End, Panic
<1>3. Types'
  BY <1>1, <1>2, WorkKept, EmptyTypes DEF Types, Places
<1>4. /\ \A d \in Callers \ {c} : pc'[d] = pc[d] /\ call'[d] = call[d]
      /\ pc'[c] \in {"idle", "panicked"} /\ call'[c] = NoCall
  BY <1>1, <1>2 DEF Types
<1> QED
  BY <1>1, <1>3, <1>4, LeaveStep

\* It goes on and changes no process.
LEMMA HolderMove ==
  ASSUME RuntimeInv, UNCHANGED work, NEW c \in Callers, lifecycle = c, lifecycle' = lifecycle,
         NEW l \in Places, pc' = [pc EXCEPT ![c] = l], pc[c] # "settle",
         NEW what \in Calls, call' = [call EXCEPT ![c] = what],
         what.proc = call[c].proc, what.new = call[c].new, CallOK(c)', TermOK(c)',
         owned' \in [Procs -> SUBSET (Things \cup Strays)], specs' \in SUBSET Procs, byAgent' \in [Agents -> Ids],
         UNCHANGED <<record, terminal, incidents, history>>
  PROVE  RuntimeInv'
<1> USE DEF terminal
<1>1. Types
  BY DEF RuntimeInv
<1>2. Types'
  BY <1>1, WorkKept DEF Types
<1>3. /\ \A d \in Callers \ {c} : pc'[d] = pc[d] /\ call'[d] = call[d]
      /\ pc'[c] = l /\ call'[c] = what
  BY <1>1 DEF Types
<1>4. call[c].proc \in Procs
  BY DEF RuntimeInv, TermOK
<1>5. ProcOK(call[c].proc)'
  BY <1>1, <1>4, ProcFrame DEF RuntimeInv
<1>6. LinkOK(call[c].proc)'
  <2>1. LinkOK(call[c].proc)
    BY <1>4 DEF RuntimeInv
  <2> QED
    BY <1>3, <2>1 DEF LinkOK
<1> QED
  BY <1>2, <1>3, <1>5, <1>6, HolderStep

LEMMA InspectKeeps ==
  ASSUME RuntimeInv, UNCHANGED work, NEW c \in Callers, SpawnInspect(c)
  PROVE  RuntimeInv'
<1> USE DEF table, terminal
<1>1. Types /\ pc[c] = "inspect" /\ CallOK(c) /\ call[c] \in Calls
  BY DEF RuntimeInv, Types, SpawnInspect
<1>2. UNCHANGED <<table, terminal, owned, incidents, history>>
  BY DEF SpawnInspect
<1>3. lifecycle = c => TermOK(c) /\ call[c].new = None
  BY <1>1 DEF RuntimeInv, TermOK
<1>4. CASE End(c)
  <2>1. CASE lifecycle = c
    BY <1>1, <1>2, <1>3, <1>4, <2>1, LeaveKeeps DEF Types
  <2>2. CASE lifecycle # c
    BY <1>1, <1>2, <1>4, <2>2, EndKeeps DEF Types
  <2> QED
    BY <2>1, <2>2
<1>5. CASE /\ Goto(c, "parent")
           /\ call' = [call EXCEPT ![c].existing = None]
           /\ UNCHANGED lifecycle
  <2> DEFINE what == [call[c] EXCEPT !.existing = None]
  <2>1. /\ what \in Calls /\ call' = [call EXCEPT ![c] = what]
        /\ what.kind = call[c].kind /\ what.proc = call[c].proc /\ what.new = call[c].new
        /\ what.agent = call[c].agent /\ what.parent = call[c].parent /\ what.end = call[c].end
    BY <1>1, <1>5, EmptyTypes DEF Calls
  <2>2. pc' = [pc EXCEPT ![c] = "parent"] /\ "parent" \in Places
    BY <1>5 DEF Goto, Places, SpawnPlaces
  <2> HIDE DEF what
  <2>3. pc'[c] = "parent" /\ call'[c] = what /\ call' \in [Callers -> Calls]
        /\ \A d \in Callers \ {c} : call'[d] = call[d]
    BY <1>1, <2>1, <2>2 DEF Types
  <2>4. CallOK(c)'
    BY <1>1, <1>5, <2>1, <2>3, WorkKept DEF CallOK, SpawnPlaces, TerminatePlaces, Things
  <2>5. CASE lifecycle = c
    <3>1. TermOK(c)'
      BY <1>1, <1>2, <1>3, <2>1, <2>3, <2>5 DEF TermOK, SpawnPlaces, TerminatePlaces, Things, Live, Ended
    <3> QED
      BY <1>1, <1>2, <1>5, <2>1, <2>2, <2>4, <2>5, <3>1, HolderMove DEF Types
  <2>6. CASE lifecycle # c
    BY <1>1, <1>2, <1>5, <2>2, <2>3, <2>4, <2>6, MoveKeeps DEF Types
  <2> QED
    BY <2>5, <2>6
<1> QED
  BY <1>4, <1>5 DEF SpawnInspect

LEMMA ParentKeeps ==
  ASSUME RuntimeInv, UNCHANGED work, NEW c \in Callers, SpawnParent(c)
  PROVE  RuntimeInv'
<1> USE DEF table, terminal
<1>1. Types /\ pc[c] = "parent" /\ CallOK(c) /\ call[c] \in Calls
  BY DEF RuntimeInv, Types, SpawnParent
<1>2. UNCHANGED <<table, terminal, owned, incidents, history>>
  BY DEF SpawnParent
<1>3. lifecycle = c => TermOK(c) /\ call[c].new = None
  BY <1>1 DEF RuntimeInv, TermOK
<1>4. CASE End(c)
  <2>1. CASE lifecycle = c
    BY <1>1, <1>2, <1>3, <1>4, <2>1, LeaveKeeps DEF Types
  <2>2. CASE lifecycle # c
    BY <1>1, <1>2, <1>4, <2>2, EndKeeps DEF Types
  <2> QED
    BY <2>1, <2>2
<1>5. CASE Goto(c, "insert") /\ UNCHANGED <<call, lifecycle>>
  <2>1. pc' = [pc EXCEPT ![c] = "insert"] /\ "insert" \in Places
    BY <1>5 DEF Goto, Places, SpawnPlaces
  <2>2. pc'[c] = "insert" /\ call' = [call EXCEPT ![c] = call[c]]
    BY <1>1, <1>5, <2>1 DEF Types
  <2>3. CallOK(c)'
    BY <1>1, <1>5, <2>2, WorkKept DEF CallOK, SpawnPlaces, TerminatePlaces, Things
  <2>4. CASE lifecycle = c
    <3>1. TermOK(c)'
      BY <1>1, <1>2, <1>3, <1>5, <2>2, <2>4 DEF TermOK, SpawnPlaces, TerminatePlaces, Things, Live, Ended
    <3> QED
      BY <1>1, <1>2, <1>5, <2>1, <2>2, <2>3, <2>4, <3>1, HolderMove DEF Types
  <2>5. CASE lifecycle # c
    BY <1>1, <1>2, <1>5, <2>1, <2>3, <2>5, MoveKeeps DEF Types
  <2> QED
    BY <2>4, <2>5
<1> QED
  BY <1>4, <1>5 DEF SpawnParent

LEMMA BudgetKeeps ==
  ASSUME RuntimeInv, UNCHANGED work, NEW c \in Callers, SpawnBudget(c) \/ SpawnNote(c)
  PROVE  RuntimeInv'
<1> USE DEF table, terminal
<1>1. Types /\ pc[c] \in {"reserve", "note"} /\ CallOK(c) /\ call[c] \in Calls
  BY DEF RuntimeInv, Types, SpawnBudget, SpawnNote
<1>2. UNCHANGED <<call, lifecycle, table, terminal, incidents, history>>
  BY DEF SpawnBudget, SpawnNote
<1>3. PICK l \in {"note", "identity"} : pc' = [pc EXCEPT ![c] = l]
  BY DEF SpawnBudget, SpawnNote, Goto
<1>4. l \in Places /\ pc'[c] = l /\ call' = [call EXCEPT ![c] = call[c]]
  BY <1>1, <1>2, <1>3 DEF Types, Places, SpawnPlaces
<1>5. owned' \in [Procs -> SUBSET (Things \cup Strays)]
  BY <1>1 DEF SpawnBudget, SpawnNote, Gain, Types, Things
<1>6. CallOK(c)'
  BY <1>1, <1>2, <1>3, <1>4, WorkKept DEF CallOK, SpawnPlaces, TerminatePlaces, Things
<1>7. CASE lifecycle = c
  <2>1. TermOK(c)
    BY <1>7 DEF RuntimeInv
  <2>2. TermOK(c)'
    BY <1>1, <1>2, <1>3, <1>4, <2>1 DEF TermOK, SpawnPlaces, TerminatePlaces, Things, Live, Ended
  <2> QED
    BY <1>1, <1>2, <1>3, <1>4, <1>5, <1>6, <1>7, <2>2, HolderMove DEF Types
<1>8. CASE lifecycle # c
  BY <1>1, <1>2, <1>3, <1>4, <1>5, <1>6, <1>8, MoveKeeps DEF Types
<1> QED
  BY <1>7, <1>8

LEMMA IdentityKeeps ==
  ASSUME RuntimeInv, UNCHANGED work, NEW c \in Callers, SpawnIdentity(c)
  PROVE  RuntimeInv'
<1> USE DEF table, terminal
<1>1. Types /\ pc[c] = "identity" /\ CallOK(c) /\ call[c] \in Calls
  BY DEF RuntimeInv, Types, SpawnIdentity
<1>2. UNCHANGED <<record, terminal, owned, incidents, history>>
  BY DEF SpawnIdentity
<1>3. call[c].new \in Procs
  BY <1>1 DEF CallOK
<1>4. specs' \in SUBSET Procs /\ byAgent' \in [Agents -> Ids]
  BY <1>1, <1>3 DEF SpawnIdentity, Types, Ids
<1>5. CASE call[c].kind = "terminate"
  <2>1. lifecycle = c /\ TermOK(c)
    BY <1>1, <1>5 DEF RuntimeInv, CallOK
  <2>2. pc' = [pc EXCEPT ![c] = "lineage"] /\ "lineage" \in Places /\ UNCHANGED <<call, lifecycle>>
    BY <1>5 DEF SpawnIdentity, Goto, Places, TerminatePlaces
  <2>3. pc'[c] = "lineage" /\ call' = [call EXCEPT ![c] = call[c]]
    BY <1>1, <2>2 DEF Types
  <2>4. CallOK(c)'
    BY <1>1, <2>2, <2>3, <1>5, WorkKept DEF CallOK, SpawnPlaces, TerminatePlaces, Things
  <2>5. TermOK(c)'
    BY <1>1, <1>2, <2>1, <2>2, <2>3 DEF TermOK, SpawnPlaces, TerminatePlaces, Things, Live, Ended
  <2> QED
    BY <1>1, <1>2, <1>4, <2>1, <2>2, <2>3, <2>4, <2>5, HolderMove DEF Types
<1>6. CASE call[c].kind # "terminate"
  <2>1. lifecycle # c /\ End(c)
    BY <1>1, <1>6 DEF CallOK, SpawnIdentity
  <2> QED
    BY <1>1, <1>2, <1>4, <2>1, EndKeeps DEF Types
<1> QED
  BY <1>5, <1>6

LEMMA InsertKeeps ==
  ASSUME RuntimeInv, UNCHANGED work, NEW c \in Callers, SpawnInsert(c)
  PROVE  RuntimeInv'
<1> USE DEF table, terminal
<1>1. Types /\ pc[c] = "insert" /\ CallOK(c) /\ call[c] \in Calls
  BY DEF RuntimeInv, Types, SpawnInsert
<1>2. PICK new \in 1..Workloads[work].procs :
        /\ record[new] = NoRecord
        /\ record' = [record EXCEPT ![new] = [agent |-> call[c].agent, parent |-> call[c].parent,
                                              state |-> "live", exit |-> "none"]]
        /\ call' = [call EXCEPT ![c].new = new]
        /\ owned' = [p \in Procs |->
                      IF call[c].parent # None /\ p \in {new, call[c].parent}
                      THEN owned[p] \cup {"space"} ELSE owned[p]]
        /\ history' = IF call[c].kind = "terminate"
                      THEN [history EXCEPT ![Proc(c)].replacements = @ + 1,
                                           ![new].before = history[Proc(c)].before + 1]
                      ELSE history
  BY DEF SpawnInsert
<1>3. /\ pc' = [pc EXCEPT ![c] = "reserve"]
      /\ UNCHANGED <<lifecycle, byAgent, specs, terminal, incidents>>
  BY DEF SpawnInsert, Goto
<1>4. new \in Procs /\ ProcOK(new) /\ record[new].state = "none"
  BY <1>1, <1>2, WorkKept DEF RuntimeInv, NoRecord
<1> DEFINE what == [call[c] EXCEPT !.new = new]
           rec == [agent |-> call[c].agent, parent |-> call[c].parent, state |-> "live", exit |-> "none"]
<1>5. /\ what \in Calls /\ call' = [call EXCEPT ![c] = what]
      /\ what.kind = call[c].kind /\ what.proc = call[c].proc /\ what.new = new
      /\ what.agent = call[c].agent /\ what.parent = call[c].parent /\ what.end = call[c].end
  BY <1>1, <1>2, <1>4 DEF Calls, Ids
<1>6. /\ rec \in Records /\ record' = [record EXCEPT ![new] = rec]
      /\ rec.agent = call[c].agent /\ rec.parent = call[c].parent /\ rec.state = "live" /\ rec.exit = "none"
  BY <1>1, <1>2 DEF Calls, Records
<1> HIDE DEF what, rec
<1>7. /\ pc'[c] = "reserve" /\ call'[c] = what /\ record'[new] = rec
      /\ \A d \in Callers \ {c} : pc'[d] = pc[d] /\ call'[d] = call[d]
      /\ \A p \in Procs \ {new} : record'[p] = record[p]
  BY <1>1, <1>3, <1>4, <1>5, <1>6 DEF Types
<1>8. owned' \in [Procs -> SUBSET (Things \cup Strays)]
  BY <1>1, <1>2 DEF Types, Things
<1>9. CallOK(c)'
  BY <1>1, <1>3, <1>4, <1>5, <1>7, WorkKept DEF CallOK, SpawnPlaces, TerminatePlaces, Things
<1>10. \A d \in Callers : CallOK(d)'
  <2> SUFFICES ASSUME NEW d \in Callers \ {c}
               PROVE  CallOK(d)'
    BY <1>9
  <2>1. \A p \in Procs : record[p].state = "reaped" => record'[p].state = "reaped"
    BY <1>4, <1>7
  <2>2. CallOK(d) /\ pc'[d] = pc[d] /\ call'[d] = call[d]
    BY <1>7 DEF RuntimeInv
  <2> QED
    BY <1>1, <1>3, <2>1, <2>2, CallFrame
<1>11. CASE call[c].kind = "terminate"
  <2>1. lifecycle = c /\ TermOK(c)
    BY <1>1, <1>11 DEF RuntimeInv, CallOK
  <2>0. PICK p \in Procs : p = call[c].proc
    BY <2>1 DEF TermOK
  <2>2. /\ p \in Procs /\ p # new /\ record[p].state # "none" /\ Ended(p) /\ p # None
        /\ progress[p] = NoProgress \/ progress[p].phase = "Restart"
        /\ history[p].before < restarts[p]
        /\ history[p].replacements = 0 \/ history[p].dropped \/ history[p].lost
    BY <1>1, <1>4, <2>0, <2>1, EmptyTypes DEF TermOK, SpawnPlaces
  <2> DEFINE hp == [history[p] EXCEPT !.replacements = @ + 1]
             hn == [history[new] EXCEPT !.before = history[p].before + 1]
  <2>3. history[p] \in Histories /\ history[new] \in Histories /\ ProcOK(p) /\ LinkOK(p)
    BY <1>1, <1>4, <2>2 DEF Types, RuntimeInv
  <2>4. /\ hp \in Histories /\ hn \in Histories
        /\ hp.answers = history[p].answers /\ hp.decisions = history[p].decisions
        /\ hp.replacements = history[p].replacements + 1 /\ hp.before = history[p].before
        /\ hp.dropped = history[p].dropped /\ hp.lost = history[p].lost
        /\ hn.answers = history[new].answers /\ hn.decisions = history[new].decisions
        /\ hn.replacements = history[new].replacements /\ hn.before = history[p].before + 1
        /\ hn.dropped = history[new].dropped /\ hn.lost = history[new].lost
    BY <2>3 DEF Histories
  <2>5. history' = [history EXCEPT ![p] = hp, ![new] = hn]
    BY <1>1, <1>2, <1>4, <1>11, <2>0, <2>2 DEF Proc, Types
  <2> HIDE DEF hp, hn
  <2>6. /\ history'[p] = hp /\ history'[new] = hn /\ history' \in [Procs -> Histories]
        /\ \A q \in Procs \ {p, new} : history'[q] = history[q]
    BY <1>1, <1>4, <2>2, <2>4, <2>5 DEF Types
  <2>7. Types'
    BY <1>1, <1>3, <1>4, <1>5, <1>6, <1>8, <2>6, WorkKept DEF Types, Places, SpawnPlaces
  <2>8. restarts[p] \in 0..MaxRestarts /\ history[p].before \in Nat /\ history[p].replacements \in Nat
        /\ MaxRestarts \in Nat /\ restarts' = restarts /\ policy[new] \in {0, MaxRestarts}
    BY <1>1, <1>3, <2>2, <2>3, <1>4, WorkKept DEF Types, Histories
  <2>9. progress[new] = NoProgress /\ outcome[new] = NoOutcome /\ policy[new] = 0
    BY <1>4 DEF ProcOK
  <2>10. TermOK(c)'
    <3>1. /\ call'[c].proc = p /\ call'[c].new = new /\ pc'[c] = "reserve"
          /\ record'[p] = record[p] /\ progress'[p] = progress[p] /\ progress'[new] = NoProgress
          /\ record'[new].state = "live" /\ restarts'[p] = restarts[p]
          /\ history'[new].before = history'[p].before + 1 /\ history'[p].before < restarts[p]
      BY <1>3, <1>5, <1>6, <1>7, <2>0, <2>2, <2>4, <2>6, <2>9
    <3> QED
      BY <2>2, <3>1 DEF TermOK, SpawnPlaces, TerminatePlaces, Things, Live, Ended
  <2>11. ProcOK(p)'
    BY <1>3, <1>7, <2>2, <2>3, <2>4, <2>6, <2>8, WorkKept, <1>1 DEF ProcOK, Live, Ended, Terminal, NoProgress
  <2>12. LinkOK(p)'
    <3>1. record'[p] = record[p] /\ progress'[p] = progress[p] /\ outcome'[p] = outcome[p]
          /\ pc'[c] = "reserve" /\ call'[c].proc = p /\ call'[c].new # None /\ lifecycle' = c
      BY <1>3, <1>4, <1>5, <1>7, <2>0, <2>1, <2>2, EmptyTypes
    <3>2. ~ (record[p].state \in Terminal /\ progress[p] = NoProgress /\ outcome[p] = NoOutcome /\ ~history[p].lost)
      BY <1>1, <2>1, <2>3 DEF LinkOK
    <3> QED
      BY <2>4, <2>6, <3>1, <3>2 DEF LinkOK
  <2>13. ProcOK(new)' /\ LinkOK(new)'
    <3>1. /\ record'[new] = rec /\ progress'[new] = NoProgress /\ outcome'[new] = NoOutcome
          /\ policy'[new] = 0 /\ restarts' = restarts /\ MaxRestarts' = MaxRestarts /\ Forks' = Forks
      BY <1>1, <1>3, <1>7, <2>9, WorkKept
    <3>2. hn.answers = {} /\ hn.decisions = 0 /\ hn.replacements = 0 /\ ~hn.lost /\ ~hn.dropped
      BY <1>4, <2>4 DEF ProcOK
    <3>3. rec.agent \in Agents /\ (rec.parent # None => Forks)
      BY <1>1, <1>6 DEF CallOK, SpawnPlaces
    <3>4. hn.before <= MaxRestarts
      BY <2>2, <2>4, <2>8
    <3>5. ProcOK(new)'
      BY <1>6, <2>6, <3>1, <3>2, <3>3, <3>4 DEF ProcOK, NoProgress, NoOutcome, Live, Ended, Terminal
    <3>6. LinkOK(new)'
      BY <1>6, <3>1 DEF LinkOK, NoProgress, Terminal
    <3> QED
      BY <3>5, <3>6
  <2>14. \A q \in Procs \ {p, new} : ProcOK(q)' /\ LinkOK(q)'
    <3> SUFFICES ASSUME NEW q \in Procs \ {p, new}
                 PROVE  ProcOK(q)' /\ LinkOK(q)'
      OBVIOUS
    <3>1. ProcOK(q) /\ LinkOK(q)
      BY DEF RuntimeInv
    <3>2. /\ record'[q] = record[q] /\ progress'[q] = progress[q] /\ outcome'[q] = outcome[q]
          /\ history'[q] = history[q] /\ policy'[q] = policy[q] /\ restarts'[q] = restarts[q]
      BY <1>3, <1>7, <2>6
    <3>3. LinkOK(q)'
      BY <2>0, <2>1, <3>1, <3>2 DEF LinkOK
    <3> QED
      BY <1>1, <3>1, <3>2, <3>3, ProcFrame
  <2>15. \A q \in Procs : ProcOK(q)' /\ LinkOK(q)'
    BY <2>11, <2>12, <2>13, <2>14
  <2>16. lifecycle' \in Callers => TermOK(lifecycle)'
    BY <1>3, <2>1, <2>10
  <2> QED
    BY <1>10, <2>7, <2>15, <2>16 DEF RuntimeInv
<1>12. CASE call[c].kind # "terminate"
  <2>1. lifecycle # c /\ history' = history
    BY <1>1, <1>2, <1>12 DEF CallOK
  <2>2. Types'
    BY <1>1, <1>3, <1>4, <1>5, <1>6, <1>8, <2>1, WorkKept DEF Types, Places, SpawnPlaces
  <2>3. lifecycle' \in Callers => TermOK(lifecycle)'
    BY <1>3, <1>4, <1>7, <2>1, TermFrame
  <2>4. ProcOK(new)' /\ LinkOK(new)'
    <3>1. /\ progress'[new] = NoProgress /\ outcome'[new] = NoOutcome /\ history[new].before = 0
          /\ policy'[new] = 0 /\ MaxRestarts' = MaxRestarts /\ Forks' = Forks /\ MaxRestarts \in Nat
      BY <1>1, <1>3, <1>4, WorkKept DEF ProcOK
    <3>2. rec.agent \in Agents /\ (rec.parent # None => Forks)
      BY <1>1, <1>6 DEF CallOK, SpawnPlaces
    <3>3. ProcOK(new)'
      BY <1>4, <1>6, <1>7, <2>1, <3>1, <3>2 DEF ProcOK, NoProgress, NoOutcome, Live, Ended, Terminal
    <3>4. LinkOK(new)'
      BY <1>6, <1>7, <3>1 DEF LinkOK, NoProgress, Terminal
    <3> QED
      BY <3>3, <3>4
  <2>5. \A q \in Procs \ {new} : ProcOK(q)' /\ LinkOK(q)'
    <3> SUFFICES ASSUME NEW q \in Procs \ {new}
                 PROVE  ProcOK(q)' /\ LinkOK(q)'
      OBVIOUS
    <3>1. ProcOK(q) /\ LinkOK(q)
      BY DEF RuntimeInv
    <3>2. /\ record'[q] = record[q] /\ progress'[q] = progress[q] /\ outcome'[q] = outcome[q]
          /\ history'[q] = history[q] /\ policy'[q] = policy[q] /\ restarts'[q] = restarts[q]
      BY <1>3, <1>7, <2>1
    <3>3. LinkOK(q)'
      BY <1>3, <1>7, <2>1, <3>1, <3>2, LinkFrame
    <3> QED
      BY <1>1, <3>1, <3>2, <3>3, ProcFrame
  <2> QED
    BY <1>3, <1>10, <2>1, <2>2, <2>3, <2>4, <2>5 DEF RuntimeInv
<1> QED
  BY <1>11, <1>12

LEMMA SuperviseKeeps ==
  ASSUME RuntimeInv, UNCHANGED work, NEW p \in Procs, Supervise(p)
  PROVE  RuntimeInv'
<1> USE DEF table
<1>1. Types /\ MaxRestarts \in Nat /\ MaxRestarts' = MaxRestarts /\ Forks' = Forks
  BY WorkKept DEF RuntimeInv
<1>2. /\ UNCHANGED <<pc, call, lifecycle, table, progress, outcome, restarts, owned, incidents, history>>
      /\ policy' = [policy EXCEPT ![p] = MaxRestarts]
      /\ record[p].state # "none" /\ history[p].before = 0
  BY DEF Supervise, Known, Terminal
<1>3. Types'
  BY <1>1, <1>2, WorkKept DEF Types
<1>4. \A d \in Callers : CallOK(d)'
  BY <1>1, <1>2, CallFrame DEF RuntimeInv
<1>5. lifecycle' \in Callers => TermOK(lifecycle)'
  BY <1>2, TermFrame
<1>6. \A q \in Procs : LinkOK(q)'
  BY <1>2, LinkFrame DEF RuntimeInv
<1>7. ProcOK(p)'
  <2>1. ProcOK(p) /\ restarts[p] \in Nat /\ policy'[p] = MaxRestarts
    BY <1>1, <1>2 DEF RuntimeInv, Types
  <2> QED
    BY <1>1, <1>2, <2>1 DEF ProcOK, Live, Ended
<1>8. \A q \in Procs \ {p} : ProcOK(q)'
  <2>1. \A q \in Procs \ {p} : policy'[q] = policy[q]
    BY <1>1, <1>2 DEF Types
  <2> QED
    BY <1>1, <1>2, <2>1, ProcFrame DEF RuntimeInv
<1> QED
  BY <1>3, <1>4, <1>5, <1>6, <1>7, <1>8 DEF RuntimeInv

LEMMA ReapKeeps ==
  ASSUME RuntimeInv, UNCHANGED work, NEW c \in Callers, NEW p \in Procs, Reap(c, p)
  PROVE  RuntimeInv'
<1> USE DEF terminal
<1> DEFINE what == [NoCall EXCEPT !.kind = "reap", !.proc = p, !.agent = record[p].agent]
           rec == [record[p] EXCEPT !.state = "reaped"]
<1>1. Types /\ ProcOK(p) /\ LinkOK(p) /\ record[p] \in Records
  BY DEF RuntimeInv, Types
<1>2. /\ pc[c] = "idle" /\ pc' = [pc EXCEPT ![c] = "forget"] /\ call' = [call EXCEPT ![c] = what]
      /\ record' = [record EXCEPT ![p].state = "reaped"] /\ record[p].state \in Terminal
      /\ UNCHANGED <<lifecycle, byAgent, specs, terminal, owned, incidents, history>>
  BY DEF Reap, Begin, Goto
<1>3. record[p].agent \in Agents /\ lifecycle # c
  BY <1>1, <1>2, IdleFree DEF ProcOK, Terminal
<1>4. /\ what \in Calls /\ what.kind = "reap" /\ what.proc = p /\ what.agent \in Agents /\ what.parent = None
  BY <1>3, EmptyTypes DEF NoCall, Calls, Ids
<1>5. /\ rec \in Records /\ rec.state = "reaped" /\ rec.exit = record[p].exit /\ rec.agent = record[p].agent
      /\ rec.parent = record[p].parent /\ record' = [record EXCEPT ![p] = rec]
  BY <1>1, <1>2 DEF Records
<1> HIDE DEF what, rec
<1>6. /\ pc'[c] = "forget" /\ call'[c] = what /\ record'[p] = rec
      /\ \A d \in Callers \ {c} : pc'[d] = pc[d] /\ call'[d] = call[d]
      /\ \A q \in Procs \ {p} : record'[q] = record[q]
  BY <1>1, <1>2, <1>5 DEF Types
<1>7. Types'
  BY <1>1, <1>2, <1>4, <1>5, WorkKept DEF Types, Places
<1>8. \A d \in Callers : CallOK(d)'
  <2>1. CallOK(c)'
    BY <1>2, <1>3, <1>4, <1>5, <1>6 DEF CallOK, TerminatePlaces, SpawnPlaces, Things
  <2>2. \A q \in Procs : record[q].state = "reaped" => record'[q].state = "reaped"
    BY <1>5, <1>6
  <2>3. ASSUME NEW d \in Callers \ {c}
        PROVE  CallOK(d)'
    <3>1. CallOK(d) /\ pc'[d] = pc[d] /\ call'[d] = call[d]
      BY <1>6 DEF RuntimeInv
    <3> QED
      BY <1>1, <1>2, <2>2, <3>1, CallFrame
  <2> QED
    BY <2>1, <2>3
<1>9. lifecycle' \in Callers => TermOK(lifecycle)'
  <2> SUFFICES ASSUME NEW t \in Callers, lifecycle = t
               PROVE  TermOK(t)'
    BY <1>2
  <2>1. TermOK(t) /\ pc'[t] = pc[t] /\ call'[t] = call[t] /\ CallOK(t)
    BY <1>3, <1>6 DEF RuntimeInv
  <2>2. \A q \in Procs : /\ record[q].state # "none" => record'[q].state # "none"
                         /\ record'[q].exit = record[q].exit
                         /\ Live(q)' <=> Live(q)
                         /\ Ended(q) => Ended(q)'
                         /\ record[q].state = "reaped" => record'[q].state = "reaped"
    BY <1>2, <1>5, <1>6 DEF Live, Ended, Terminal
  <2> HIDE DEF Live, Ended
  <2>3. pc[t] \in {"reserve", "note", "identity", "lineage"} => call[t].new \in Procs
    BY <2>1 DEF CallOK
  <2> QED
    BY <1>2, <2>1, <2>2, <2>3, SMTT(30) DEF TermOK
<1>10. ProcOK(p)' /\ LinkOK(p)'
  <2>1. ProcOK(p)'
    BY <1>1, <1>2, <1>5, <1>6, WorkKept DEF ProcOK, Live, Ended, Terminal
  <2>2. LinkOK(p)'
    BY <1>1, <1>2, <1>3, <1>5, <1>6 DEF LinkOK, Terminal
  <2> QED
    BY <2>1, <2>2
<1>11. ASSUME NEW q \in Procs \ {p}
       PROVE  ProcOK(q)' /\ LinkOK(q)'
  <2>1. ProcOK(q) /\ LinkOK(q) /\ record'[q] = record[q]
    BY <1>6 DEF RuntimeInv
  <2>2. \A d \in Callers : lifecycle = d => pc'[d] = pc[d] /\ call'[d] = call[d]
    BY <1>3, <1>6
  <2> QED
    BY <1>1, <1>2, <2>1, <2>2, ProcFrame, LinkFrame
<1> QED
  BY <1>7, <1>8, <1>9, <1>10, <1>11 DEF RuntimeInv

LEMMA ForgetKeeps ==
  ASSUME RuntimeInv, UNCHANGED work, NEW c \in Callers, ReapForget(c)
  PROVE  RuntimeInv'
<1>1. Types /\ CallOK(c) /\ pc[c] = "forget"
  BY DEF RuntimeInv, ReapForget
<1>2. PICK p \in Procs : p = call[c].proc
  BY <1>1 DEF CallOK
<1>3. record[p].state = "reaped" /\ ProcOK(p) /\ LinkOK(p) /\ lifecycle # c
  BY <1>1, <1>2 DEF RuntimeInv, CallOK, TermOK, TerminatePlaces, SpawnPlaces, Things
<1>4. /\ specs' = specs \ {p} /\ progress' = [progress EXCEPT ![p] = NoProgress]
      /\ outcome' = [outcome EXCEPT ![p] = NoOutcome] /\ pc' = [pc EXCEPT ![c] = "unbind"]
      /\ UNCHANGED <<call, lifecycle, record, byAgent, policy, restarts, owned, incidents, history>>
  BY <1>2 DEF ReapForget, Goto, Proc
<1>5. /\ pc'[c] = "unbind" /\ progress'[p] = NoProgress /\ outcome'[p] = NoOutcome
      /\ \A d \in Callers \ {c} : pc'[d] = pc[d]
      /\ \A q \in Procs \ {p} : progress'[q] = progress[q] /\ outcome'[q] = outcome[q]
  BY <1>1, <1>4 DEF Types
<1>6. Types'
  BY <1>1, <1>4, WorkKept, EmptyTypes DEF Types, Places
<1>7. \A d \in Callers : CallOK(d)'
  <2>1. CallOK(c)'
    BY <1>1, <1>4, <1>5, WorkKept DEF CallOK, TerminatePlaces, SpawnPlaces, Things
  <2>2. ASSUME NEW d \in Callers \ {c}
        PROVE  CallOK(d)'
    <3>1. CallOK(d) /\ pc'[d] = pc[d] /\ call'[d] = call[d]
      BY <1>4, <1>5 DEF RuntimeInv
    <3> QED
      BY <1>1, <1>4, <3>1, CallFrame
  <2> QED
    BY <2>1, <2>2
<1>8. lifecycle' \in Callers => TermOK(lifecycle)'
  <2> SUFFICES ASSUME NEW t \in Callers, lifecycle = t
               PROVE  TermOK(t)'
    BY <1>4
  <2>1. TermOK(t) /\ pc'[t] = pc[t] /\ call'[t] = call[t] /\ CallOK(t)
    BY <1>3, <1>4, <1>5 DEF RuntimeInv
  <2>2. \A q \in Procs : \/ progress'[q] = progress[q] /\ outcome'[q] = outcome[q]
                         \/ progress'[q] = NoProgress /\ outcome'[q] = NoOutcome /\ record[q].state = "reaped"
    BY <1>3, <1>5
  <2>3. pc[t] \in {"reserve", "note", "identity", "lineage"} => call[t].new \in Procs
    BY <2>1 DEF CallOK
  <2> QED
    BY <1>4, <2>1, <2>2, <2>3, SMTT(30) DEF TermOK, Live, Ended
<1>9. ProcOK(p)' /\ LinkOK(p)'
  <2>1. ProcOK(p)'
    BY <1>1, <1>3, <1>4, <1>5, WorkKept DEF ProcOK, Live, Ended, Terminal, NoProgress, NoOutcome
  <2>2. LinkOK(p)'
    BY <1>3, <1>4, <1>5 DEF LinkOK, Terminal, NoProgress
  <2> QED
    BY <2>1, <2>2
<1>10. ASSUME NEW q \in Procs \ {p}
       PROVE  ProcOK(q)' /\ LinkOK(q)'
  <2>1. ProcOK(q) /\ LinkOK(q)
    BY DEF RuntimeInv
  <2>2. \A d \in Callers : lifecycle = d => pc'[d] = pc[d] /\ call'[d] = call[d]
    BY <1>3, <1>4, <1>5
  <2> QED
    BY <1>1, <1>4, <1>5, <2>1, <2>2, ProcFrame, LinkFrame
<1> QED
  BY <1>6, <1>7, <1>8, <1>9, <1>10 DEF RuntimeInv

-----------------------------------------------------------------------------
(* The steps of terminate_process. *)

\* The caller that holds the lock, its process and what is known of both.
LEMMA Holder ==
  ASSUME RuntimeInv, NEW c \in Callers, pc[c] \in TerminatePlaces \/ call[c].kind = "terminate"
  PROVE  /\ lifecycle = c /\ Types /\ CallOK(c) /\ TermOK(c) /\ call[c] \in Calls
         /\ call[c].kind = "terminate" /\ call[c].proc \in Procs
         /\ ProcOK(call[c].proc) /\ LinkOK(call[c].proc)
         /\ record[call[c].proc] \in Records /\ progress[call[c].proc] \in Progresses
         /\ outcome[call[c].proc] \in Outcomes /\ history[call[c].proc] \in Histories
<1>1. CallOK(c) /\ Types
  BY DEF RuntimeInv
<1>2. call[c].kind = "terminate" /\ lifecycle = c
  BY <1>1 DEF CallOK
<1>3. TermOK(c)
  BY <1>2 DEF RuntimeInv
<1>4. call[c].proc \in Procs
  BY <1>3 DEF TermOK
<1> QED
  BY <1>1, <1>2, <1>3, <1>4 DEF RuntimeInv, Types

LEMMA TerminateKeeps ==
  ASSUME RuntimeInv, UNCHANGED work, NEW c \in Callers, NEW p \in Procs, NEW why \in Reasons,
         Terminate(c, p, why)
  PROVE  RuntimeInv'
<1> USE DEF table
<1>1. /\ Types /\ ProcOK(p) /\ LinkOK(p) /\ why \in ExitReason
      /\ record[p] \in Records /\ progress[p] \in Progresses /\ outcome[p] \in Outcomes
      /\ history[p] \in Histories
  BY RuntimeAssumption DEF RuntimeInv, Types, Reasons, Workload
<1>2. /\ record[p] # NoRecord /\ lifecycle = None
      /\ UNCHANGED <<table, outcome, policy, restarts, owned, incidents>>
  BY DEF Terminate
<1>3. record[p].state # "none"
  BY <1>1, <1>2 DEF ProcOK
<1>4. CASE outcome[p] # NoOutcome
  <2>1. UNCHANGED <<pc, call, lifecycle, progress>> /\ Answer(p, outcome[p])
    BY <1>4 DEF Terminate
  <2>2. history[p].answers \cup {outcome[p]} = history[p].answers
    BY <1>1, <1>4 DEF ProcOK
  <2>3. history' = history
    BY <1>1, <2>1, <2>2 DEF Answer, Types, Histories
  <2>4. Types'
    BY <1>1, <1>2, <2>1, <2>3, WorkKept DEF Types
  <2> QED
    BY <1>2, <2>1, <2>3, <2>4, TableStep
<1>5. CASE outcome[p] = NoOutcome
  <2> DEFINE g == Enter(p, why)
             what == [NoCall EXCEPT !.kind = "terminate", !.proc = p]
  <2>1. /\ pc[c] = "idle" /\ pc' = [pc EXCEPT ![c] = Resume(g.phase)]
        /\ call' = [call EXCEPT ![c] = what]
        /\ progress' = [progress EXCEPT ![p] = g] /\ lifecycle' = c /\ history' = history
    BY <1>5 DEF Terminate, Begin, Goto
  <2>2. /\ what \in Calls /\ what.kind = "terminate" /\ what.proc = p /\ what.new = None /\ what.parent = None
    BY EmptyTypes DEF NoCall, Calls, Ids
  <2>3. /\ g \in Progresses /\ g.phase \in Phases /\ g.reason # "none"
        /\ \/ g = progress[p] /\ progress[p] # NoProgress
           \/ /\ progress[p] = NoProgress /\ g.phase = "Cleanup" /\ g.decision = "none"
    <3>1. CASE progress[p] = NoProgress
      BY <1>1, <3>1, EmptyTypes DEF Enter, NoProgress, Progresses, Phases, ExitReason
    <3>2. CASE progress[p] # NoProgress
      BY <1>1, <3>2 DEF Enter, ProcOK, Progresses
    <3> QED
      BY <3>1, <3>2
  <2> HIDE DEF g, what
  <2>4. /\ pc'[c] = Resume(g.phase) /\ call'[c] = what /\ progress'[p] = g
        /\ \A d \in Callers \ {c} : pc'[d] = pc[d] /\ call'[d] = call[d]
        /\ \A q \in Procs \ {p} : progress'[q] = progress[q]
    BY <1>1, <2>1 DEF Types
  <2>5. /\ Resume(g.phase) \in {"operation", "mark", "supervise", "restart"}
        /\ Resume(g.phase) = "operation" => g.phase = "Cleanup"
        /\ Resume(g.phase) = "mark" => g.phase = "MarkTerminal"
        /\ Resume(g.phase) = "supervise" => g.phase = "Supervise"
        /\ Resume(g.phase) = "restart" => g.phase = "Restart"
    BY <2>3 DEF Resume, Phases
  <2>6. Types'
    BY <1>1, <1>2, <2>1, <2>2, <2>3, <2>5, WorkKept DEF Types, Places, TerminatePlaces, Things
  <2>7. \A d \in Callers : CallOK(d)'
    <3>1. CallOK(c)'
      BY <2>1, <2>2, <2>4, <2>5 DEF CallOK, TerminatePlaces, SpawnPlaces, Things
    <3>2. ASSUME NEW d \in Callers \ {c}
          PROVE  CallOK(d)'
      <4>1. /\ CallOK(d) /\ pc'[d] = pc[d] /\ call'[d] = call[d]
            /\ lifecycle' # d /\ lifecycle # d
        BY <1>2, <2>1, <2>4, EmptyTypes DEF RuntimeInv
      <4> QED
        BY <1>1, <1>2, <4>1, CallFrame
    <3> QED
      BY <3>1, <3>2
  <2>8. ProcOK(p)'
    <3>1. g.phase = "Cleanup" => record[p].state \in {"live", "reaped"} \/ history[p].lost
      BY <1>1, <1>2, <1>3, <1>5, <2>3, EmptyTypes DEF ProcOK, LinkOK, Records, Terminal
    <3>2. CASE g = progress[p]
      BY <1>1, <1>2, <2>1, <2>4, <3>2, WorkKept, ProcFrame
    <3>3. CASE progress[p] = NoProgress /\ g.phase = "Cleanup" /\ g.decision = "none"
      BY <1>1, <1>2, <1>3, <1>5, <2>1, <2>3, <2>4, <3>1, <3>3, WorkKept DEF ProcOK, Live, Ended, Terminal, NoProgress
    <3> QED
      BY <2>3, <3>2, <3>3
  <2>9. TermOK(c)'
    BY <1>2, <1>3, <2>1, <2>2, <2>4, <2>5, <2>8
       DEF TermOK, ProcOK, TerminatePlaces, SpawnPlaces, Things, Live, Ended
  <2>10. \A q \in Procs : LinkOK(q)'
    <3> SUFFICES ASSUME NEW q \in Procs
                 PROVE  LinkOK(q)'
      OBVIOUS
    <3>1. LinkOK(q) /\ lifecycle \notin Callers
      BY <1>2, EmptyTypes DEF RuntimeInv
    <3>2. \/ progress'[q] = progress[q]
          \/ progress'[q].phase = "Cleanup" /\ progress'[q] # NoProgress
      BY <2>3, <2>4 DEF NoProgress
    <3> QED
      BY <1>2, <2>1, <3>1, <3>2 DEF LinkOK
  <2>11. \A q \in Procs \ {p} : ProcOK(q)'
    BY <1>1, <1>2, <2>1, <2>4, ProcFrame DEF RuntimeInv
  <2> QED
    BY <2>1, <2>6, <2>7, <2>8, <2>9, <2>10, <2>11 DEF RuntimeInv
<1> QED
  BY <1>4, <1>5

\* The phase of the process advances and its holder goes on.
LEMMA AdvanceKeeps ==
  ASSUME RuntimeInv, UNCHANGED work, NEW c \in Callers, pc[c] \in {"space", "marked"},
         NEW phase \in {"MarkTerminal", "Supervise"},
         phase = "MarkTerminal" <=> pc[c] = "space", Advance(c, phase),
         owned' \in [Procs -> SUBSET (Things \cup Strays)],
         UNCHANGED <<table, outcome, policy, restarts, incidents, history>>
  PROVE  RuntimeInv'
<1> USE DEF table, terminal
<1>1. /\ lifecycle = c /\ Types /\ CallOK(c) /\ TermOK(c) /\ call[c] \in Calls
      /\ pc[c] \in TerminatePlaces /\ call[c].new = None
  BY Holder DEF TerminatePlaces, TermOK, Things
<1>2. PICK p \in Procs : p = call[c].proc
  BY Holder DEF TerminatePlaces, Things
<1>3. ProcOK(p) /\ LinkOK(p) /\ record[p] \in Records /\ progress[p] \in Progresses
  BY <1>1, <1>2, Holder
<1>4. CASE progress[p] = NoProgress
  <2>1. Panic(c) /\ UNCHANGED progress
    BY <1>2, <1>4 DEF Advance, Proc
  <2> QED
    BY <1>1, <2>1, LeaveKeeps DEF Types
<1>5. CASE progress[p] # NoProgress
  <2> DEFINE g == [progress[p] EXCEPT !.phase = phase]
  <2>1. /\ g \in Progresses /\ g.phase = phase /\ g.reason = progress[p].reason
        /\ g.decision = progress[p].decision /\ g.restarted = progress[p].restarted
    BY <1>3 DEF Progresses, Phases
  <2>2. /\ progress' = [progress EXCEPT ![p] = g] /\ pc' = [pc EXCEPT ![c] = Resume(phase)]
        /\ UNCHANGED <<call, lifecycle>>
    BY <1>2, <1>5 DEF Advance, Proc, Goto
  <2> HIDE DEF g
  <2>3. Resume(phase) = IF phase = "MarkTerminal" THEN "mark" ELSE "supervise"
    BY DEF Resume
  <2>4. /\ pc'[c] = Resume(phase) /\ progress'[p] = g
        /\ \A d \in Callers \ {c} : pc'[d] = pc[d]
        /\ \A q \in Procs \ {p} : progress'[q] = progress[q]
    BY <1>1, <2>2 DEF Types
  <2>5. Types'
    BY <1>1, <2>1, <2>2, <2>3, WorkKept DEF Types, Places, TerminatePlaces
  <2>6. CallOK(c)'
    BY <1>1, <2>2, <2>3, <2>4, WorkKept DEF CallOK, TerminatePlaces, SpawnPlaces, Things
  <2>7. /\ phase = "MarkTerminal" => /\ progress[p].phase = "Cleanup" /\ (Live(p) \/ history[p].lost)
                                     /\ history[p].answers = {} /\ outcome[p] = NoOutcome
        /\ phase = "Supervise" => Ended(p) /\ progress[p].phase = "MarkTerminal"
    BY <1>1, <1>2, <1>5 DEF TermOK
  <2>8. TermOK(c)'
    BY <1>1, <1>2, <2>1, <2>2, <2>3, <2>4, <2>7, SMTT(30)
       DEF TermOK, TerminatePlaces, SpawnPlaces, Things, Live, Ended
  <2>9. ProcOK(p)'
    BY <1>1, <1>3, <1>5, <2>1, <2>2, <2>4, <2>7, WorkKept
       DEF ProcOK, Live, Ended, Terminal, NoProgress
  <2>10. LinkOK(p)'
    <3>1. progress'[p] # NoProgress
      BY <2>1, <2>4 DEF NoProgress
    <3> QED
      BY <2>1, <2>4, <3>1 DEF LinkOK
  <2> QED
    BY <1>1, <1>2, <2>2, <2>4, <2>5, <2>6, <2>8, <2>9, <2>10, HolderStep
<1> QED
  BY <1>4, <1>5

LEMMA MarkedKeeps ==
  ASSUME RuntimeInv, UNCHANGED work, NEW c \in Callers, Marked(c)
  PROVE  RuntimeInv'
<1>1. /\ pc[c] = "marked" /\ Advance(c, "Supervise")
      /\ UNCHANGED <<table, outcome, policy, restarts, owned, incidents, history>>
  BY DEF Marked
<1>2. owned' \in [Procs -> SUBSET (Things \cup Strays)]
  BY <1>1 DEF RuntimeInv, Types
<1> QED
  BY <1>1, <1>2, AdvanceKeeps

LEMMA CleanupKeeps ==
  ASSUME RuntimeInv, UNCHANGED work, NEW c \in Callers, Cleanup(c)
  PROVE  RuntimeInv'
<1> USE DEF table, terminal
<1>1. /\ lifecycle = c /\ Types /\ CallOK(c) /\ TermOK(c) /\ call[c] \in Calls
      /\ pc[c] \in Things /\ call[c].new = None
  BY Holder DEF Cleanup, TerminatePlaces, TermOK, Things
<1>2. PICK p \in Procs : p = call[c].proc
  BY <1>1, Holder DEF TerminatePlaces
<1>3. ProcOK(p) /\ LinkOK(p)
  BY <1>2 DEF RuntimeInv
<1>4. UNCHANGED <<table, outcome, policy, restarts, history>>
  BY DEF Cleanup
<1>5. CASE End(c) /\ UNCHANGED <<owned, progress>> /\ incidents' \in 0..MaxIncidents
  BY <1>1, <1>4, <1>5, LeaveKeeps DEF Types, Things
<1>6. CASE pc[c] = "space" /\ Lose(p, pc[c]) /\ Advance(c, "MarkTerminal") /\ UNCHANGED incidents
  <2>1. owned' \in [Procs -> SUBSET (Things \cup Strays)]
    BY <1>1, <1>6 DEF Lose, Types
  <2> QED
    BY <1>4, <1>6, <2>1, AdvanceKeeps
<1>7. CASE /\ pc[c] # "space" /\ (pc[c] = "operation" => Known(p)) /\ Lose(p, pc[c])
           /\ Goto(c, NextThing[pc[c]]) /\ UNCHANGED <<call, lifecycle, progress, incidents>>
  <2>1. owned' \in [Procs -> SUBSET (Things \cup Strays)]
    BY <1>1, <1>7 DEF Lose, Types
  <2>2. /\ NextThing[pc[c]] \in {"permit", "budget", "mailbox", "space"}
        /\ pc' = [pc EXCEPT ![c] = NextThing[pc[c]]]
    BY <1>1, <1>7 DEF NextThing, Things, Goto
  <2> DEFINE l == NextThing[pc[c]]
  <2> HIDE DEF l
  <2>3. l \in {"permit", "budget", "mailbox", "space"} /\ pc' = [pc EXCEPT ![c] = l] /\ l \in Places
    BY <2>2 DEF l, Places, TerminatePlaces, Things
  <2>4. pc'[c] = l /\ call' = [call EXCEPT ![c] = call[c]]
    BY <1>1, <1>7, <2>3 DEF Types
  <2>5. CallOK(c)'
    BY <1>1, <1>4, <1>7, <2>3, <2>4, WorkKept DEF CallOK, TerminatePlaces, SpawnPlaces, Things
  <2>6. /\ Live(p) \/ history[p].lost
        /\ progress[p] = NoProgress => ~Live(p)
        /\ progress[p] = NoProgress \/ progress[p].phase = "Cleanup"
        /\ history[p].answers = {} /\ outcome[p] = NoOutcome
    <3>1. CASE pc[c] = "operation"
      <4>1. progress[p].phase = "Cleanup" /\ record[p].state # "reaped"
        BY <1>1, <1>2, <1>7, <3>1 DEF TermOK, Known, Terminal
      <4> QED
        BY <1>3, <4>1 DEF ProcOK, Live, NoProgress
    <3>2. CASE pc[c] # "operation"
      BY <1>1, <1>2, <3>2, <1>7 DEF TermOK, Things
    <3> QED
      BY <3>1, <3>2
  <2>7. TermOK(c)'
    BY <1>1, <1>2, <1>4, <1>7, <2>3, <2>4, <2>6 DEF TermOK, TerminatePlaces, SpawnPlaces, Things, Live, Ended
  <2> QED
    BY <1>1, <1>4, <1>7, <2>1, <2>3, <2>4, <2>5, <2>7, HolderMove DEF Types, Things
<1>8. incidents' \in 0..MaxIncidents
  BY <1>1, RuntimeAssumption DEF Cleanup, Incident, Types
<1> QED
  BY <1>2, <1>5, <1>6, <1>7, <1>8 DEF Cleanup, Proc

LEMMA MarkKeeps ==
  ASSUME RuntimeInv, UNCHANGED work, NEW c \in Callers, Mark(c)
  PROVE  RuntimeInv'
<1> USE DEF table, terminal
<1>1. /\ lifecycle = c /\ Types /\ CallOK(c) /\ TermOK(c) /\ call[c] \in Calls
      /\ pc[c] = "mark" /\ call[c].new = None
  BY Holder DEF Mark, TerminatePlaces, TermOK
<1>2. PICK p \in Procs : p = call[c].proc
  BY <1>1, Holder DEF TerminatePlaces
<1>3. ProcOK(p) /\ LinkOK(p) /\ record[p] \in Records /\ progress[p] \in Progresses
  BY <1>1, <1>2 DEF RuntimeInv, Types
<1>4. UNCHANGED <<byAgent, specs, terminal, owned, incidents, history>>
  BY DEF Mark
<1>5. CASE ~Known(p)
  <2>1. End(c) /\ UNCHANGED record
    BY <1>2, <1>5 DEF Mark, Proc
  <2> QED
    BY <1>1, <1>4, <2>1, LeaveKeeps DEF Types
<1>6. CASE Known(p)
  <2> DEFINE rec == IF ~Live(p) THEN record[p]
                    ELSE [record[p] EXCEPT !.state = IF progress[p].reason = "Failed" THEN "Failed" ELSE "Exited",
                                           !.exit = progress[p].reason]
  <2>1. record' = [record EXCEPT ![p] = rec] /\ pc' = [pc EXCEPT ![c] = "marked"] /\ UNCHANGED <<call, lifecycle>>
    BY <1>1, <1>2, <1>6 DEF Mark, Proc, Goto, Types
  <2>2. progress[p].phase = "MarkTerminal" /\ progress[p].reason \in ExitReason /\ record[p].state # "none"
    <3>1. progress[p].phase = "MarkTerminal" /\ record[p].state # "none"
      BY <1>1, <1>2, <1>6 DEF TermOK, Known, Terminal
    <3>2. progress[p] # NoProgress
      BY <3>1 DEF NoProgress
    <3> QED
      BY <1>3, <3>1, <3>2 DEF ProcOK, Progresses
  <2>3. /\ rec \in Records /\ rec.state \in Terminal /\ rec.agent = record[p].agent /\ rec.parent = record[p].parent
        /\ Live(p) => rec.exit = progress[p].reason
        /\ ~Live(p) => rec.exit = record[p].exit
    BY <1>3, <1>6, <2>2 DEF Records, Known, Live, Terminal
  <2> HIDE DEF rec
  <2>4. /\ pc'[c] = "marked" /\ record'[p] = rec
        /\ \A d \in Callers \ {c} : pc'[d] = pc[d]
        /\ \A q \in Procs \ {p} : record'[q] = record[q]
    BY <1>1, <2>1 DEF Types
  <2>5. Types'
    BY <1>1, <1>4, <2>1, <2>3, WorkKept DEF Types, Places, TerminatePlaces
  <2>6. CallOK(c)'
    BY <1>1, <2>1, <2>4, WorkKept DEF CallOK, TerminatePlaces, SpawnPlaces, Things
  <2>7. TermOK(c)'
    BY <1>1, <1>2, <1>4, <2>1, <2>2, <2>3, <2>4
       DEF TermOK, TerminatePlaces, SpawnPlaces, Things, Live, Ended, Terminal
  <2>8. ProcOK(p)'
    BY <1>1, <1>3, <1>4, <2>2, <2>3, <2>4, WorkKept
       DEF ProcOK, Live, Ended, Terminal, NoProgress, ExitReason
  <2>9. LinkOK(p)'
    BY <1>4, <2>2 DEF LinkOK, NoProgress
  <2>10. \A q \in Procs : record[q].state = "reaped" => record'[q].state = "reaped"
    BY <1>6, <2>4 DEF Known, Terminal
  <2> QED
    BY <1>1, <1>2, <1>4, <2>1, <2>4, <2>5, <2>6, <2>7, <2>8, <2>9, <2>10, HolderStep
<1> QED
  BY <1>5, <1>6

LEMMA SuperviseExitKeeps ==
  ASSUME RuntimeInv, UNCHANGED work, NEW c \in Callers, SuperviseExit(c)
  PROVE  RuntimeInv'
<1> USE DEF table, terminal
<1>1. /\ lifecycle = c /\ Types /\ CallOK(c) /\ TermOK(c) /\ call[c] \in Calls
      /\ pc[c] = "supervise" /\ call[c].new = None
  BY Holder DEF SuperviseExit, TerminatePlaces, TermOK
<1>2. PICK p \in Procs : p = call[c].proc
  BY <1>1, Holder DEF TerminatePlaces
<1>3. /\ ProcOK(p) /\ LinkOK(p) /\ progress[p] \in Progresses /\ history[p] \in Histories
      /\ policy[p] \in {0, MaxRestarts} /\ restarts[p] \in 0..MaxRestarts /\ MaxRestarts \in Nat
  BY <1>1, <1>2, WorkKept DEF RuntimeInv, Types
<1>4. UNCHANGED <<table, outcome, policy, owned, incidents>>
  BY DEF SuperviseExit
<1>5. CASE progress[p] = NoProgress
  <2>1. Panic(c) /\ UNCHANGED <<progress, restarts, history>>
    BY <1>2, <1>5 DEF SuperviseExit, Proc
  <2> QED
    BY <1>1, <1>4, <2>1, LeaveKeeps DEF Types
<1>6. CASE progress[p] # NoProgress
  <2> DEFINE dec == Decision(p, progress[p].reason)
             g == [progress[p] EXCEPT !.decision = dec, !.phase = "Restart"]
             h == [history[p] EXCEPT !.decisions = @ + 1]
             n == IF dec = "Restart" THEN restarts[p] + 1 ELSE restarts[p]
  <2>1. /\ progress' = [progress EXCEPT ![p] = g] /\ history' = [history EXCEPT ![p] = h]
        /\ restarts' = [restarts EXCEPT ![p] = n] /\ pc' = [pc EXCEPT ![c] = "restart"]
        /\ UNCHANGED <<call, lifecycle>>
    <3>1. /\ progress' = [progress EXCEPT ![p].decision = dec, ![p].phase = "Restart"]
          /\ restarts' = (IF dec = "Restart" THEN [restarts EXCEPT ![p] = @ + 1] ELSE restarts)
          /\ history' = [history EXCEPT ![p].decisions = @ + 1]
          /\ pc' = [pc EXCEPT ![c] = "restart"] /\ UNCHANGED <<call, lifecycle>>
      BY <1>2, <1>6 DEF SuperviseExit, Proc, Goto
    <3> HIDE DEF dec
    <3>2. restarts' = [restarts EXCEPT ![p] = n]
      BY <1>1, <3>1 DEF Types
    <3>3. progress' = [progress EXCEPT ![p] = g] /\ history' = [history EXCEPT ![p] = h]
      BY <1>1, <3>1 DEF Types
    <3> QED
      BY <3>1, <3>2, <3>3
  <2>2. /\ dec \in {"DoNotRestart", "FailedLimitReached", "Restart"}
        /\ dec = "Restart" => policy[p] # 0 /\ restarts[p] + 1 <= policy[p]
    BY <1>3 DEF Decision
  <2> HIDE DEF dec
  <2>3. /\ g \in Progresses /\ g.phase = "Restart" /\ g.reason = progress[p].reason /\ g.decision = dec
        /\ g.restarted = progress[p].restarted
    BY <1>3, <2>2 DEF Progresses, Phases, Decisions
  <2>4. /\ h \in Histories /\ h.answers = history[p].answers /\ h.decisions = history[p].decisions + 1
        /\ h.replacements = history[p].replacements /\ h.before = history[p].before
        /\ h.dropped = history[p].dropped /\ h.lost = history[p].lost
    BY <1>3 DEF Histories
  <2>5. /\ n \in 0..MaxRestarts /\ n >= restarts[p]
        /\ dec = "Restart" => n = restarts[p] + 1
    BY <1>3, <2>2
  <2> HIDE DEF g, h, n
  <2>6. /\ pc'[c] = "restart" /\ progress'[p] = g /\ history'[p] = h /\ restarts'[p] = n
        /\ \A d \in Callers \ {c} : pc'[d] = pc[d]
        /\ \A q \in Procs \ {p} : progress'[q] = progress[q] /\ history'[q] = history[q] /\ restarts'[q] = restarts[q]
    BY <1>1, <2>1 DEF Types
  <2>7. Types'
    BY <1>1, <1>4, <2>1, <2>3, <2>4, <2>5, WorkKept DEF Types, Places, TerminatePlaces
  <2>8. CallOK(c)'
    BY <1>1, <1>4, <2>1, <2>6, WorkKept DEF CallOK, TerminatePlaces, SpawnPlaces, Things
  <2>9. Ended(p) /\ progress[p].phase = "Supervise" /\ record[p].state # "none"
    BY <1>1, <1>2, <1>6 DEF TermOK
  <2>10. TermOK(c)'
    BY <1>1, <1>2, <1>4, <2>1, <2>3, <2>6, <2>9
       DEF TermOK, TerminatePlaces, SpawnPlaces, Things, Live, Ended
  <2>11. ProcOK(p)'
    <3>1. history[p].before \in Nat /\ history[p].decisions \in Nat /\ history[p].replacements \in Nat
      BY <1>3 DEF Histories
    <3>2. (policy[p] # 0 => h.before <= n) /\ (g.decision = "Restart" => h.before < n)
      BY <1>3, <2>2, <2>3, <2>4, <2>5, <3>1 DEF ProcOK
    <3>3. h.decisions <= 1 \/ h.lost
      BY <1>3, <2>4, <2>9, <3>1 DEF ProcOK
    <3> QED
      BY <1>1, <1>3, <1>4, <1>6, <2>3, <2>4, <2>6, <2>9, <3>2, <3>3, WorkKept
         DEF ProcOK, Live, Ended, Terminal, NoProgress
  <2>12. LinkOK(p)'
    <3>1. progress'[p] # NoProgress
      BY <2>3, <2>6 DEF NoProgress
    <3>2. h.replacements = 0 \/ h.lost
      BY <1>3, <2>4, <2>9 DEF ProcOK
    <3> QED
      BY <2>6, <3>1, <3>2 DEF LinkOK
  <2> QED
    BY <1>1, <1>2, <1>4, <2>1, <2>6, <2>7, <2>8, <2>10, <2>11, <2>12, HolderStep
<1> QED
  BY <1>5, <1>6

LEMMA RestartKeeps ==
  ASSUME RuntimeInv, UNCHANGED work, NEW c \in Callers, Restart(c)
  PROVE  RuntimeInv'
<1> USE DEF table, terminal
<1>1. /\ lifecycle = c /\ Types /\ CallOK(c) /\ TermOK(c) /\ call[c] \in Calls
      /\ pc[c] = "restart" /\ call[c].new = None
  BY Holder DEF Restart, TerminatePlaces, TermOK
<1>2. PICK p \in Procs : p = call[c].proc
  BY <1>1, Holder DEF TerminatePlaces
<1>3. ProcOK(p) /\ LinkOK(p) /\ record[p] \in Records
  BY <1>1, <1>2 DEF RuntimeInv, Types
<1>4. UNCHANGED <<table, terminal, owned, incidents, history>>
  BY DEF Restart
<1>5. CASE progress[p] = NoProgress
  <2>1. Panic(c)
    BY <1>2, <1>5 DEF Restart, Proc
  <2> QED
    BY <1>1, <1>4, <2>1, LeaveKeeps DEF Types
<1>6. CASE /\ progress[p] # NoProgress /\ Goto(c, "finish") /\ UNCHANGED <<call, lifecycle>>
  <2>1. pc' = [pc EXCEPT ![c] = "finish"] /\ "finish" \in Places
    BY <1>6 DEF Goto, Places, TerminatePlaces
  <2>2. pc'[c] = "finish" /\ call' = [call EXCEPT ![c] = call[c]]
    BY <1>1, <1>6, <2>1 DEF Types
  <2>3. CallOK(c)'
    BY <1>1, <1>6, <2>2, WorkKept DEF CallOK, TerminatePlaces, SpawnPlaces, Things
  <2>4. TermOK(c)'
    BY <1>1, <1>4, <1>6, <2>2 DEF TermOK, TerminatePlaces, SpawnPlaces, Things, Live, Ended
  <2> QED
    BY <1>1, <1>4, <1>6, <2>1, <2>2, <2>3, <2>4, HolderMove DEF Types
<1>7. CASE /\ progress[p] # NoProgress /\ progress[p].decision = "Restart" /\ progress[p].restarted = None
           /\ call' = [call EXCEPT ![c].agent = record[p].agent, ![c].parent = record[p].parent,
                                   ![c].existing = byAgent[record[p].agent]]
           /\ Goto(c, "inspect") /\ UNCHANGED lifecycle
  <2> DEFINE what == [call[c] EXCEPT !.agent = record[p].agent, !.parent = record[p].parent,
                                     !.existing = byAgent[record[p].agent]]
  <2>1. /\ Ended(p) /\ record[p].state # "none" /\ progress[p].phase = "Restart"
        /\ record[p].agent \in Agents /\ (record[p].parent # None => Forks)
    BY <1>1, <1>2, <1>3, <1>7 DEF TermOK, ProcOK
  <2>2. byAgent[record[p].agent] \in Ids
    BY <1>1, <2>1 DEF Types
  <2>3. /\ what \in Calls /\ call' = [call EXCEPT ![c] = what]
        /\ what.kind = call[c].kind /\ what.proc = call[c].proc /\ what.new = call[c].new
        /\ what.agent = record[p].agent /\ what.parent = record[p].parent
    BY <1>1, <1>3, <1>7, <2>2 DEF Calls, Records
  <2>4. pc' = [pc EXCEPT ![c] = "inspect"] /\ "inspect" \in Places
    BY <1>7 DEF Goto, Places, SpawnPlaces
  <2> HIDE DEF what
  <2>5. pc'[c] = "inspect" /\ call'[c] = what
    BY <1>1, <2>3, <2>4 DEF Types
  <2>6. CallOK(c)'
    BY <1>1, <1>7, <2>1, <2>3, <2>5, WorkKept DEF CallOK, TerminatePlaces, SpawnPlaces, Things
  <2>7. /\ history[p].before < restarts[p]
        /\ history[p].replacements = 0 \/ history[p].dropped \/ history[p].lost
    BY <1>1, <1>3, <1>7, <2>1 DEF ProcOK, LinkOK
  <2>8. TermOK(c)'
    BY <1>1, <1>2, <1>4, <2>1, <2>3, <2>5, <2>7 DEF TermOK, TerminatePlaces, SpawnPlaces, Things, Live, Ended
  <2> QED
    BY <1>1, <1>4, <1>7, <2>3, <2>4, <2>6, <2>8, HolderMove DEF Types
<1> QED
  BY <1>2, <1>5, <1>6, <1>7 DEF Restart, Proc

LEMMA InheritKeeps ==
  ASSUME RuntimeInv, UNCHANGED work, NEW c \in Callers, Inherit(c)
  PROVE  RuntimeInv'
<1> USE DEF table
<1>1. /\ lifecycle = c /\ Types /\ CallOK(c) /\ TermOK(c) /\ call[c] \in Calls /\ pc[c] = "lineage"
  BY Holder DEF Inherit, TerminatePlaces
<1>2. PICK p \in Procs : p = call[c].proc
  BY <1>1, Holder DEF TerminatePlaces
<1>3. PICK new \in Procs : new = call[c].new
  BY <1>1 DEF CallOK
<1>4. /\ history[new].before = history[p].before + 1 /\ history[p].before < restarts[p]
      /\ progress[new] = NoProgress /\ record[new].state # "none"
      /\ Ended(p) /\ (progress[p] = NoProgress \/ progress[p].phase = "Restart")
  BY <1>1, <1>2, <1>3 DEF TermOK
<1>5. /\ history[p] \in Histories /\ history[p].before \in Nat /\ restarts[p] \in 0..MaxRestarts
      /\ policy[p] \in {0, MaxRestarts} /\ MaxRestarts \in Nat /\ MaxRestarts' = MaxRestarts /\ Forks' = Forks
  BY <1>1, WorkKept DEF Types, Histories
<1>6. p # new
  BY <1>4, <1>5
<1>7. /\ policy' = [policy EXCEPT ![new] = policy[p]] /\ restarts' = [restarts EXCEPT ![new] = restarts[p]]
      /\ pc' = [pc EXCEPT ![c] = "restarted"]
      /\ UNCHANGED <<call, lifecycle, table, progress, outcome, owned, incidents, history>>
  BY <1>2, <1>3 DEF Inherit, Proc, Goto
<1>8. /\ pc'[c] = "restarted" /\ policy'[new] = policy[p] /\ restarts'[new] = restarts[p]
      /\ \A d \in Callers \ {c} : pc'[d] = pc[d]
      /\ \A q \in Procs \ {new} : policy'[q] = policy[q] /\ restarts'[q] = restarts[q]
  BY <1>1, <1>7 DEF Types
<1>9. Types'
  BY <1>1, <1>5, <1>7, WorkKept DEF Types, Places, TerminatePlaces
<1>10. \A d \in Callers : CallOK(d)'
  <2>1. CallOK(c)'
    BY <1>1, <1>5, <1>7, <1>8 DEF CallOK, TerminatePlaces, SpawnPlaces, Things
  <2>2. ASSUME NEW d \in Callers \ {c}
        PROVE  CallOK(d)'
    <3>1. CallOK(d) /\ pc'[d] = pc[d] /\ call'[d] = call[d]
      BY <1>7, <1>8 DEF RuntimeInv
    <3> QED
      BY <1>1, <1>7, <3>1, CallFrame
  <2> QED
    BY <2>1, <2>2
<1>11. TermOK(c)'
  BY <1>1, <1>2, <1>4, <1>7, <1>8 DEF TermOK, TerminatePlaces, SpawnPlaces, Things, Live, Ended
<1>12. ProcOK(new)'
  <2>1. ProcOK(new)
    BY DEF RuntimeInv
  <2>2. history[new].before <= restarts[p]
    BY <1>4, <1>5
  <2> QED
    BY <1>4, <1>5, <1>7, <1>8, <2>1, <2>2 DEF ProcOK, Live, Ended, NoProgress
<1>13. \A q \in Procs \ {new} : ProcOK(q)'
  BY <1>1, <1>7, <1>8, ProcFrame DEF RuntimeInv
<1>14. \A q \in Procs : LinkOK(q)'
  <2> SUFFICES ASSUME NEW q \in Procs
               PROVE  LinkOK(q)'
    OBVIOUS
  <2>1. LinkOK(q)
    BY DEF RuntimeInv
  <2> QED
    BY <1>1, <1>7, <1>8, <2>1 DEF LinkOK
<1> QED
  BY <1>1, <1>7, <1>9, <1>10, <1>11, <1>12, <1>13, <1>14 DEF RuntimeInv

LEMMA RestartedKeeps ==
  ASSUME RuntimeInv, UNCHANGED work, NEW c \in Callers, Restarted(c)
  PROVE  RuntimeInv'
<1> USE DEF table, terminal
<1>1. /\ lifecycle = c /\ Types /\ CallOK(c) /\ TermOK(c) /\ call[c] \in Calls /\ pc[c] = "restarted"
  BY Holder DEF Restarted, TerminatePlaces
<1>2. PICK p \in Procs : p = call[c].proc
  BY <1>1, Holder DEF TerminatePlaces
<1>3. ProcOK(p) /\ LinkOK(p) /\ progress[p] \in Progresses /\ call[c].new \in Procs
  BY <1>1, <1>2 DEF RuntimeInv, Types, CallOK
<1>4. UNCHANGED <<table, outcome, policy, restarts, owned, incidents, history>>
  BY DEF Restarted
<1>5. CASE progress[p] = NoProgress
  <2>1. Panic(c) /\ UNCHANGED progress
    BY <1>2, <1>5 DEF Restarted, Proc
  <2> QED
    BY <1>1, <1>2, <1>4, <1>5, <2>1, LeaveKeeps DEF Types
<1>6. CASE progress[p] # NoProgress
  <2> DEFINE g == [progress[p] EXCEPT !.restarted = call[c].new]
  <2>1. /\ progress' = [progress EXCEPT ![p] = g] /\ pc' = [pc EXCEPT ![c] = "finish"]
        /\ UNCHANGED <<call, lifecycle>>
    BY <1>2, <1>6 DEF Restarted, Proc, Goto
  <2>2. /\ g \in Progresses /\ g.phase = progress[p].phase /\ g.reason = progress[p].reason
        /\ g.decision = progress[p].decision /\ g.restarted = call[c].new
    BY <1>3 DEF Progresses, Ids
  <2> HIDE DEF g
  <2>3. /\ pc'[c] = "finish" /\ progress'[p] = g
        /\ \A d \in Callers \ {c} : pc'[d] = pc[d]
        /\ \A q \in Procs \ {p} : progress'[q] = progress[q]
    BY <1>1, <2>1 DEF Types
  <2>4. Types'
    BY <1>1, <1>4, <2>1, <2>2, WorkKept DEF Types, Places, TerminatePlaces
  <2>5. CallOK(c)'
    BY <1>1, <1>4, <2>1, <2>3, WorkKept DEF CallOK, TerminatePlaces, SpawnPlaces, Things
  <2>6. Ended(p) /\ progress[p].phase = "Restart" /\ record[p].state # "none"
    BY <1>1, <1>2, <1>6 DEF TermOK
  <2>7. TermOK(c)'
    BY <1>1, <1>2, <1>4, <2>1, <2>2, <2>3, <2>6
       DEF TermOK, TerminatePlaces, SpawnPlaces, Things, Live, Ended
  <2>8. ProcOK(p)'
    BY <1>1, <1>3, <1>4, <1>6, <2>2, <2>3, <2>6, WorkKept DEF ProcOK, Live, Ended, Terminal, NoProgress
  <2>9. LinkOK(p)'
    BY <1>3, <2>2, <2>3, <2>6, EmptyTypes DEF LinkOK, NoProgress
  <2> QED
    BY <1>1, <1>2, <1>4, <2>1, <2>3, <2>4, <2>5, <2>7, <2>8, <2>9, HolderStep
<1> QED
  BY <1>5, <1>6

LEMMA FinishKeeps ==
  ASSUME RuntimeInv, UNCHANGED work, NEW c \in Callers, Finish(c)
  PROVE  RuntimeInv'
<1> USE DEF table, terminal
<1>1. /\ lifecycle = c /\ Types /\ CallOK(c) /\ TermOK(c) /\ call[c] \in Calls /\ pc[c] = "finish"
  BY Holder DEF Finish, TerminatePlaces
<1>2. PICK p \in Procs : p = call[c].proc
  BY <1>1, Holder DEF TerminatePlaces
<1>3. ProcOK(p) /\ LinkOK(p) /\ progress[p] \in Progresses
  BY <1>1, <1>2 DEF RuntimeInv, Types
<1>4. UNCHANGED <<table, outcome, policy, restarts, owned, incidents, history>>
  BY DEF Finish
<1>5. CASE progress[p] = NoProgress
  <2>1. Panic(c) /\ UNCHANGED progress
    BY <1>2, <1>5 DEF Finish, Proc
  <2> QED
    BY <1>1, <1>2, <1>4, <1>5, <2>1, LeaveKeeps DEF Types
<1>6. CASE progress[p] # NoProgress
  <2> DEFINE o == [reason |-> progress[p].reason, decision |-> progress[p].decision,
                   restarted |-> progress[p].restarted]
             what == [call[c] EXCEPT !.end = o]
  <2>1. /\ progress' = [progress EXCEPT ![p] = NoProgress] /\ pc' = [pc EXCEPT ![c] = "settle"]
        /\ call' = [call EXCEPT ![c].end = o] /\ UNCHANGED lifecycle
    BY <1>2, <1>6 DEF Finish, Proc, Goto
  <2>2. o \in Outcomes /\ o.reason = progress[p].reason
    BY <1>3 DEF Progresses, Outcomes
  <2> HIDE DEF o
  <2>3. /\ what \in Calls /\ call' = [call EXCEPT ![c] = what] /\ what.end = o
        /\ what.kind = call[c].kind /\ what.proc = call[c].proc /\ what.new = call[c].new
        /\ what.agent = call[c].agent /\ what.parent = call[c].parent
    BY <1>1, <2>1, <2>2 DEF Calls
  <2> HIDE DEF what
  <2>4. /\ pc'[c] = "settle" /\ progress'[p] = NoProgress /\ call'[c] = what
        /\ \A d \in Callers \ {c} : pc'[d] = pc[d] /\ call'[d] = call[d]
        /\ \A q \in Procs \ {p} : progress'[q] = progress[q]
    BY <1>1, <2>1, <2>3 DEF Types
  <2>5. Types'
    BY <1>1, <1>4, <2>1, <2>3, WorkKept, EmptyTypes DEF Types, Places, TerminatePlaces
  <2>6. CallOK(c)'
    BY <1>1, <1>4, <2>1, <2>3, <2>4, WorkKept DEF CallOK, TerminatePlaces, SpawnPlaces, Things
  <2>7. /\ Ended(p) /\ progress[p].phase = "Restart" /\ record[p].state # "none"
        /\ progress[p].reason # "none" /\ (progress[p].reason = record[p].exit \/ history[p].lost)
        /\ history[p].answers = {} /\ outcome[p] = NoOutcome
    BY <1>1, <1>2, <1>3, <1>6 DEF TermOK, ProcOK, Live, Ended, Terminal
  <2>8. TermOK(c)'
    BY <1>1, <1>2, <1>4, <2>1, <2>2, <2>3, <2>4, <2>7
       DEF TermOK, TerminatePlaces, SpawnPlaces, Things, Live, Ended
  <2>9. ProcOK(p)'
    BY <1>1, <1>3, <1>4, <2>4, <2>7, WorkKept DEF ProcOK, Live, Ended, Terminal, NoProgress
  <2>10. LinkOK(p)'
    BY <1>1, <1>2, <2>1, <2>3, <2>4 DEF LinkOK, NoProgress
  <2> QED
    BY <1>1, <1>2, <1>4, <2>1, <2>3, <2>4, <2>5, <2>6, <2>8, <2>9, <2>10, HolderStep
<1> QED
  BY <1>5, <1>6

\* The holder leaves; only the outcome and the history of its process change.
LEMMA LeaveHistory ==
  ASSUME RuntimeInv, UNCHANGED work, NEW c \in Callers, NEW p \in Procs, lifecycle = c, p = call[c].proc,
         End(c), incidents' \in 0..MaxIncidents, NEW o \in Outcomes, NEW h \in Histories,
         outcome' = [outcome EXCEPT ![p] = o], history' = [history EXCEPT ![p] = h],
         owned' \in [Procs -> SUBSET (Things \cup Strays)],
         UNCHANGED <<table, progress, policy, restarts>>,
         ProcOK(p)', LinkOK(p)'
  PROVE  RuntimeInv'
<1> USE DEF table
<1>1. Types /\ lifecycle' = None
  BY DEF RuntimeInv, End
<1>2. call' = [call EXCEPT ![c] = NoCall] /\ pc' = [pc EXCEPT ![c] = "idle"]
  BY DEF End
<1>3. Types'
  BY <1>1, <1>2, WorkKept, EmptyTypes DEF Types, Places
<1>4. /\ \A d \in Callers \ {c} : pc'[d] = pc[d] /\ call'[d] = call[d]
      /\ pc'[c] = "idle" /\ call'[c] = NoCall
      /\ \A q \in Procs \ {p} : outcome'[q] = outcome[q] /\ history'[q] = history[q]
  BY <1>1, <1>2 DEF Types
<1>5. \A d \in Callers : CallOK(d)'
  <2>1. CallOK(c)'
    BY <1>1, <1>4, EmptyTypes DEF CallOK, NoCall, TerminatePlaces, SpawnPlaces, Things
  <2>2. ASSUME NEW d \in Callers \ {c}
        PROVE  CallOK(d)'
    <3>1. CallOK(d) /\ pc'[d] = pc[d] /\ call'[d] = call[d] /\ lifecycle # d /\ lifecycle' # d
      BY <1>1, <1>4, EmptyTypes DEF RuntimeInv
    <3> QED
      BY <1>1, <3>1, CallFrame
  <2> QED
    BY <2>1, <2>2
<1>6. ~ (lifecycle' \in Callers)
  BY <1>1, EmptyTypes
<1>7. ASSUME NEW q \in Procs \ {p}
      PROVE  ProcOK(q)' /\ LinkOK(q)'
  <2>1. ProcOK(q) /\ LinkOK(q)
    BY DEF RuntimeInv
  <2>2. LinkOK(q)'
    BY <1>4, <2>1 DEF LinkOK
  <2> QED
    BY <1>1, <1>4, <2>1, <2>2, ProcFrame
<1> QED
  BY <1>3, <1>5, <1>6, <1>7 DEF RuntimeInv

LEMMA SettleKeeps ==
  ASSUME RuntimeInv, UNCHANGED work, NEW c \in Callers, Settle(c)
  PROVE  RuntimeInv'
<1> USE DEF table
<1>1. /\ lifecycle = c /\ Types /\ CallOK(c) /\ TermOK(c) /\ call[c] \in Calls /\ pc[c] = "settle"
  BY Holder DEF Settle, TerminatePlaces
<1>2. PICK p \in Procs : p = call[c].proc
  BY <1>1, Holder DEF TerminatePlaces
<1> DEFINE o == call[c].end
           h == [history[p] EXCEPT !.answers = @ \cup {o}]
<1>3. /\ ProcOK(p) /\ LinkOK(p) /\ history[p] \in Histories /\ o \in Outcomes
  BY <1>1, <1>2 DEF RuntimeInv, Types, Calls
<1>4. /\ outcome' = [outcome EXCEPT ![p] = o] /\ history' = [history EXCEPT ![p] = h] /\ End(c)
      /\ UNCHANGED <<table, progress, policy, restarts, owned, incidents>>
  BY <1>2 DEF Settle, Answer, Proc
<1>5. /\ Ended(p) /\ progress[p] = NoProgress /\ o.reason # "none" /\ (o.reason = record[p].exit \/ history[p].lost)
      /\ history[p].answers = {} /\ outcome[p] = NoOutcome
  BY <1>1, <1>2 DEF TermOK
<1>6. PICK oo \in Outcomes : oo = o
  BY <1>3
<1> HIDE DEF o
<1>7. /\ h \in Histories /\ h.answers = {oo} /\ h.decisions = history[p].decisions
      /\ h.replacements = history[p].replacements /\ h.before = history[p].before
      /\ h.dropped = history[p].dropped /\ h.lost = history[p].lost
  BY <1>3, <1>5, <1>6 DEF Histories
<1>8. PICK hh \in Histories : hh = h
  BY <1>7
<1> HIDE DEF h
<1>9. outcome'[p] = oo /\ history'[p] = hh /\ oo # NoOutcome
  BY <1>1, <1>4, <1>5, <1>6, <1>8 DEF Types, NoOutcome
<1>10. ProcOK(p)'
  BY <1>1, <1>3, <1>4, <1>5, <1>6, <1>7, <1>8, <1>9, WorkKept DEF ProcOK, Live, Ended, Terminal, NoProgress
<1>11. LinkOK(p)'
  BY <1>4, <1>5, <1>9 DEF LinkOK, NoProgress
<1>12. incidents' \in 0..MaxIncidents /\ owned' \in [Procs -> SUBSET (Things \cup Strays)]
  BY <1>1, <1>4 DEF Types
<1> QED
  BY <1>1, <1>2, <1>4, <1>6, <1>8, <1>10, <1>11, <1>12, LeaveHistory

LEMMA DropKeeps ==
  ASSUME RuntimeInv, UNCHANGED work, NEW c \in Callers, Drop(c)
  PROVE  RuntimeInv'
<1> USE DEF table, terminal
<1>1. Types /\ CallOK(c) /\ End(c) /\ UNCHANGED <<table, terminal>>
  BY DEF RuntimeInv, Drop
<1>2. incidents' \in 0..MaxIncidents /\ owned' \in [Procs -> SUBSET (Things \cup Strays)]
  BY <1>1, RuntimeAssumption DEF Drop, Incident, Types, Gain, Strays
<1>3. CASE lifecycle # c
  <2>1. pc[c] # "settle" /\ call[c].kind # "terminate"
    BY <1>1, <1>3 DEF CallOK, TerminatePlaces
  <2>2. history' = history
    BY <2>1 DEF Drop
  <2> QED
    BY <1>1, <1>2, <1>3, <2>2, EndKeeps DEF Types
<1>4. CASE lifecycle = c
  <2>1. call[c].kind = "terminate"
    BY <1>1, <1>4 DEF CallOK
  <2>2. PICK p \in Procs : p = call[c].proc
    BY <2>1, Holder
  <2>3. TermOK(c) /\ ProcOK(p) /\ LinkOK(p) /\ history[p] \in Histories /\ outcome[p] \in Outcomes
    BY <1>1, <2>1, <2>2, Holder
  <2>4. CASE pc[c] # "settle" /\ call[c].new = None
    <3>1. history' = history
      BY <2>4 DEF Drop
    <3> QED
      BY <1>1, <1>2, <1>4, <2>4, <3>1, LeaveKeeps DEF Types
  <2>5. CASE pc[c] = "settle"
    <3> DEFINE h == [history[p] EXCEPT !.lost = TRUE]
    <3>1. history' = [history EXCEPT ![p] = h]
      BY <2>2, <2>5 DEF Drop, Proc
    <3>2. /\ h \in Histories /\ h.answers = history[p].answers /\ h.decisions = history[p].decisions
          /\ h.replacements = history[p].replacements /\ h.before = history[p].before
          /\ h.dropped = history[p].dropped /\ h.lost
      BY <2>3 DEF Histories
    <3>3. PICK hh \in Histories : hh = h
      BY <3>2
    <3> HIDE DEF h
    <3>4. history'[p] = hh /\ Ended(p) /\ outcome' = [outcome EXCEPT ![p] = outcome[p]]
      BY <1>1, <2>2, <2>3, <2>5, <3>1, <3>3 DEF Types, TermOK
    <3>5. ProcOK(p)'
      BY <1>1, <2>3, <3>2, <3>3, <3>4, WorkKept DEF ProcOK, Live, Ended, Terminal
    <3>6. LinkOK(p)'
      BY <3>2, <3>3, <3>4 DEF LinkOK
    <3> QED
      BY <1>1, <1>2, <1>4, <2>2, <2>3, <3>1, <3>3, <3>4, <3>5, <3>6, LeaveHistory
  <2>6. CASE pc[c] # "settle" /\ call[c].new # None
    <3> DEFINE h == [history[p] EXCEPT !.dropped = TRUE]
    <3>1. history' = [history EXCEPT ![p] = h]
      BY <2>1, <2>2, <2>6 DEF Drop, Proc
    <3>2. /\ h \in Histories /\ h.answers = history[p].answers /\ h.decisions = history[p].decisions
          /\ h.replacements = history[p].replacements /\ h.before = history[p].before
          /\ h.dropped /\ h.lost = history[p].lost
      BY <2>3 DEF Histories
    <3>3. PICK hh \in Histories : hh = h
      BY <3>2
    <3> HIDE DEF h
    <3>4. history'[p] = hh /\ Ended(p) /\ outcome' = [outcome EXCEPT ![p] = outcome[p]]
      BY <1>1, <2>2, <2>3, <2>6, <3>1, <3>3 DEF Types, TermOK, SpawnPlaces
    <3>5. ProcOK(p)'
      BY <1>1, <2>3, <3>2, <3>3, <3>4, WorkKept DEF ProcOK, Live, Ended, Terminal
    <3>6. LinkOK(p)'
      BY <1>1, <1>4, <2>3, <2>6, <3>2, <3>3, <3>4 DEF LinkOK
    <3> QED
      BY <1>1, <1>2, <1>4, <2>2, <2>3, <3>1, <3>3, <3>4, <3>5, <3>6, LeaveHistory
  <2> QED
    BY <2>4, <2>5, <2>6
<1> QED
  BY <1>3, <1>4

-----------------------------------------------------------------------------
(* The invariant of the runtime. *)

\* Every action keeps it.
LEMMA NextRuntime == RuntimeInv /\ [Next]_vars => RuntimeInv'
<1> SUFFICES ASSUME RuntimeInv, [Next]_vars
             PROVE  RuntimeInv'
  OBVIOUS
<1>1. CASE UNCHANGED vars
  <2>1. Types'
    BY <1>1 DEF vars, table, terminal, RuntimeInv, Types, MaxRestarts
  <2> QED
    BY <1>1, <2>1, TableStep DEF vars, table, terminal
<1>2. CASE Next
  <2>1. UNCHANGED work
    BY <1>2 DEF Next
  <2>2. ASSUME NEW c \in Callers, Step(c)
        PROVE  RuntimeInv'
    <3>1. CASE TerminateStep(c)
      BY <2>1, <3>1, CleanupKeeps, MarkKeeps, MarkedKeeps, SuperviseExitKeeps, RestartKeeps, InheritKeeps,
         RestartedKeeps, FinishKeeps, SettleKeeps DEF TerminateStep
    <3>2. CASE SpawnStep(c)
      BY <2>1, <3>2, InspectKeeps, ParentKeeps, InsertKeeps, BudgetKeeps, IdentityKeeps DEF SpawnStep
    <3>3. CASE SubmitInsert(c) \/ Register(c) \/ RegisterEnter(c) \/ ReapUnbind(c)
      BY <2>1, <3>3, SubmitInsertKeeps, RegisterKeeps
    <3>4. CASE ReapForget(c)
      BY <2>1, <3>4, ForgetKeeps
    <3> QED
      BY <2>2, <3>1, <3>2, <3>3, <3>4 DEF Step
  <2>3. ASSUME NEW c \in Callers, Drop(c)
        PROVE  RuntimeInv'
    BY <2>1, <2>3, DropKeeps
  <2>4. ASSUME NEW c \in Callers, NEW a \in Agents, NEW p \in Procs \cup {None}, Spawn(c, a, p)
        PROVE  RuntimeInv'
    BY <2>1, <2>4, SpawnKeeps
  <2>5. ASSUME NEW c \in Callers, NEW p \in Procs, Submit(c, p) \/ RegisterMailbox(c, p) \/ Reap(c, p)
        PROVE  RuntimeInv'
    BY <2>1, <2>5, SubmitKeeps, ReapKeeps
  <2>6. ASSUME NEW c \in Callers, NEW p \in Procs, NEW why \in Reasons, Terminate(c, p, why)
        PROVE  RuntimeInv'
    BY <2>1, <2>6, TerminateKeeps
  <2>7. ASSUME NEW p \in Procs, Supervise(p)
        PROVE  RuntimeInv'
    BY <2>1, <2>7, SuperviseKeeps
  <2>8. ASSUME NEW p \in Procs, NEW thing \in Things, Give(p, thing) \/ Take(p, thing)
        PROVE  RuntimeInv'
    BY <2>1, <2>8, GiveKeeps
  <2> QED
    BY <1>2, <2>2, <2>3, <2>4, <2>5, <2>6, <2>7, <2>8 DEF Next
<1> QED
  BY <1>1, <1>2

\* In every behaviour records, progress, outcomes and the calls in flight fit
\* together: this is the inductive invariant of terminate_process and
\* reap_process, and what the other theorems rest on.
THEOREM RuntimeCoherent == Spec => []RuntimeInv
<1>1. Init => RuntimeInv
  BY InitRuntime
<1>2. RuntimeInv /\ [Next]_vars => RuntimeInv'
  BY NextRuntime
<1> QED
  BY <1>1, <1>2, PTL DEF Spec

\* However many callers terminate a process, concurrently, after failures, drops
\* and panics of each other, or beside a reaper, they are told one end, and it is
\* the one the process table published, unless a caller was dropped between taking
\* the progress out and keeping the outcome.
THEOREM OneAnswer == Spec => []AnswersAgree
<1>1. RuntimeInv => AnswersAgree
  <2> SUFFICES ASSUME RuntimeInv, NEW p \in Procs
               PROVE  /\ Cardinality(history[p].answers) <= 1
                      /\ \A o \in history[p].answers : o.reason = record[p].exit \/ history[p].lost
    BY DEF AnswersAgree
  <2>1. ProcOK(p)
    BY DEF RuntimeInv
  <2> DEFINE A == history[p].answers
  <2>2. /\ \A x, y \in A : x = y
        /\ \A o \in A : o.reason = record[p].exit \/ history[p].lost
    BY <2>1 DEF ProcOK
  <2> HIDE DEF A
  <2>3. CASE A = {}
    <3>1. Cardinality(A) = 0
      BY <2>3, FS_EmptySet
    <3> QED
      BY <2>2, <3>1 DEF A
  <2>4. CASE A # {}
    <3>1. PICK x \in A : A = {x}
      BY <2>2, <2>4
    <3>2. Cardinality(A) = 1
      BY <3>1, FS_Singleton
    <3> QED
      BY <2>2, <3>2 DEF A
  <2> QED
    BY <2>3, <2>4
<1> QED
  BY <1>1, RuntimeCoherent, PTL

\* The supervisor decides about a process once and replaces it at most once, but
\* for the two windows in which a dropped caller takes the knowledge of it with it;
\* and no drop, retry or panic makes a chain of replacements longer than
\* max_restarts.
THEOREM RestartsSafe == Spec => []RestartsBounded
<1>1. RuntimeInv => RestartsBounded
  <2> SUFFICES ASSUME RuntimeInv
               PROVE  RestartsBounded
    OBVIOUS
  <2>1. TypeOK
    BY DEF RuntimeInv, Types, TypeOK, Records, Calls, Ids
  <2>2. ASSUME NEW p \in Procs
        PROVE  /\ history[p].before <= MaxRestarts
               /\ history[p].decisions <= 1 \/ history[p].lost
               /\ history[p].replacements <= 1 \/ history[p].dropped \/ history[p].lost
    BY DEF RuntimeInv, ProcOK
  <2> QED
    BY <2>1, <2>2 DEF RestartsBounded
<1> QED
  BY <1>1, RuntimeCoherent, PTL

-----------------------------------------------------------------------------
(* What processes own in a quiet workload. *)

\* Nobody terminates a process that the model calls not terminating.
LEMMA NotTerminating ==
  ASSUME RuntimeInv, NEW p \in Procs, ~Terminating(p)
  PROVE  Untouched(p)
BY DEF RuntimeInv, CallOK, Terminating, Untouched, Proc

LEMMA InitQuiet == Init => QuietInv
BY EmptyTypes
   DEF Init, QuietInv, UseOK, OwnOK, Ended, NoCall, NoRecord, NoProgress, Terminal, Gone

LEMMA ResidueKept ==
  ASSUME Types, UNCHANGED work
  PROVE  Residue' = Residue
BY WorkKept DEF Residue

\* A caller that does not move keeps what it relies on.
LEMMA UseFrame ==
  ASSUME NEW d \in Callers, UseOK(d), pc'[d] = pc[d], call'[d] = call[d],
         call[d] \in Calls, CallOK(d),
         \A q \in {call[d].proc, call[d].new, call[d].parent} \cap Procs :
            Untouched(q) => Untouched(q)' /\ (Live(q) => Live(q)'),
         pc[d] \in DOMAIN Gone => owned'[call[d].proc] \subseteq owned[call[d].proc]
  PROVE  UseOK(d)'
<1>1. /\ call[d].parent \in Procs \cup {None}
      /\ pc[d] \in {"submit", "register", "enter"} => call[d].proc \in Procs
      /\ pc[d] \in {"reserve", "note"} => call[d].new \in Procs
  BY DEF Calls, Ids, CallOK
<1>2. pc[d] \in {"submit", "register", "enter"} => Live(call[d].proc)' /\ Untouched(call[d].proc)'
  <2> SUFFICES ASSUME pc[d] \in {"submit", "register", "enter"}
               PROVE  Live(call[d].proc)' /\ Untouched(call[d].proc)'
    OBVIOUS
  <2>1. PICK q \in Procs : q = call[d].proc
    BY <1>1
  <2>2. Live(q)' /\ Untouched(q)'
    BY <2>1 DEF UseOK
  <2> QED
    BY <2>1, <2>2 DEF Live, Untouched
<1>3. pc[d] \in {"reserve", "note"} => Live(call[d].new)' /\ Untouched(call[d].new)'
  <2> SUFFICES ASSUME pc[d] \in {"reserve", "note"}
               PROVE  Live(call[d].new)' /\ Untouched(call[d].new)'
    OBVIOUS
  <2>1. PICK q \in Procs : q = call[d].new
    BY <1>1
  <2>2. Live(q)' /\ Untouched(q)'
    BY <2>1 DEF UseOK
  <2> QED
    BY <2>1, <2>2 DEF Live, Untouched
<1>4. (call[d].kind = "spawn" /\ call[d].parent # None) =>
        Untouched(call[d].parent)' /\ (pc[d] = "insert" => Live(call[d].parent)')
  <2> SUFFICES ASSUME call[d].kind = "spawn", call[d].parent # None
               PROVE  Untouched(call[d].parent)' /\ (pc[d] = "insert" => Live(call[d].parent)')
    OBVIOUS
  <2>1. PICK q \in Procs : q = call[d].parent
    BY <1>1
  <2>2. Untouched(q)' /\ (pc[d] = "insert" => Live(q)')
    BY <2>1 DEF UseOK
  <2> QED
    BY <2>1, <2>2 DEF Live, Untouched
<1>5. pc[d] \in DOMAIN Gone => owned'[call[d].proc] \cap Gone[pc[d]] = {}
  BY DEF UseOK
<1> QED
  BY <1>2, <1>3, <1>4, <1>5 DEF UseOK, Gone

\* A step of callers without the lock, which gives things only to processes
\* that live and are not terminated.
LEMMA QuietBystander ==
  ASSUME RuntimeInv, QuietInv, Quiet, UNCHANGED work, lifecycle' = lifecycle,
         \A d \in Callers : \/ pc'[d] = pc[d] /\ call'[d] = call[d]
                            \/ lifecycle # d /\ UseOK(d)',
         \A q \in Procs : /\ Live(q) => Live(q)'
                          /\ Ended(q)' => Ended(q)
                          /\ progress'[q] = progress[q] \/ progress'[q] = NoProgress
                          /\ owned'[q] \subseteq owned[q] \/ (Untouched(q) /\ Live(q)')
  PROVE  QuietInv'
<1>1. Types /\ Residue' = Residue /\ \A d \in Callers : UseOK(d)
  BY ResidueKept DEF RuntimeInv, QuietInv
<1>2. \A d \in Callers : lifecycle = d => call'[d] = call[d]
  OBVIOUS
<1>3. \A q \in Procs : Untouched(q) => Untouched(q)'
  BY <1>2 DEF Untouched
<1>4. ASSUME NEW d \in Callers
      PROVE  UseOK(d)'
  <2>1. CASE pc'[d] = pc[d] /\ call'[d] = call[d]
    <3>1. pc[d] \in DOMAIN Gone => owned'[call[d].proc] \subseteq owned[call[d].proc]
      <4> SUFFICES ASSUME pc[d] \in DOMAIN Gone
                   PROVE  owned'[call[d].proc] \subseteq owned[call[d].proc]
        OBVIOUS
      <4>1. lifecycle = d /\ call[d].proc \in Procs
        BY Holder DEF Gone, TerminatePlaces, Things
      <4>2. ~Untouched(call[d].proc)
        BY <4>1 DEF Untouched
      <4> QED
        BY <4>1, <4>2
    <3>2. call[d] \in Calls /\ CallOK(d)
      BY <1>1 DEF RuntimeInv, Types
    <3> QED
      BY <1>1, <1>3, <2>1, <3>1, <3>2, UseFrame
  <2> QED
    BY <2>1
<1>5. ASSUME NEW q \in Procs
      PROVE  OwnOK(q)'
  <2>1. OwnOK(q)
    BY DEF QuietInv
  <2>2. CASE owned'[q] \subseteq owned[q]
    BY <1>1, <2>1, <2>2 DEF OwnOK, NoProgress
  <2>3. CASE Untouched(q) /\ Live(q)'
    <3>1. ~ Ended(q)'
      BY <2>3 DEF Live, Ended, Terminal
    <3>2. progress'[q].phase = "none"
      BY <2>3 DEF Untouched, NoProgress
    <3> QED
      BY <3>1, <3>2 DEF OwnOK
  <2> QED
    BY <2>2, <2>3
<1> QED
  BY <1>4, <1>5 DEF QuietInv

\* A step of the caller that holds the lock.
LEMMA QuietHolder ==
  ASSUME RuntimeInv, QuietInv, Quiet, UNCHANGED work, NEW c \in Callers, NEW p \in Procs,
         lifecycle = c, p = call[c].proc,
         lifecycle' = None \/ (lifecycle' = c /\ call'[c].proc = p),
         \A d \in Callers \ {c} : pc'[d] = pc[d] /\ call'[d] = call[d],
         \A q \in Procs \ {p} : /\ Live(q) => Live(q)'
                                /\ Ended(q)' => Ended(q)
                                /\ progress'[q] = progress[q]
                                /\ owned'[q] \subseteq owned[q] \cup Residue \/ (Untouched(q) /\ Live(q)'),
         UseOK(c)', OwnOK(p)'
  PROVE  QuietInv'
<1>1. Types /\ Residue' = Residue /\ \A d \in Callers : UseOK(d)
  BY ResidueKept DEF RuntimeInv, QuietInv
<1>2. \A q \in Procs : Untouched(q) => q # p /\ Untouched(q)' /\ (Live(q) => Live(q)')
  BY EmptyTypes DEF Untouched
<1>3. ASSUME NEW d \in Callers \ {c}
      PROVE  UseOK(d)'
  <2>1. pc[d] \notin DOMAIN Gone
    BY Holder DEF Gone, TerminatePlaces, Things
  <2>2. call[d] \in Calls /\ CallOK(d) /\ UseOK(d)
    BY <1>1 DEF RuntimeInv, Types
  <2> QED
    BY <1>2, <2>1, <2>2, UseFrame
<1>4. ASSUME NEW q \in Procs \ {p}
      PROVE  OwnOK(q)'
  <2>1. OwnOK(q)
    BY DEF QuietInv
  <2>2. CASE owned'[q] \subseteq owned[q] \cup Residue
    BY <1>1, <2>1, <2>2 DEF OwnOK
  <2>3. CASE Untouched(q) /\ Live(q)'
    <3>1. ~ Ended(q)'
      BY <2>3 DEF Live, Ended, Terminal
    <3>2. progress'[q].phase = "none"
      BY <2>3 DEF Untouched, NoProgress
    <3> QED
      BY <3>1, <3>2 DEF OwnOK
  <2> QED
    BY <2>2, <2>3
<1> QED
  BY <1>3, <1>4 DEF QuietInv

\* A caller ends its call.
LEMMA EndQuiet ==
  ASSUME RuntimeInv, QuietInv, Quiet, UNCHANGED work, NEW c \in Callers, End(c) \/ Panic(c),
         UNCHANGED <<record, progress>>,
         \A q \in Procs : owned'[q] \subseteq owned[q] \/ (Untouched(q) /\ Live(q))
  PROVE  QuietInv'
<1>1. /\ Types /\ call' = [call EXCEPT ![c] = NoCall]
      /\ lifecycle' = IF lifecycle = c THEN None ELSE lifecycle
      /\ pc' = [pc EXCEPT ![c] = "idle"] \/ pc' = [pc EXCEPT ![c] = "panicked"]
  BY DEF RuntimeInv, End, Panic
<1>2. /\ pc'[c] \in {"idle", "panicked"} /\ call'[c] = NoCall
      /\ \A d \in Callers \ {c} : pc'[d] = pc[d] /\ call'[d] = call[d]
  BY <1>1 DEF Types
<1>3. UseOK(c)'
  BY <1>2 DEF UseOK, NoCall, Gone
<1>4. \A q \in Procs : (Live(q)' <=> Live(q)) /\ (Ended(q)' <=> Ended(q))
  BY DEF Live, Ended
<1>5. CASE lifecycle = c
  <2>1. PICK p \in Procs : p = call[c].proc
    BY <1>5, Holder DEF RuntimeInv, CallOK
  <2>2. owned'[p] \subseteq owned[p]
    BY <1>5, <2>1 DEF Untouched
  <2>3. OwnOK(p)'
    BY <1>1, <1>4, <2>2, ResidueKept DEF QuietInv, OwnOK
  <2>4. \A q \in Procs \ {p} : /\ Live(q) => Live(q)'
                               /\ Ended(q)' => Ended(q)
                               /\ progress'[q] = progress[q]
                               /\ owned'[q] \subseteq owned[q] \cup Residue \/ (Untouched(q) /\ Live(q)')
    BY <1>4
  <2> QED
    BY <1>1, <1>2, <1>3, <1>5, <2>1, <2>3, <2>4, QuietHolder
<1>6. CASE lifecycle # c
  BY <1>1, <1>2, <1>3, <1>4, <1>6, QuietBystander
<1> QED
  BY <1>5, <1>6

\* A caller goes on in its call.
LEMMA MoveQuiet ==
  ASSUME RuntimeInv, QuietInv, Quiet, UNCHANGED work, NEW c \in Callers, lifecycle' = lifecycle,
         \A d \in Callers \ {c} : pc'[d] = pc[d] /\ call'[d] = call[d],
         call'[c].proc = call[c].proc, UNCHANGED <<record, progress>>,
         \A q \in Procs : owned'[q] \subseteq owned[q] \/ (Untouched(q) /\ Live(q)),
         UseOK(c)'
  PROVE  QuietInv'
<1>1. \A q \in Procs : (Live(q)' <=> Live(q)) /\ (Ended(q)' <=> Ended(q))
  BY DEF Live, Ended
<1>2. CASE lifecycle = c
  <2>1. PICK p \in Procs : p = call[c].proc
    BY <1>2, Holder DEF RuntimeInv, CallOK
  <2>2. owned'[p] \subseteq owned[p]
    BY <1>2, <2>1 DEF Untouched
  <2>3. OwnOK(p)'
    BY <1>1, <2>2, ResidueKept DEF RuntimeInv, QuietInv, OwnOK
  <2>4. \A q \in Procs \ {p} : /\ Live(q) => Live(q)'
                               /\ Ended(q)' => Ended(q)
                               /\ progress'[q] = progress[q]
                               /\ owned'[q] \subseteq owned[q] \cup Residue \/ (Untouched(q) /\ Live(q)')
    BY <1>1
  <2> QED
    BY <1>2, <2>1, <2>3, <2>4, QuietHolder
<1>3. CASE lifecycle # c
  BY <1>1, <1>3, QuietBystander
<1> QED
  BY <1>2, <1>3

\* A caller begins to spawn, to submit, to register or to reap.
LEMMA BeginQuiet ==
  ASSUME RuntimeInv, QuietInv, Quiet, UNCHANGED work, NEW c \in Callers,
         pc[c] = "idle", lifecycle' = lifecycle, UNCHANGED <<progress, owned>>,
         \A d \in Callers \ {c} : pc'[d] = pc[d] /\ call'[d] = call[d],
         \A q \in Procs : (Live(q) => Live(q)') /\ (Ended(q)' => Ended(q)),
         UseOK(c)'
  PROVE  QuietInv'
BY IdleFree, QuietBystander

LEMMA SpawnQuiet ==
  ASSUME RuntimeInv, QuietInv, Quiet, UNCHANGED work, NEW c \in Callers, NEW a \in Agents,
         NEW p \in Procs \cup {None}, Spawn(c, a, p)
  PROVE  QuietInv'
<1> USE DEF table, terminal
<1> DEFINE what == [Spawning(a) EXCEPT !.parent = p]
<1>1. /\ pc[c] = "idle" /\ pc' = [pc EXCEPT ![c] = "inspect"] /\ call' = [call EXCEPT ![c] = what]
      /\ UNCHANGED <<lifecycle, table, terminal, owned, incidents, history>>
      /\ p # None => ~Terminating(p)
  BY DEF Spawn, Begin, Goto
<1>2. what.parent = p /\ what.kind = "spawn"
  BY DEF Spawning, NoCall
<1> HIDE DEF what
<1>3. /\ pc'[c] = "inspect" /\ call'[c] = what
      /\ \A d \in Callers \ {c} : pc'[d] = pc[d] /\ call'[d] = call[d]
  BY <1>1 DEF RuntimeInv, Types
<1>4. p # None => Untouched(p)'
  <2> SUFFICES ASSUME p # None
               PROVE  Untouched(p)'
    OBVIOUS
  <2>1. Untouched(p) /\ lifecycle # c
    BY <1>1, NotTerminating, IdleFree
  <2> QED
    BY <1>1, <1>3, <2>1 DEF Untouched
<1>5. UseOK(c)'
  BY <1>2, <1>3, <1>4 DEF UseOK, Gone, Untouched
<1>6. \A q \in Procs : (Live(q) => Live(q)') /\ (Ended(q)' => Ended(q))
  BY <1>1 DEF Live, Ended
<1> QED
  BY <1>1, <1>3, <1>5, <1>6, BeginQuiet

LEMMA SubmitQuiet ==
  ASSUME RuntimeInv, QuietInv, Quiet, UNCHANGED work, NEW c \in Callers, NEW p \in Procs,
         Submit(c, p) \/ RegisterMailbox(c, p)
  PROVE  QuietInv'
<1> USE DEF table, terminal
<1>1. PICK kind \in {"submit", "register"} :
        /\ pc[c] = "idle" /\ pc' = [pc EXCEPT ![c] = kind]
        /\ call' = [call EXCEPT ![c] = [NoCall EXCEPT !.kind = kind, !.proc = p]]
        /\ UNCHANGED <<lifecycle, table, terminal, owned, incidents, history>>
        /\ Live(p) /\ ~Terminating(p)
  BY DEF Submit, RegisterMailbox, Begin, Goto
<1> DEFINE what == [NoCall EXCEPT !.kind = kind, !.proc = p]
<1>2. what.proc = p /\ what.kind = kind
  BY DEF NoCall
<1> HIDE DEF what
<1>3. /\ pc'[c] = kind /\ call'[c] = what
      /\ \A d \in Callers \ {c} : pc'[d] = pc[d] /\ call'[d] = call[d]
  BY <1>1 DEF RuntimeInv, Types, what
<1>4. Live(p)' /\ Untouched(p)'
  <2>1. Untouched(p) /\ lifecycle # c
    BY <1>1, NotTerminating, IdleFree
  <2> QED
    BY <1>1, <1>3, <2>1 DEF Untouched, Live
<1>5. UseOK(c)'
  BY <1>2, <1>3, <1>4 DEF UseOK, Gone, Untouched, Live
<1>6. \A q \in Procs : (Live(q) => Live(q)') /\ (Ended(q)' => Ended(q))
  BY <1>1 DEF Live, Ended
<1> QED
  BY <1>1, <1>3, <1>5, <1>6, BeginQuiet

LEMMA ReapQuiet ==
  ASSUME RuntimeInv, QuietInv, Quiet, UNCHANGED work, NEW c \in Callers, NEW p \in Procs, Reap(c, p)
  PROVE  QuietInv'
<1> USE DEF terminal
<1> DEFINE what == [NoCall EXCEPT !.kind = "reap", !.proc = p, !.agent = record[p].agent]
<1>1. /\ pc[c] = "idle" /\ pc' = [pc EXCEPT ![c] = "forget"] /\ call' = [call EXCEPT ![c] = what]
      /\ record' = [record EXCEPT ![p].state = "reaped"] /\ record[p].state \in Terminal
      /\ UNCHANGED <<lifecycle, byAgent, specs, terminal, owned, incidents, history>>
  BY DEF Reap, Begin, Goto
<1>2. what.kind = "reap"
  BY DEF NoCall
<1> HIDE DEF what
<1>3. /\ pc'[c] = "forget" /\ call'[c] = what
      /\ \A d \in Callers \ {c} : pc'[d] = pc[d] /\ call'[d] = call[d]
  BY <1>1 DEF RuntimeInv, Types
<1>4. UseOK(c)'
  BY <1>2, <1>3 DEF UseOK, Gone
<1>5. \A q \in Procs : (Live(q) => Live(q)') /\ (Ended(q)' => Ended(q))
  BY <1>1 DEF Live, Ended, Terminal, RuntimeInv, Types
<1> QED
  BY <1>1, <1>3, <1>4, <1>5, BeginQuiet

LEMMA ForgetQuiet ==
  ASSUME RuntimeInv, QuietInv, Quiet, UNCHANGED work, NEW c \in Callers, ReapForget(c)
  PROVE  QuietInv'
<1>1. /\ pc[c] = "forget" /\ pc' = [pc EXCEPT ![c] = "unbind"]
      /\ progress' = [progress EXCEPT ![Proc(c)] = NoProgress]
      /\ UNCHANGED <<call, lifecycle, record, owned>>
  BY DEF ReapForget, Goto
<1>2. /\ pc'[c] = "unbind" /\ \A d \in Callers \ {c} : pc'[d] = pc[d] /\ call'[d] = call[d]
      /\ \A q \in Procs : progress'[q] = progress[q] \/ progress'[q] = NoProgress
  BY <1>1 DEF RuntimeInv, Types
<1>3. lifecycle # c /\ call[c].kind # "terminate"
  BY <1>1 DEF RuntimeInv, CallOK, TermOK, TerminatePlaces, SpawnPlaces, Things
<1>4. UseOK(c)'
  <2>1. UseOK(c) /\ call[c] \in Calls
    BY DEF QuietInv, RuntimeInv, Types
  <2>2. ASSUME call[c].kind = "spawn", call[c].parent # None
        PROVE  Untouched(call[c].parent)'
    <3>1. PICK q \in Procs : q = call[c].parent
      BY <2>1, <2>2 DEF Calls, Ids
    <3>2. Untouched(q)
      BY <2>1, <2>2, <3>1 DEF UseOK
    <3> QED
      BY <1>1, <1>2, <3>1, <3>2 DEF Untouched
  <2> QED
    BY <1>1, <1>2, <2>2 DEF UseOK, Gone
<1>5. \A q \in Procs : (Live(q) => Live(q)') /\ (Ended(q)' => Ended(q))
  BY <1>1 DEF Live, Ended
<1> QED
  BY <1>1, <1>2, <1>3, <1>4, <1>5, QuietBystander

\* Things are given to live processes that are not terminated.
LEMMA GiveQuiet ==
  ASSUME RuntimeInv, QuietInv, Quiet, UNCHANGED work, NEW p \in Procs, NEW thing \in Things,
         Give(p, thing) \/ Take(p, thing)
  PROVE  QuietInv'
<1> USE DEF table, terminal
<1>1. UNCHANGED <<pc, call, lifecycle, table, terminal, incidents, history>>
  BY DEF Give, Take
<1>2. \A q \in Procs : (Live(q)' <=> Live(q)) /\ (Ended(q)' <=> Ended(q))
  BY <1>1 DEF Live, Ended
<1>3. \A q \in Procs : owned'[q] \subseteq owned[q] \/ (Untouched(q) /\ Live(q))
  <2>1. CASE Take(p, thing)
    BY <2>1 DEF Take, Lose, RuntimeInv, Types
  <2>2. CASE Give(p, thing)
    <3>1. Untouched(p) /\ Live(p)
      BY <2>2, NotTerminating DEF Give
    <3> QED
      BY <2>2, <3>1 DEF Give, Gain, RuntimeInv, Types
  <2> QED
    BY <2>1, <2>2
<1> QED
  BY <1>1, <1>2, <1>3, QuietBystander

LEMMA SuperviseQuiet ==
  ASSUME RuntimeInv, QuietInv, Quiet, UNCHANGED work, NEW p \in Procs, Supervise(p)
  PROVE  QuietInv'
<1> USE DEF table
<1>1. UNCHANGED <<pc, call, lifecycle, table, progress, owned>>
  BY DEF Supervise
<1>2. \A q \in Procs : (Live(q)' <=> Live(q)) /\ (Ended(q)' <=> Ended(q))
  BY <1>1 DEF Live, Ended
<1> QED
  BY <1>1, <1>2, QuietBystander

LEMMA SubmitInsertQuiet ==
  ASSUME RuntimeInv, QuietInv, Quiet, UNCHANGED work, NEW c \in Callers,
         SubmitInsert(c) \/ RegisterEnter(c) \/ ReapUnbind(c)
  PROVE  QuietInv'
<1> USE DEF table, terminal
<1>1. End(c) /\ UNCHANGED <<record, progress>>
  BY DEF SubmitInsert, RegisterEnter, ReapUnbind
<1>2. \A q \in Procs : owned'[q] \subseteq owned[q] \/ (Untouched(q) /\ Live(q))
  <2>1. CASE ReapUnbind(c)
    BY <2>1 DEF ReapUnbind
  <2>2. CASE SubmitInsert(c) \/ RegisterEnter(c)
    <3>1. pc[c] \in {"submit", "enter"}
      BY <2>2 DEF SubmitInsert, RegisterEnter
    <3>2. Untouched(call[c].proc) /\ Live(call[c].proc)
      BY <3>1 DEF QuietInv, UseOK
    <3>3. \A q \in Procs : q # call[c].proc => owned'[q] = owned[q]
      BY <2>2 DEF SubmitInsert, RegisterEnter, Gain, Proc, RuntimeInv, Types
    <3> QED
      BY <3>2, <3>3
  <2> QED
    BY <2>1, <2>2
<1> QED
  BY <1>1, <1>2, EndQuiet

LEMMA RegisterQuiet ==
  ASSUME RuntimeInv, QuietInv, Quiet, UNCHANGED work, NEW c \in Callers, Register(c)
  PROVE  QuietInv'
<1> USE DEF table, terminal
<1>1. Types /\ pc[c] = "register" /\ UseOK(c) /\ UNCHANGED <<table, terminal, owned, incidents, history>>
  BY DEF RuntimeInv, QuietInv, Register
<1>2. CASE End(c)
  BY <1>1, <1>2, EndQuiet
<1>3. CASE Goto(c, "enter") /\ UNCHANGED <<call, lifecycle>>
  <2>1. pc'[c] = "enter" /\ \A d \in Callers \ {c} : pc'[d] = pc[d] /\ call'[d] = call[d]
    BY <1>1, <1>3 DEF Goto, Types
  <2>2. UseOK(c)'
    BY <1>1, <1>3, <2>1 DEF UseOK, Gone, Untouched, Live
  <2> QED
    BY <1>1, <1>3, <2>1, <2>2, MoveQuiet
<1> QED
  BY <1>2, <1>3 DEF Register

LEMMA InspectQuiet ==
  ASSUME RuntimeInv, QuietInv, Quiet, UNCHANGED work, NEW c \in Callers, SpawnInspect(c)
  PROVE  QuietInv'
<1> USE DEF table, terminal
<1>1. Types /\ pc[c] = "inspect" /\ call[c] \in Calls /\ UseOK(c)
  BY DEF RuntimeInv, QuietInv, Types, SpawnInspect
<1>2. UNCHANGED <<table, terminal, owned, incidents, history>>
  BY DEF SpawnInspect
<1>3. CASE End(c)
  BY <1>2, <1>3, EndQuiet
<1>4. CASE /\ Goto(c, "parent")
           /\ call' = [call EXCEPT ![c].existing = None]
           /\ UNCHANGED lifecycle
  <2> DEFINE what == [call[c] EXCEPT !.existing = None]
  <2>1. call' = [call EXCEPT ![c] = what] /\ pc' = [pc EXCEPT ![c] = "parent"]
    BY <1>4 DEF Goto
  <2>2. what.kind = call[c].kind /\ what.proc = call[c].proc /\ what.parent = call[c].parent
    BY <1>1 DEF Calls
  <2> HIDE DEF what
  <2>3. /\ pc'[c] = "parent" /\ call'[c] = what
        /\ \A d \in Callers \ {c} : pc'[d] = pc[d] /\ call'[d] = call[d]
    BY <1>1, <2>1 DEF Types
  <2>4. (call[c].kind = "spawn" /\ call[c].parent # None) => Untouched(call[c].parent)'
    <3> SUFFICES ASSUME call[c].kind = "spawn", call[c].parent # None
                 PROVE  Untouched(call[c].parent)'
      OBVIOUS
    <3>1. \A d \in Callers : call'[d].proc = call[d].proc
      BY <2>2, <2>3
    <3> QED
      BY <1>1, <1>2, <1>4, <2>2, <2>3, <3>1 DEF UseOK, Untouched
  <2>5. UseOK(c)'
    BY <2>2, <2>3, <2>4 DEF UseOK, Gone
  <2> QED
    BY <1>2, <1>4, <2>2, <2>3, <2>5, MoveQuiet
<1> QED
  BY <1>3, <1>4 DEF SpawnInspect

LEMMA ParentQuiet ==
  ASSUME RuntimeInv, QuietInv, Quiet, UNCHANGED work, NEW c \in Callers, SpawnParent(c)
  PROVE  QuietInv'
<1> USE DEF table, terminal
<1>1. Types /\ pc[c] = "parent" /\ UseOK(c)
  BY DEF RuntimeInv, QuietInv, SpawnParent
<1>2. UNCHANGED <<table, terminal, owned, incidents, history>>
  BY DEF SpawnParent
<1>3. CASE End(c)
  BY <1>2, <1>3, EndQuiet
<1>4. CASE /\ Goto(c, "insert") /\ UNCHANGED <<call, lifecycle>>
           /\ call[c].parent # None => Live(call[c].parent)
  <2>1. pc'[c] = "insert" /\ \A d \in Callers \ {c} : pc'[d] = pc[d] /\ call'[d] = call[d]
    BY <1>1, <1>4 DEF Goto, Types
  <2>2. UseOK(c)'
    BY <1>1, <1>2, <1>4, <2>1 DEF UseOK, Gone, Untouched, Live
  <2> QED
    BY <1>2, <1>4, <2>1, <2>2, MoveQuiet
<1> QED
  BY <1>3, <1>4 DEF SpawnParent

LEMMA BudgetQuiet ==
  ASSUME RuntimeInv, QuietInv, Quiet, UNCHANGED work, NEW c \in Callers, SpawnBudget(c) \/ SpawnNote(c)
  PROVE  QuietInv'
<1> USE DEF table, terminal
<1>1. Types /\ pc[c] \in {"reserve", "note"} /\ UseOK(c)
  BY DEF RuntimeInv, QuietInv, SpawnBudget, SpawnNote
<1>2. UNCHANGED <<call, lifecycle, table, terminal>>
  BY DEF SpawnBudget, SpawnNote
<1>3. pc'[c] \in {"note", "identity"} /\ \A d \in Callers \ {c} : pc'[d] = pc[d] /\ call'[d] = call[d]
  BY <1>1, <1>2 DEF SpawnBudget, SpawnNote, Goto, Types
<1>4. UseOK(c)'
  BY <1>1, <1>2, <1>3 DEF UseOK, Gone, Untouched, Live
<1>5. \A q \in Procs : owned'[q] \subseteq owned[q] \/ (Untouched(q) /\ Live(q))
  <2>1. Untouched(call[c].new) /\ Live(call[c].new)
    BY <1>1 DEF UseOK
  <2>2. \A q \in Procs : q # call[c].new => owned'[q] = owned[q]
    BY <1>1 DEF SpawnBudget, SpawnNote, Gain, Types
  <2> QED
    BY <2>1, <2>2
<1> QED
  BY <1>2, <1>3, <1>4, <1>5, MoveQuiet

\* What a dropped caller leaves open is left to a process that lives.
LEMMA DropQuiet ==
  ASSUME RuntimeInv, QuietInv, Quiet, UNCHANGED work, NEW c \in Callers, Drop(c)
  PROVE  QuietInv'
<1> USE DEF table, terminal
<1>1. Types /\ UseOK(c) /\ End(c) /\ UNCHANGED <<record, progress>>
  BY DEF RuntimeInv, QuietInv, Drop
<1>2. \A q \in Procs : owned'[q] \subseteq owned[q] \/ (Untouched(q) /\ Live(q))
  <2>1. CASE pc[c] = "note"
    <3>1. Untouched(call[c].new) /\ Live(call[c].new)
      BY <1>1, <2>1 DEF UseOK
    <3>2. \A q \in Procs : q # call[c].new => owned'[q] = owned[q]
      BY <1>1, <2>1 DEF Drop, Gain, Types
    <3> QED
      BY <3>1, <3>2
  <2>2. CASE pc[c] = "enter"
    <3>1. Untouched(call[c].proc) /\ Live(call[c].proc)
      BY <1>1, <2>2 DEF UseOK
    <3>2. \A q \in Procs : q # call[c].proc => owned'[q] = owned[q]
      BY <1>1, <2>2 DEF Drop, Gain, Types, Proc
    <3> QED
      BY <3>1, <3>2
  <2>3. CASE pc[c] \notin {"note", "enter"}
    BY <2>3 DEF Drop
  <2> QED
    BY <2>1, <2>2, <2>3
<1> QED
  BY <1>1, <1>2, EndQuiet

LEMMA IdentityQuiet ==
  ASSUME RuntimeInv, QuietInv, Quiet, UNCHANGED work, NEW c \in Callers, SpawnIdentity(c)
  PROVE  QuietInv'
<1> USE DEF table, terminal
<1>1. Types /\ pc[c] = "identity" /\ UNCHANGED <<record, terminal, owned>>
  BY DEF RuntimeInv, SpawnIdentity
<1>2. CASE End(c)
  BY <1>1, <1>2, EndQuiet
<1>3. CASE call[c].kind = "terminate" /\ Goto(c, "lineage") /\ UNCHANGED <<call, lifecycle>>
  <2>1. pc'[c] = "lineage" /\ \A d \in Callers \ {c} : pc'[d] = pc[d] /\ call'[d] = call[d]
    BY <1>1, <1>3 DEF Goto, Types
  <2>2. UseOK(c)'
    BY <1>3, <2>1 DEF UseOK, Gone
  <2> QED
    BY <1>1, <1>3, <2>1, <2>2, MoveQuiet
<1> QED
  BY <1>2, <1>3 DEF SpawnIdentity

\* A parent gets a space: it lives and is not terminated, or the space is the residue.
LEMMA InsertQuiet ==
  ASSUME RuntimeInv, QuietInv, Quiet, UNCHANGED work, NEW c \in Callers, SpawnInsert(c)
  PROVE  QuietInv'
<1> USE DEF table, terminal
<1>1. Types /\ pc[c] = "insert" /\ CallOK(c) /\ call[c] \in Calls /\ UseOK(c)
  BY DEF RuntimeInv, QuietInv, Types, SpawnInsert
<1>2. PICK new \in 1..Workloads[work].procs :
        /\ record[new] = NoRecord
        /\ record' = [record EXCEPT ![new] = [agent |-> call[c].agent, parent |-> call[c].parent,
                                              state |-> "live", exit |-> "none"]]
        /\ call' = [call EXCEPT ![c].new = new]
        /\ owned' = [p \in Procs |->
                      IF call[c].parent # None /\ p \in {new, call[c].parent}
                      THEN owned[p] \cup {"space"} ELSE owned[p]]
  BY DEF SpawnInsert
<1>3. pc' = [pc EXCEPT ![c] = "reserve"] /\ UNCHANGED <<lifecycle, terminal>>
  BY DEF SpawnInsert, Goto
<1>4. new \in Procs /\ record[new].state = "none" /\ progress[new] = NoProgress
  BY <1>1, <1>2, WorkKept DEF RuntimeInv, ProcOK, NoRecord
<1> DEFINE what == [call[c] EXCEPT !.new = new]
<1>5. /\ call' = [call EXCEPT ![c] = what] /\ what.kind = call[c].kind /\ what.proc = call[c].proc
      /\ what.new = new /\ what.parent = call[c].parent
  BY <1>1, <1>2 DEF Calls
<1> HIDE DEF what
<1>6. /\ pc'[c] = "reserve" /\ call'[c] = what
      /\ \A d \in Callers \ {c} : pc'[d] = pc[d] /\ call'[d] = call[d]
      /\ record'[new].state = "live" /\ \A q \in Procs \ {new} : record'[q] = record[q]
  BY <1>1, <1>2, <1>3, <1>4, <1>5 DEF Types
<1>7. Untouched(new)
  <2>1. lifecycle \in Callers => TermOK(lifecycle)
    BY DEF RuntimeInv
  <2> QED
    BY <1>4, <2>1 DEF TermOK, Untouched
<1>8. \A q \in Procs : Untouched(q) => Untouched(q)'
  <2>1. \A d \in Callers : call'[d].proc = call[d].proc
    BY <1>5, <1>6
  <2> QED
    BY <1>3, <2>1 DEF Untouched
<1>9. Live(new)' /\ Untouched(new)'
  BY <1>4, <1>6, <1>7, <1>8 DEF Live
<1>10. UseOK(c)'
  <2>1. (call[c].kind = "spawn" /\ call[c].parent # None) => Untouched(call[c].parent)'
    <3> SUFFICES ASSUME call[c].kind = "spawn", call[c].parent # None
                 PROVE  Untouched(call[c].parent)'
      OBVIOUS
    <3>1. PICK q \in Procs : q = call[c].parent
      BY <1>1 DEF Calls, Ids
    <3>2. Untouched(q)'
      BY <1>1, <1>8, <3>1 DEF UseOK
    <3>3. call'[c].parent = q
      BY <1>5, <1>6, <3>1
    <3> QED
      BY <3>2, <3>3 DEF Untouched
  <2>2. call'[c].new = new /\ call'[c].kind = call[c].kind /\ call'[c].parent = call[c].parent
    BY <1>5, <1>6
  <2>3. Live(call[c].new)' /\ Untouched(call[c].new)'
    BY <1>9, <2>2 DEF Live, Untouched
  <2> QED
    BY <1>6, <2>1, <2>2, <2>3 DEF UseOK, Gone
<1>11. \A q \in Procs : (Live(q) => Live(q)') /\ (Ended(q)' => Ended(q))
  BY <1>4, <1>6 DEF Live, Ended, Terminal
<1>12. CASE call[c].kind = "terminate"
  <2>1. lifecycle = c /\ TermOK(c)
    BY <1>12, Holder
  <2>2. PICK p \in Procs : p = call[c].proc
    BY <2>1 DEF TermOK
  <2>3. call[c].parent # None => "space" \in Residue
    <3>1. /\ call[c].parent # None => Forks
          /\ history[p].before < restarts[p] /\ history[p] \in Histories /\ restarts[p] \in 0..MaxRestarts
      BY <1>1, <2>1, <2>2 DEF CallOK, TermOK, Types
    <3>2. MaxRestarts # 0
      BY <1>1, <3>1, WorkKept DEF Histories
    <3> QED
      BY <3>1, <3>2 DEF Residue
  <2>4. \A q \in Procs \ {new} : owned'[q] \subseteq owned[q] \cup Residue
    BY <1>2, <2>3
  <2>5. p # new /\ Residue' = Residue
    BY <1>1, <1>7, <2>1, <2>2, ResidueKept DEF Untouched
  <2>6. OwnOK(p)'
    BY <1>3, <1>6, <2>4, <2>5 DEF QuietInv, OwnOK, Ended
  <2>7. \A q \in Procs \ {p} : /\ Live(q) => Live(q)'
                               /\ Ended(q)' => Ended(q)
                               /\ progress'[q] = progress[q]
                               /\ owned'[q] \subseteq owned[q] \cup Residue \/ (Untouched(q) /\ Live(q)')
    BY <1>3, <1>7, <1>9, <1>11, <2>4
  <2>8. call'[c].proc = p /\ lifecycle' = c
    BY <1>3, <1>5, <1>6, <2>1, <2>2
  <2> QED
    BY <1>6, <1>10, <2>1, <2>2, <2>6, <2>7, <2>8, QuietHolder
<1>13. CASE call[c].kind # "terminate"
  <2>1. lifecycle # c /\ call[c].kind = "spawn"
    BY <1>1, <1>13 DEF CallOK, SpawnPlaces
  <2>2. \A q \in Procs : owned'[q] \subseteq owned[q] \/ (Untouched(q) /\ Live(q)')
    <3> SUFFICES ASSUME NEW q \in Procs, call[c].parent # None, q \in {new, call[c].parent}
                 PROVE  Untouched(q) /\ Live(q)'
      BY <1>2
    <3>1. CASE q = new
      BY <1>7, <1>9, <3>1
    <3>2. CASE q = call[c].parent
      <4>1. Untouched(q) /\ Live(q)
        BY <1>1, <2>1, <3>2 DEF UseOK
      <4> QED
        BY <1>11, <4>1
    <3> QED
      BY <3>1, <3>2
  <2> QED
    BY <1>3, <1>6, <1>10, <1>11, <2>1, <2>2, QuietBystander
<1> QED
  BY <1>12, <1>13

\* The process is not in use.
LEMMA TerminateQuiet ==
  ASSUME RuntimeInv, QuietInv, Quiet, UNCHANGED work, NEW c \in Callers, NEW p \in Procs, NEW why \in Reasons,
         Terminate(c, p, why)
  PROVE  QuietInv'
<1> USE DEF table
<1>1. Types /\ lifecycle = None /\ ~Used(p) /\ UNCHANGED <<table, owned>> /\ pc[c] = "idle"
  BY DEF RuntimeInv, Terminate, Begin
<1>2. \A q \in Procs : (Live(q)' <=> Live(q)) /\ (Ended(q)' <=> Ended(q))
  BY <1>1 DEF Live, Ended
<1>3. CASE outcome[p] # NoOutcome
  <2>1. UNCHANGED <<pc, call, lifecycle, progress>>
    BY <1>3 DEF Terminate
  <2> QED
    BY <1>1, <1>2, <2>1, QuietBystander
<1>4. CASE outcome[p] = NoOutcome
  <2> DEFINE g == Enter(p, why)
             what == [NoCall EXCEPT !.kind = "terminate", !.proc = p]
  <2>1. /\ pc' = [pc EXCEPT ![c] = Resume(g.phase)] /\ call' = [call EXCEPT ![c] = what]
        /\ progress' = [progress EXCEPT ![p] = g] /\ lifecycle' = c
    BY <1>4 DEF Terminate, Begin, Goto
  <2>2. what.kind = "terminate" /\ what.proc = p
    BY DEF NoCall
  <2>3. /\ g.phase \in Phases
        /\ g.phase = "MarkTerminal" => progress[p].phase = "MarkTerminal"
    <3>1. CASE progress[p] = NoProgress
      BY <3>1 DEF Enter, NoProgress, Phases
    <3>2. CASE progress[p] # NoProgress
      BY <3>2 DEF Enter, RuntimeInv, ProcOK, Types, Progresses
    <3> QED
      BY <3>1, <3>2
  <2> HIDE DEF g, what
  <2>4. Resume(g.phase) \in {"operation", "mark", "supervise", "restart"}
    BY <2>3 DEF Resume, Phases
  <2>5. /\ pc'[c] = Resume(g.phase) /\ call'[c] = what /\ progress'[p] = g
        /\ \A d \in Callers \ {c} : pc'[d] = pc[d] /\ call'[d] = call[d]
        /\ \A q \in Procs \ {p} : progress'[q] = progress[q]
    BY <1>1, <2>1 DEF Types
  <2>6. UseOK(c)'
    BY <2>2, <2>4, <2>5 DEF UseOK, Gone
  <2>7. \A q \in Procs \ {p} : Untouched(q) => Untouched(q)'
    BY <2>1, <2>2, <2>5 DEF Untouched
  <2>8. ASSUME NEW d \in Callers \ {c}
        PROVE  UseOK(d)'
    <3>1. UseOK(d) /\ CallOK(d) /\ call[d] \in Calls
      BY <1>1 DEF QuietInv, RuntimeInv, Types
    <3>2. CASE pc[d] \in {"idle", "panicked"}
      BY <2>5, <3>1, <3>2 DEF CallOK, UseOK, NoCall, Gone
    <3>3. CASE pc[d] \notin {"idle", "panicked"}
      <4>1. p \notin {call[d].proc, call[d].new, call[d].parent}
        BY <1>1, <3>3 DEF Used
      <4>2. \A q \in {call[d].proc, call[d].new, call[d].parent} \cap Procs :
               Untouched(q) => Untouched(q)' /\ (Live(q) => Live(q)')
        BY <1>2, <2>7, <4>1
      <4> QED
        BY <1>1, <2>5, <3>1, <4>2, UseFrame
    <3> QED
      BY <3>2, <3>3
  <2>9. ASSUME NEW q \in Procs
        PROVE  OwnOK(q)'
    <3>1. OwnOK(q) /\ Residue' = Residue
      BY <1>1, ResidueKept DEF QuietInv
    <3>2. progress'[q].phase = "MarkTerminal" => progress[q].phase = "MarkTerminal"
      BY <2>3, <2>5
    <3> QED
      BY <1>1, <1>2, <3>1, <3>2 DEF OwnOK
  <2> QED
    BY <2>6, <2>8, <2>9 DEF QuietInv
<1> QED
  BY <1>3, <1>4

\* The holder leaves a phase behind, and nothing changes hands.
LEMMA ProgressQuiet ==
  ASSUME RuntimeInv, QuietInv, Quiet, UNCHANGED work, NEW c \in Callers, NEW p \in Procs, lifecycle = c,
         p = call[c].proc, lifecycle' = c, call'[c].proc = p, call'[c].kind = "terminate",
         pc'[c] \in {"supervise", "restart", "finish", "settle"},
         \A d \in Callers \ {c} : pc'[d] = pc[d] /\ call'[d] = call[d],
         \A q \in Procs \ {p} : progress'[q] = progress[q], progress'[p].phase # "MarkTerminal",
         UNCHANGED <<record, owned>>
  PROVE  QuietInv'
<1>1. \A q \in Procs : (Live(q)' <=> Live(q)) /\ (Ended(q)' <=> Ended(q))
  BY DEF Live, Ended
<1>2. UseOK(c)'
  BY DEF UseOK, Gone
<1>3. OwnOK(p)'
  BY <1>1, ResidueKept DEF RuntimeInv, QuietInv, OwnOK
<1>4. \A q \in Procs \ {p} : /\ Live(q) => Live(q)'
                             /\ Ended(q)' => Ended(q)
                             /\ progress'[q] = progress[q]
                             /\ owned'[q] \subseteq owned[q] \cup Residue \/ (Untouched(q) /\ Live(q)')
  BY <1>1
<1> QED
  BY <1>2, <1>3, <1>4, QuietHolder

LEMMA MarkedQuiet ==
  ASSUME RuntimeInv, QuietInv, Quiet, UNCHANGED work, NEW c \in Callers, Marked(c)
  PROVE  QuietInv'
<1> USE DEF table
<1>1. pc[c] = "marked" /\ Advance(c, "Supervise") /\ UNCHANGED <<record, owned>>
  BY DEF Marked
<1>2. /\ lifecycle = c /\ Types /\ call[c].kind = "terminate" /\ call[c].proc \in Procs
      /\ progress[call[c].proc] \in Progresses
  BY <1>1, Holder DEF TerminatePlaces
<1>3. PICK p \in Procs : p = call[c].proc
  BY <1>2
<1>4. CASE Panic(c) /\ UNCHANGED progress
  BY <1>1, <1>4, EndQuiet
<1>5. CASE /\ progress' = [progress EXCEPT ![p].phase = "Supervise"]
           /\ Goto(c, Resume("Supervise")) /\ UNCHANGED <<call, lifecycle>>
  <2>1. /\ pc'[c] = "supervise" /\ \A d \in Callers \ {c} : pc'[d] = pc[d]
    BY <1>2, <1>5 DEF Goto, Resume, Types
  <2>2. /\ progress'[p].phase = "Supervise" /\ \A q \in Procs \ {p} : progress'[q] = progress[q]
    BY <1>2, <1>3, <1>5 DEF Types, Progresses
  <2> QED
    BY <1>1, <1>2, <1>3, <1>5, <2>1, <2>2, ProgressQuiet
<1> QED
  BY <1>1, <1>3, <1>4, <1>5 DEF Advance, Proc

LEMMA SuperviseExitQuiet ==
  ASSUME RuntimeInv, QuietInv, Quiet, UNCHANGED work, NEW c \in Callers, SuperviseExit(c)
  PROVE  QuietInv'
<1> USE DEF table
<1>1. pc[c] = "supervise" /\ UNCHANGED <<record, owned>>
  BY DEF SuperviseExit
<1>2. /\ lifecycle = c /\ Types /\ call[c].kind = "terminate" /\ call[c].proc \in Procs
      /\ progress[call[c].proc] \in Progresses
  BY <1>1, Holder DEF TerminatePlaces
<1>3. PICK p \in Procs : p = call[c].proc
  BY <1>2
<1>4. CASE Panic(c) /\ UNCHANGED progress
  BY <1>1, <1>4, EndQuiet
<1>5. CASE /\ progress' = [progress EXCEPT ![p].decision = Decision(p, progress[p].reason), ![p].phase = "Restart"]
           /\ Goto(c, "restart") /\ UNCHANGED <<call, lifecycle>>
  <2>1. /\ pc'[c] = "restart" /\ \A d \in Callers \ {c} : pc'[d] = pc[d]
    BY <1>2, <1>5 DEF Goto, Types
  <2>2. /\ progress'[p].phase = "Restart" /\ \A q \in Procs \ {p} : progress'[q] = progress[q]
    BY <1>2, <1>3, <1>5 DEF Types, Progresses
  <2> QED
    BY <1>1, <1>2, <1>3, <1>5, <2>1, <2>2, ProgressQuiet
<1> QED
  BY <1>3, <1>4, <1>5 DEF SuperviseExit, Proc

LEMMA RestartedQuiet ==
  ASSUME RuntimeInv, QuietInv, Quiet, UNCHANGED work, NEW c \in Callers, Restarted(c)
  PROVE  QuietInv'
<1> USE DEF table
<1>1. pc[c] = "restarted" /\ UNCHANGED <<record, owned>>
  BY DEF Restarted
<1>2. /\ lifecycle = c /\ Types /\ TermOK(c) /\ call[c].kind = "terminate" /\ call[c].proc \in Procs
      /\ progress[call[c].proc] \in Progresses
  BY <1>1, Holder DEF TerminatePlaces
<1>3. PICK p \in Procs : p = call[c].proc
  BY <1>2
<1>4. CASE Panic(c) /\ UNCHANGED progress
  BY <1>1, <1>4, EndQuiet
<1>5. CASE /\ progress' = [progress EXCEPT ![p].restarted = call[c].new]
           /\ Goto(c, "finish") /\ UNCHANGED <<call, lifecycle>>
  <2>1. /\ pc'[c] = "finish" /\ \A d \in Callers \ {c} : pc'[d] = pc[d]
    BY <1>2, <1>5 DEF Goto, Types
  <2>2. /\ progress'[p].phase = progress[p].phase /\ \A q \in Procs \ {p} : progress'[q] = progress[q]
    BY <1>2, <1>3, <1>5 DEF Types, Progresses
  <2>3. progress[p].phase # "MarkTerminal"
    BY <1>1, <1>2, <1>3 DEF TermOK, NoProgress
  <2> QED
    BY <1>1, <1>2, <1>3, <1>5, <2>1, <2>2, <2>3, ProgressQuiet
<1> QED
  BY <1>3, <1>4, <1>5 DEF Restarted, Proc

LEMMA FinishQuiet ==
  ASSUME RuntimeInv, QuietInv, Quiet, UNCHANGED work, NEW c \in Callers, Finish(c)
  PROVE  QuietInv'
<1> USE DEF table
<1>1. pc[c] = "finish" /\ UNCHANGED <<record, owned>>
  BY DEF Finish
<1>2. /\ lifecycle = c /\ Types /\ call[c].kind = "terminate" /\ call[c].proc \in Procs /\ call[c] \in Calls
  BY <1>1, Holder DEF TerminatePlaces
<1>3. PICK p \in Procs : p = call[c].proc
  BY <1>2
<1>4. CASE Panic(c) /\ UNCHANGED progress
  BY <1>1, <1>4, EndQuiet
<1>5. CASE /\ progress' = [progress EXCEPT ![p] = NoProgress]
           /\ call' = [call EXCEPT ![c].end = [reason |-> progress[p].reason, decision |-> progress[p].decision,
                                              restarted |-> progress[p].restarted]]
           /\ Goto(c, "settle") /\ UNCHANGED lifecycle
  <2>1. /\ pc'[c] = "settle" /\ \A d \in Callers \ {c} : pc'[d] = pc[d] /\ call'[d] = call[d]
        /\ call'[c].proc = p /\ call'[c].kind = "terminate"
    BY <1>2, <1>3, <1>5 DEF Goto, Types, Calls
  <2>2. /\ progress'[p].phase = "none" /\ \A q \in Procs \ {p} : progress'[q] = progress[q]
    BY <1>2, <1>5 DEF Types, NoProgress
  <2> QED
    BY <1>1, <1>2, <1>3, <1>5, <2>1, <2>2, ProgressQuiet
<1> QED
  BY <1>3, <1>4, <1>5 DEF Finish, Proc

\* What was published as ended had been cleaned.
LEMMA MarkQuiet ==
  ASSUME RuntimeInv, QuietInv, Quiet, UNCHANGED work, NEW c \in Callers, Mark(c)
  PROVE  QuietInv'
<1> USE DEF terminal
<1>1. pc[c] = "mark" /\ UNCHANGED <<progress, owned>>
  BY DEF Mark
<1>2. /\ lifecycle = c /\ Types /\ TermOK(c) /\ call[c].kind = "terminate" /\ call[c].proc \in Procs
  BY <1>1, Holder DEF TerminatePlaces
<1>3. PICK p \in Procs : p = call[c].proc
  BY <1>2
<1>4. CASE ~Known(p)
  <2>1. End(c) /\ UNCHANGED record
    BY <1>3, <1>4 DEF Mark, Proc
  <2> QED
    BY <1>1, <2>1, EndQuiet
<1>5. CASE Known(p)
  <2>1. /\ record' = IF ~Live(p) THEN record
                     ELSE [record EXCEPT
                            ![p].state = IF progress[p].reason = "Failed" THEN "Failed" ELSE "Exited",
                            ![p].exit = progress[p].reason]
        /\ pc' = [pc EXCEPT ![c] = "marked"] /\ UNCHANGED <<call, lifecycle>>
    BY <1>3, <1>5 DEF Mark, Proc, Goto
  <2>2. pc'[c] = "marked" /\ \A d \in Callers \ {c} : pc'[d] = pc[d]
    BY <1>2, <2>1 DEF Types
  <2>3. \A q \in Procs \ {p} : record'[q] = record[q]
    BY <1>2, <2>1 DEF Types
  <2>4. progress[p].phase = "MarkTerminal"
    BY <1>1, <1>2, <1>3, <1>5 DEF TermOK, Known, Terminal
  <2>5. UseOK(c)'
    BY <1>2, <2>1, <2>2 DEF UseOK, Gone
  <2>6. OwnOK(p)'
    BY <1>1, <1>2, <2>4, ResidueKept DEF QuietInv, OwnOK
  <2>7. \A q \in Procs \ {p} : /\ Live(q) => Live(q)'
                               /\ Ended(q)' => Ended(q)
                               /\ progress'[q] = progress[q]
                               /\ owned'[q] \subseteq owned[q] \cup Residue \/ (Untouched(q) /\ Live(q)')
    BY <1>1, <2>3 DEF Live, Ended
  <2> QED
    BY <1>2, <1>3, <2>1, <2>2, <2>5, <2>6, <2>7, QuietHolder
<1> QED
  BY <1>4, <1>5

\* One thing after another is taken, until nothing is left that the maps name.
LEMMA CleanupQuiet ==
  ASSUME RuntimeInv, QuietInv, Quiet, UNCHANGED work, NEW c \in Callers, Cleanup(c)
  PROVE  QuietInv'
<1> USE DEF table
<1>1. pc[c] \in Things /\ UNCHANGED record
  BY DEF Cleanup
<1>2. /\ lifecycle = c /\ Types /\ TermOK(c) /\ call[c].kind = "terminate" /\ call[c].proc \in Procs
      /\ progress[call[c].proc] \in Progresses /\ UseOK(c)
  BY <1>1, Holder DEF TerminatePlaces, QuietInv
<1>3. PICK p \in Procs : p = call[c].proc
  BY <1>2
<1>4. \A q \in Procs : (Live(q)' <=> Live(q)) /\ (Ended(q)' <=> Ended(q))
  BY <1>1 DEF Live, Ended
<1>5. CASE End(c) /\ UNCHANGED <<owned, progress>>
  BY <1>1, <1>5, EndQuiet
<1>6. CASE Lose(p, pc[c])
  <2>1. /\ owned'[p] = owned[p] \ {pc[c]} /\ owned[p] \subseteq Things \cup Strays
        /\ \A q \in Procs \ {p} : owned'[q] = owned[q]
    BY <1>2, <1>6 DEF Lose, Types
  <2>2. CASE Panic(c) /\ UNCHANGED progress
    BY <1>1, <2>1, <2>2, EndQuiet
  <2>3. CASE /\ pc[c] = "space" /\ progress' = [progress EXCEPT ![p].phase = "MarkTerminal"]
             /\ Goto(c, "mark") /\ UNCHANGED <<call, lifecycle>>
    <3>1. /\ pc'[c] = "mark" /\ \A d \in Callers \ {c} : pc'[d] = pc[d]
          /\ \A q \in Procs \ {p} : progress'[q] = progress[q]
      BY <1>2, <2>3 DEF Goto, Types
    <3>2. owned'[p] \subseteq Strays
      <4>1. owned[p] \cap {"operation", "permit", "budget", "mailbox"} = {}
        BY <1>2, <1>3, <2>3 DEF UseOK, Gone
      <4> QED
        BY <2>1, <2>3, <4>1 DEF Things
    <3>3. UseOK(c)'
      BY <1>2, <2>3, <3>1 DEF UseOK, Gone
    <3>4. OwnOK(p)'
      BY <3>2 DEF OwnOK
    <3>5. \A q \in Procs \ {p} : /\ Live(q) => Live(q)'
                                 /\ Ended(q)' => Ended(q)
                                 /\ progress'[q] = progress[q]
                                 /\ owned'[q] \subseteq owned[q] \cup Residue \/ (Untouched(q) /\ Live(q)')
      BY <1>4, <2>1, <3>1
    <3> QED
      BY <1>2, <1>3, <2>3, <3>1, <3>3, <3>4, <3>5, QuietHolder
  <2>4. CASE pc[c] # "space" /\ Goto(c, NextThing[pc[c]]) /\ UNCHANGED <<call, lifecycle, progress>>
    <3>1. pc'[c] = NextThing[pc[c]] /\ \A d \in Callers \ {c} : pc'[d] = pc[d]
      BY <1>2, <2>4 DEF Goto, Types
    <3>2. owned'[p] \cap Gone[NextThing[pc[c]]] = {}
      <4>1. CASE pc[c] = "operation"
        BY <2>1, <4>1 DEF Gone, NextThing
      <4>2. CASE pc[c] = "permit"
        <5>1. owned[p] \cap {"operation"} = {}
          BY <1>2, <1>3, <4>2 DEF UseOK, Gone
        <5>2. Gone[NextThing["permit"]] = {"operation", "permit"}
          BY DEF Gone, NextThing
        <5> QED
          BY <2>1, <4>2, <5>1, <5>2
      <4>3. CASE pc[c] = "budget"
        <5>1. owned[p] \cap {"operation", "permit"} = {}
          BY <1>2, <1>3, <4>3 DEF UseOK, Gone
        <5>2. Gone[NextThing["budget"]] = {"operation", "permit", "budget"}
          BY DEF Gone, NextThing
        <5> QED
          BY <2>1, <4>3, <5>1, <5>2
      <4>4. CASE pc[c] = "mailbox"
        <5>1. owned[p] \cap {"operation", "permit", "budget"} = {}
          BY <1>2, <1>3, <4>4 DEF UseOK, Gone
        <5>2. Gone[NextThing["mailbox"]] = {"operation", "permit", "budget", "mailbox"}
          BY DEF Gone, NextThing
        <5> QED
          BY <2>1, <4>4, <5>1, <5>2
      <4> QED
        BY <1>1, <2>4, <4>1, <4>2, <4>3, <4>4 DEF Things
    <3>3. NextThing[pc[c]] \in {"permit", "budget", "mailbox", "space"}
      BY <1>1, <2>4 DEF NextThing, Things
    <3>4. UseOK(c)'
      BY <1>2, <1>3, <2>4, <3>1, <3>2, <3>3 DEF UseOK
    <3>5. \A q \in Procs : owned'[q] \subseteq owned[q] \/ (Untouched(q) /\ Live(q))
      BY <2>1
    <3> QED
      BY <1>1, <2>4, <3>1, <3>4, <3>5, MoveQuiet
  <2>5. \/ Panic(c) /\ UNCHANGED progress
        \/ /\ pc[c] = "space" /\ progress' = [progress EXCEPT ![p].phase = "MarkTerminal"]
           /\ Goto(c, "mark") /\ UNCHANGED <<call, lifecycle>>
        \/ pc[c] # "space" /\ Goto(c, NextThing[pc[c]]) /\ UNCHANGED <<call, lifecycle, progress>>
        \/ End(c) /\ UNCHANGED <<owned, progress>>
    BY <1>3 DEF Cleanup, Advance, Proc, Resume
  <2> QED
    BY <1>5, <2>2, <2>3, <2>4, <2>5
<1> QED
  BY <1>3, <1>5, <1>6 DEF Cleanup, Proc

LEMMA RestartQuiet ==
  ASSUME RuntimeInv, QuietInv, Quiet, UNCHANGED work, NEW c \in Callers, Restart(c) \/ Inherit(c)
  PROVE  QuietInv'
<1> USE DEF table, terminal
<1>1. pc[c] \in {"restart", "lineage"} /\ UNCHANGED <<record, progress, owned>>
  BY DEF Restart, Inherit
<1>2. /\ lifecycle = c /\ Types /\ call[c].kind = "terminate" /\ call[c] \in Calls
  BY <1>1, Holder DEF TerminatePlaces
<1>3. CASE Panic(c)
  BY <1>1, <1>3, EndQuiet
<1>4. CASE \/ pc' = [pc EXCEPT ![c] = "finish"] /\ UNCHANGED <<call, lifecycle>>
           \/ pc' = [pc EXCEPT ![c] = "restarted"] /\ UNCHANGED <<call, lifecycle>>
  <2>1. pc'[c] \in {"finish", "restarted"} /\ \A d \in Callers \ {c} : pc'[d] = pc[d]
    BY <1>2, <1>4 DEF Types
  <2>2. UseOK(c)'
    BY <1>2, <1>4, <2>1 DEF UseOK, Gone
  <2> QED
    BY <1>1, <1>4, <2>1, <2>2, MoveQuiet
<1>5. CASE /\ call' = [call EXCEPT ![c].agent = record[Proc(c)].agent, ![c].parent = record[Proc(c)].parent,
                                   ![c].existing = byAgent[record[Proc(c)].agent]]
           /\ pc' = [pc EXCEPT ![c] = "inspect"] /\ UNCHANGED lifecycle
  <2>1. /\ pc'[c] = "inspect" /\ \A d \in Callers \ {c} : pc'[d] = pc[d] /\ call'[d] = call[d]
        /\ call'[c].kind = "terminate" /\ call'[c].proc = call[c].proc
    BY <1>2, <1>5 DEF Types, Calls
  <2>2. UseOK(c)'
    BY <2>1 DEF UseOK, Gone
  <2> QED
    BY <1>1, <1>5, <2>1, <2>2, MoveQuiet
<1> QED
  BY <1>3, <1>4, <1>5 DEF Restart, Inherit, Goto

LEMMA NextQuiet == RuntimeInv /\ QuietInv /\ [Next]_vars => QuietInv'
<1> SUFFICES ASSUME RuntimeInv, QuietInv, [Next]_vars
             PROVE  QuietInv'
  OBVIOUS
<1>1. UNCHANGED work /\ Types
  BY DEF Next, vars, RuntimeInv
<1>2. CASE ~Quiet
  BY <1>1, <1>2, WorkKept DEF QuietInv
<1>3. CASE Quiet /\ UNCHANGED vars
  <2>1. \A q \in Procs : (Live(q)' <=> Live(q)) /\ (Ended(q)' <=> Ended(q))
    BY <1>3 DEF Live, Ended, vars, table
  <2> QED
    BY <1>1, <1>3, <2>1, QuietBystander DEF vars, table, terminal
<1>4. CASE Quiet /\ Next
  <2>2. ASSUME NEW c \in Callers, Step(c)
        PROVE  QuietInv'
    <3>1. CASE TerminateStep(c)
      <4>1. CASE Settle(c)
        BY <1>1, <1>4, <4>1, EndQuiet DEF Settle, table
      <4> QED
        BY <1>1, <1>4, <3>1, <4>1, CleanupQuiet, MarkQuiet, MarkedQuiet, SuperviseExitQuiet, RestartQuiet,
           RestartedQuiet, FinishQuiet DEF TerminateStep
    <3>2. CASE SpawnStep(c)
      BY <1>1, <1>4, <3>2, InspectQuiet, ParentQuiet, InsertQuiet, BudgetQuiet, IdentityQuiet DEF SpawnStep
    <3>3. CASE SubmitInsert(c) \/ Register(c) \/ RegisterEnter(c) \/ ReapUnbind(c)
      BY <1>1, <1>4, <3>3, SubmitInsertQuiet, RegisterQuiet
    <3>4. CASE ReapForget(c)
      BY <1>1, <1>4, <3>4, ForgetQuiet
    <3> QED
      BY <2>2, <3>1, <3>2, <3>3, <3>4 DEF Step
  <2>3. ASSUME NEW c \in Callers, Drop(c)
        PROVE  QuietInv'
    BY <1>1, <1>4, <2>3, DropQuiet
  <2>4. ASSUME NEW c \in Callers, NEW a \in Agents, NEW p \in Procs \cup {None}, Spawn(c, a, p)
        PROVE  QuietInv'
    BY <1>1, <1>4, <2>4, SpawnQuiet
  <2>5. ASSUME NEW c \in Callers, NEW p \in Procs, Submit(c, p) \/ RegisterMailbox(c, p) \/ Reap(c, p)
        PROVE  QuietInv'
    BY <1>1, <1>4, <2>5, SubmitQuiet, ReapQuiet
  <2>6. ASSUME NEW c \in Callers, NEW p \in Procs, NEW why \in Reasons, Terminate(c, p, why)
        PROVE  QuietInv'
    BY <1>1, <1>4, <2>6, TerminateQuiet
  <2>7. ASSUME NEW p \in Procs, Supervise(p)
        PROVE  QuietInv'
    BY <1>1, <1>4, <2>7, SuperviseQuiet
  <2>8. ASSUME NEW p \in Procs, NEW thing \in Things, Give(p, thing) \/ Take(p, thing)
        PROVE  QuietInv'
    BY <1>1, <1>4, <2>8, GiveQuiet
  <2> QED
    BY <1>4, <2>2, <2>3, <2>4, <2>5, <2>6, <2>7, <2>8 DEF Next
<1> QED
  BY <1>2, <1>3, <1>4

\* In a quiet workload a terminal process owns at most the space that the restart
\* of a child gave it (ProcessTable::spawn forks the parent's space) and what
\* dropped callers had opened for it and not noted.
QuietOwnsSpaceOrStrays ==
  Quiet => \A p \in Procs : record[p].state \in Terminal => owned[p] \subseteq {"space"} \cup Strays

LEMMA QuietReached == Spec => [](RuntimeInv /\ QuietInv)
<1>1. Init => RuntimeInv /\ QuietInv
  BY InitRuntime, InitQuiet
<1>2. RuntimeInv /\ QuietInv /\ [Next]_vars => RuntimeInv' /\ QuietInv'
  BY NextRuntime, NextQuiet
<1> QED
  BY <1>1, <1>2, PTL DEF Spec

\* Where callers let go of a process before they terminate it, every cleanup takes
\* all that the maps of the runtime name before the end is published, however often
\* cleanups fail, callers are dropped and terminations are retried, as long as
\* there are no children or no restarts.  What is left was opened by a caller that
\* was dropped before it had noted it.
THEOREM CleanBeforeEnd ==
  Spec => []((Quiet /\ (Forks => MaxRestarts = 0)) => TerminalOwnsNothing)
<1>1. RuntimeInv /\ QuietInv => ((Quiet /\ (Forks => MaxRestarts = 0)) => TerminalOwnsNothing)
  <2> SUFFICES ASSUME RuntimeInv, QuietInv, Quiet, Forks => MaxRestarts = 0
               PROVE  TerminalOwnsNothing
    OBVIOUS
  <2>1. \A p \in Procs : record[p].state \in Terminal => owned[p] \subseteq Residue \cup Strays
    BY DEF QuietInv, OwnOK, Ended
  <2>2. Residue = {}
    BY DEF Residue
  <2> QED
    BY <2>1, <2>2 DEF TerminalOwnsNothing
<1> QED
  BY <1>1, QuietReached, PTL

\* With both, the only thing that a cleanup takes and that can come back is a space:
\* the restart of a child forks the space of a parent whose termination was cut off
\* between its cleanup and its publication.
THEOREM OnlyTheSpaceReturns == Spec => []QuietOwnsSpaceOrStrays
<1>1. RuntimeInv /\ QuietInv => QuietOwnsSpaceOrStrays
  <2> SUFFICES ASSUME RuntimeInv, QuietInv, Quiet
               PROVE  \A p \in Procs : record[p].state \in Terminal => owned[p] \subseteq {"space"} \cup Strays
    BY DEF QuietOwnsSpaceOrStrays
  <2>1. \A p \in Procs : record[p].state \in Terminal => owned[p] \subseteq Residue \cup Strays
    BY DEF QuietInv, OwnOK, Ended
  <2>2. Residue \subseteq {"space"}
    BY DEF Residue
  <2> QED
    BY <2>1, <2>2
<1> QED
  BY <1>1, QuietReached, PTL
=============================================================================
