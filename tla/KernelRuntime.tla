---------------------------- MODULE KernelRuntime ----------------------------
(***************************************************************************)
(* The lifecycle of processes: KernelRuntime (crates/kernel/src/           *)
(* runtime.rs) over the process table (process/table.rs), the supervisor   *)
(* (supervision/tree.rs) and what a process owns elsewhere: its operation, *)
(* its permits, its budget scope, its mailbox and its context space.       *)
(*                                                                         *)
(* Every map of the runtime has a lock of its own and each step is one     *)
(* critical section.  `lifecycle` is held by terminate_process only, from  *)
(* its first line to its return; spawning, reaping and everything that     *)
(* hands a process something to own go on beside it.                       *)
(*                                                                         *)
(* The states in which a process lives are one here: all of them may go to *)
(* Failed and, through Stopping, to Exited.  A process has at most one     *)
(* operation and one permit; OperationTable and AdmissionControl have the  *)
(* rest.  The runtime offers no supervision groups.                        *)
(***************************************************************************)
EXTENDS Integers, FiniteSets

CONSTANTS Callers,      \* tasks that call the runtime
          MaxProcs,     \* bound on the processes ever created
          Agents,
          Workloads,    \* what callers do: a behaviour follows one of these
          MaxIncidents, \* bound on cleanups that fail and callers that are dropped
          None

\* Process ids are random; they are numbered in the order of their creation.
Procs == 1..MaxProcs
\* Completed stands for Cancelled too, and Failed for Panic.
ExitReason == {"Completed", "DeadlineExceeded", "Failed"}
Things == {"operation", "permit", "budget", "mailbox", "space"}
\* A budget scope and a mailbox that exist and are in no map of the runtime.
Strays == {"strayScope", "strayMailbox"}

\* procs: the processes created; restarts: RestartOnFailure { max_restarts };
\* reasons: why processes are terminated; forks: are processes spawned below
\* others?; handed: the things that processes are handed; quiet: callers let go
\* of a process before it is terminated and wait for its end before they reap it;
\* reaps: are processes reaped?
Workload == [procs : 0..MaxProcs, restarts : Nat, reasons : SUBSET ExitReason, forks : BOOLEAN,
             handed : SUBSET Things, quiet : BOOLEAN, reaps : BOOLEAN]

ASSUME RuntimeAssumption ==
  /\ MaxProcs \in Nat /\ MaxIncidents \in Nat
  /\ \A i \in DOMAIN Workloads : Workloads[i] \in Workload
  /\ None \notin Procs /\ None \notin Agents /\ None \notin Callers

VARIABLES
  work,         \* the workload of this behaviour
  pc, call,     \* where each caller is, and in which call
  lifecycle,    \* the caller that holds the lock
  record,       \* the process table: agent, parent, state, exit
  byAgent,      \* IdentityRegistry::by_agent
  specs,        \* spawn_specs
  progress,     \* terminal_progress
  outcome,      \* terminal_outcomes
  policy, restarts, \* SupervisorTree
  owned,        \* what each process owns
  incidents,    \* how many cleanups failed and callers were dropped
  history       \* of each process: the answers of terminate_process, the
                \* supervisor's decisions, the replacements, the predecessors,
                \* and whether a caller was dropped half way through a restart
                \* of it (dropped) or before its outcome was kept (lost)

table == <<record, byAgent, specs>>
terminal == <<progress, outcome, policy, restarts>>
vars == <<work, pc, call, lifecycle, table, terminal, owned, incidents, history>>

MaxRestarts == Workloads[work].restarts
Reasons == Workloads[work].reasons
Forks == Workloads[work].forks
Handed == Workloads[work].handed
Reaps == Workloads[work].reaps
Quiet == Workloads[work].quiet

Terminal == {"Exited", "Failed"}
Phases == {"Cleanup", "MarkTerminal", "Supervise", "Restart"}

NoRecord == [agent |-> None, parent |-> None, state |-> "none", exit |-> "none"]
NoProgress == [reason |-> "none", phase |-> "none", decision |-> "none", restarted |-> None]
NoOutcome == [reason |-> "none", decision |-> "none", restarted |-> None]
NoCall == [kind |-> "none", proc |-> None, agent |-> None, parent |-> None,
           existing |-> None, new |-> None, end |-> NoOutcome]

Init ==
  /\ work \in DOMAIN Workloads
  /\ pc = [c \in Callers |-> "idle"]
  /\ call = [c \in Callers |-> NoCall]
  /\ lifecycle = None
  /\ record = [p \in Procs |-> NoRecord]
  /\ byAgent = [a \in Agents |-> None]
  /\ specs = {}
  /\ progress = [p \in Procs |-> NoProgress]
  /\ outcome = [p \in Procs |-> NoOutcome]
  /\ policy = [p \in Procs |-> 0]
  /\ restarts = [p \in Procs |-> 0]
  /\ owned = [p \in Procs |-> {}]
  /\ incidents = 0
  /\ history = [p \in Procs |-> [answers |-> {}, decisions |-> 0, replacements |-> 0, before |-> 0,
                              dropped |-> FALSE, lost |-> FALSE]]

\* In the process table, and not terminal there.
Known(p) == record[p].state \in Terminal \cup {"live"}
Live(p) == record[p].state = "live"

Goto(c, l) == pc' = [pc EXCEPT ![c] = l]
Proc(c) == call[c].proc

\* Somebody is calling the runtime about p.
Used(p) == \E c \in Callers : pc[c] # "idle" /\ p \in {call[c].proc, call[c].new, call[c].parent}
Terminating(p) == progress[p] # NoProgress \/ \E c \in Callers : call[c].kind = "terminate" /\ Proc(c) = p

Incident == incidents < MaxIncidents /\ incidents' = incidents + 1

\* Callers begin and end calls.
Begin(c, l, what) == pc[c] = "idle" /\ Goto(c, l) /\ call' = [call EXCEPT ![c] = what]
End(c) == /\ pc' = [pc EXCEPT ![c] = "idle"]
          /\ call' = [call EXCEPT ![c] = NoCall]
          /\ lifecycle' = IF lifecycle = c THEN None ELSE lifecycle

\* One of the `expect`s about the terminal progress fails.
Panic(c) == /\ pc' = [pc EXCEPT ![c] = "panicked"]
            /\ call' = [call EXCEPT ![c] = NoCall]
            /\ lifecycle' = IF lifecycle = c THEN None ELSE lifecycle

Gain(p, thing) == owned' = [owned EXCEPT ![p] = @ \cup {thing}]
Lose(p, thing) == owned' = [owned EXCEPT ![p] = @ \ {thing}]

-----------------------------------------------------------------------------
(* spawn_process, called by anyone or by terminate_process for a restart *)

Spawning(a) == [NoCall EXCEPT !.kind = "spawn", !.agent = a, !.existing = byAgent[a]]

Spawn(c, a, p) ==
  /\ p # None => Forks /\ record[p] # NoRecord /\ (Quiet => ~Terminating(p))
  /\ Begin(c, "inspect", [Spawning(a) EXCEPT !.parent = p])
  /\ UNCHANGED <<lifecycle, table, terminal, owned, incidents, history>>

\* The agent's process must be known and terminal.
SpawnInspect(c) ==
  /\ pc[c] = "inspect"
  /\ LET p == call[c].existing
     IN  IF p = None \/ (p # None /\ record[p].state \in Terminal)
         THEN /\ Goto(c, "parent")
              /\ call' = [call EXCEPT ![c].existing = None]
              /\ UNCHANGED lifecycle
         ELSE End(c)
  /\ UNCHANGED <<table, terminal, owned, incidents, history>>

\* ProcessTable::spawn looks at the parent ...
SpawnParent(c) ==
  /\ pc[c] = "parent"
  /\ LET p == call[c].parent
     IN  IF p = None \/ (p # None /\ Live(p))
         THEN Goto(c, "insert") /\ UNCHANGED <<call, lifecycle>>
         ELSE End(c)
  /\ UNCHANGED <<table, terminal, owned, incidents, history>>

\* ... forks its space, which gives the parent a space if it has none, and
\* inserts the record.
SpawnInsert(c) ==
  /\ pc[c] = "insert"
  /\ \E new \in 1..Workloads[work].procs :
       /\ record[new] = NoRecord /\ \A q \in 1..(new - 1) : record[q] # NoRecord
       /\ record' = [record EXCEPT ![new] = [agent |-> call[c].agent, parent |-> call[c].parent,
                                             state |-> "live", exit |-> "none"]]
       /\ call' = [call EXCEPT ![c].new = new]
       /\ owned' = [p \in Procs |->
                     IF call[c].parent # None /\ p \in {new, call[c].parent}
                     THEN owned[p] \cup {"space"} ELSE owned[p]]
       /\ history' = IF call[c].kind = "terminate"
                     THEN [history EXCEPT ![Proc(c)].replacements = @ + 1,
                                          ![new].before = history[Proc(c)].before + 1]
                     ELSE history
  /\ Goto(c, "reserve")
  /\ UNCHANGED <<lifecycle, byAgent, specs, terminal, incidents>>

\* reserve_child opens the scope of the process ...
SpawnBudget(c) ==
  /\ pc[c] = "reserve"
  /\ Goto(c, "note")
  /\ UNCHANGED <<call, lifecycle, table, terminal, owned, incidents, history>>

\* ... which the cleanup finds once budget_ownership names it.
SpawnNote(c) ==
  /\ pc[c] = "note"
  /\ Gain(call[c].new, "budget")
  /\ Goto(c, "identity")
  /\ UNCHANGED <<call, lifecycle, table, terminal, incidents, history>>

SpawnIdentity(c) ==
  /\ pc[c] = "identity"
  /\ specs' = specs \cup {call[c].new}
  /\ byAgent' = [byAgent EXCEPT ![call[c].agent] = call[c].new]
  /\ IF call[c].kind = "terminate"
     THEN Goto(c, "lineage") /\ UNCHANGED <<call, lifecycle>>
     ELSE End(c)
  /\ UNCHANGED <<record, terminal, owned, incidents, history>>

\* supervise, for a process the caller spawned itself.
Supervise(p) ==
  /\ Known(p) /\ history[p].before = 0
  /\ policy[p] # MaxRestarts
  /\ policy' = [policy EXCEPT ![p] = MaxRestarts]
  /\ UNCHANGED <<pc, call, lifecycle, table, progress, outcome, restarts, owned, incidents, history>>

-----------------------------------------------------------------------------
(* What a process comes to own *)

\* submit_operation asks whether the owner lives ...
Submit(c, p) ==
  /\ Live(p)
  /\ Quiet => ~Terminating(p)
  /\ "operation" \in Handed \ owned[p]
  /\ Begin(c, "submit", [NoCall EXCEPT !.kind = "submit", !.proc = p])
  /\ UNCHANGED <<lifecycle, table, terminal, owned, incidents, history>>

\* ... and inserts the operation into its table.  What it does next, reserving
\* the operation's budget below its owner's, fails when the owner's scope is
\* closed; the operation stays in its table either way.
SubmitInsert(c) ==
  /\ pc[c] = "submit"
  /\ Gain(Proc(c), "operation")
  /\ End(c)
  /\ UNCHANGED <<table, terminal, incidents, history>>

\* admit and set_space_overlay ask nothing about the process.
Give(p, thing) ==
  /\ thing \in ({"permit", "space"} \cap Handed) \ owned[p]
  /\ Known(p)
  /\ Quiet => Live(p) /\ ~Terminating(p)
  /\ Gain(p, thing)
  /\ UNCHANGED <<pc, call, lifecycle, table, terminal, incidents, history>>

\* The operation ends, the permit is settled or revoked, release_space.
Take(p, thing) ==
  /\ thing \in {"operation", "permit", "space"} \cap owned[p]
  /\ Lose(p, thing)
  /\ UNCHANGED <<pc, call, lifecycle, table, terminal, incidents, history>>

\* register_process_mailbox asks whether the process is known ...
RegisterMailbox(c, p) ==
  /\ Known(p)
  /\ Quiet => Live(p) /\ ~Terminating(p)
  /\ "mailbox" \in Handed \ owned[p]
  /\ Begin(c, "register", [NoCall EXCEPT !.kind = "register", !.proc = p])
  /\ UNCHANGED <<lifecycle, table, terminal, owned, incidents, history>>

\* The service has a mailbox for the target of p.
Registered(p) == {"mailbox", "strayMailbox"} \cap owned[p] # {} \/ \E c \in Callers : pc[c] = "enter" /\ Proc(c) = p

\* ... registers the mailbox with the service, which refuses a second one for a
\* target ...
Register(c) ==
  /\ pc[c] = "register"
  /\ IF Registered(Proc(c)) THEN End(c) ELSE Goto(c, "enter") /\ UNCHANGED <<call, lifecycle>>
  /\ UNCHANGED <<table, terminal, owned, incidents, history>>

\* ... and enters its target in process_mailboxes, where the cleanup looks.
RegisterEnter(c) ==
  /\ pc[c] = "enter"
  /\ Gain(Proc(c), "mailbox")
  /\ End(c)
  /\ UNCHANGED <<table, terminal, incidents, history>>

-----------------------------------------------------------------------------
(* terminate_process *)

\* Mutant: the operations of the process are forgotten.
ResumeAtPermits(phase) == CASE phase = "Cleanup" -> "permit" [] phase = "MarkTerminal" -> "mark"
                            [] phase = "Supervise" -> "supervise" [] phase = "Restart" -> "restart"

\* Where the loop goes on in each phase.
Resume(phase) == CASE phase = "Cleanup" -> "operation" [] phase = "MarkTerminal" -> "mark"
                   [] phase = "Supervise" -> "supervise" [] phase = "Restart" -> "restart"

Answer(p, o) == history' = [history EXCEPT ![p].answers = @ \cup {o}]

\* Mutant: a later caller's reason replaces the first one's.
EnterOverwriting(p, why) ==
  IF progress[p] = NoProgress
  THEN [NoProgress EXCEPT !.reason = why, !.phase = "Cleanup"]
  ELSE [progress[p] EXCEPT !.reason = why]

\* The progress of a termination; the first reason stays.
Enter(p, why) ==
  IF progress[p] = NoProgress
  THEN [NoProgress EXCEPT !.reason = why, !.phase = "Cleanup"]
  ELSE progress[p]

\* terminate_process gets the lock.  A termination that is over is answered as
\* it ended, another one is resumed where it stopped.
Terminate(c, p, why) ==
  /\ record[p] # NoRecord /\ lifecycle = None
  /\ Quiet => ~Used(p)
  /\ IF outcome[p] # NoOutcome
     THEN pc[c] = "idle" /\ Answer(p, outcome[p]) /\ UNCHANGED <<pc, call, lifecycle, progress>>
     ELSE /\ Begin(c, Resume(Enter(p, why).phase), [NoCall EXCEPT !.kind = "terminate", !.proc = p])
          /\ progress' = [progress EXCEPT ![p] = Enter(p, why)]
          /\ lifecycle' = c
          /\ UNCHANGED history
  /\ UNCHANGED <<table, outcome, policy, restarts, owned, incidents>>

NextThing == [operation |-> "permit", permit |-> "budget", budget |-> "mailbox", mailbox |-> "space"]

\* The phase advances; the entry must still be there.
Advance(c, phase) ==
  IF progress[Proc(c)] = NoProgress THEN Panic(c) /\ UNCHANGED progress
  ELSE /\ progress' = [progress EXCEPT ![Proc(c)].phase = phase]
       /\ Goto(c, Resume(phase)) /\ UNCHANGED <<call, lifecycle>>

\* cleanup_process_resources takes one thing after another from the process and
\* the phase advances.  It ends at once with an injected fault or for an unknown
\* process.
Cleanup(c) ==
  LET p == Proc(c)
  IN  /\ pc[c] \in Things
      /\ \/ /\ pc[c] = "operation" => Known(p)
            /\ Lose(p, pc[c])
            /\ IF pc[c] = "space" THEN Advance(c, "MarkTerminal")
               ELSE Goto(c, NextThing[pc[c]]) /\ UNCHANGED <<call, lifecycle, progress>>
            /\ UNCHANGED incidents
         \/ /\ pc[c] = "operation"
            /\ IF Known(p) THEN Incident ELSE UNCHANGED incidents
            /\ End(c) /\ UNCHANGED <<owned, progress>>
      /\ UNCHANGED <<table, outcome, policy, restarts, history>>

Marked(c) ==
  /\ pc[c] = "marked" /\ Advance(c, "Supervise")
  /\ UNCHANGED <<table, outcome, policy, restarts, owned, incidents, history>>

\* mark_exit publishes the end of a process that is not terminal yet.
Mark(c) ==
  LET p == Proc(c)
  IN  /\ pc[c] = "mark"
      /\ IF Known(p)
         THEN /\ record' = IF ~Live(p) THEN record
                           ELSE [record EXCEPT
                                  ![p].state = IF progress[p].reason = "Failed" THEN "Failed" ELSE "Exited",
                                  ![p].exit = progress[p].reason]
              /\ Goto(c, "marked") /\ UNCHANGED <<call, lifecycle>>
         ELSE End(c) /\ UNCHANGED record
      /\ UNCHANGED <<byAgent, specs, terminal, owned, incidents, history>>

\* record_exit without groups: may the process be restarted once more?
Decision(p, reason) ==
  IF reason = "Completed" \/ policy[p] = 0 THEN "DoNotRestart"
  ELSE IF restarts[p] + 1 > policy[p] THEN "FailedLimitReached" ELSE "Restart"

\* The decision and the phase change together.
SuperviseExit(c) ==
  LET p == Proc(c)
      d == Decision(p, progress[p].reason)
  IN  /\ pc[c] = "supervise"
      /\ IF progress[p] = NoProgress
         THEN Panic(c) /\ UNCHANGED <<progress, restarts, history>>
         ELSE /\ progress' = [progress EXCEPT ![p].decision = d, ![p].phase = "Restart"]
              /\ restarts' = IF d = "Restart" THEN [restarts EXCEPT ![p] = @ + 1] ELSE restarts
              /\ history' = [history EXCEPT ![p].decisions = @ + 1]
              /\ Goto(c, "restart") /\ UNCHANGED <<call, lifecycle>>
      /\ UNCHANGED <<table, outcome, policy, owned, incidents>>

\* Restarting is spawn_process with the retained specification.
Restart(c) ==
  LET p == Proc(c)
  IN  /\ pc[c] = "restart"
      /\ IF progress[p] = NoProgress THEN Panic(c)
         ELSE /\ IF progress[p].decision = "Restart" /\ progress[p].restarted = None /\ p \in specs
                 THEN /\ call' = [call EXCEPT ![c].agent = record[p].agent, ![c].parent = record[p].parent,
                                              ![c].existing = byAgent[record[p].agent]]
                      /\ Goto(c, "inspect")
                 ELSE Goto(c, "finish") /\ UNCHANGED call
              /\ UNCHANGED lifecycle
      /\ UNCHANGED <<table, terminal, owned, incidents, history>>

\* Mutant: the replacement starts its own count.
InheritPolicy(c) ==
  LET p == Proc(c)
      new == call[c].new
  IN  /\ pc[c] = "lineage"
      /\ policy' = [policy EXCEPT ![new] = policy[p]]
      /\ Goto(c, "restarted")
      /\ UNCHANGED <<call, lifecycle, table, progress, outcome, restarts, owned, incidents, history>>

\* inherit_restart_lineage.
Inherit(c) ==
  LET p == Proc(c)
      new == call[c].new
  IN  /\ pc[c] = "lineage"
      /\ policy' = [policy EXCEPT ![new] = policy[p]]
      /\ restarts' = [restarts EXCEPT ![new] = restarts[p]]
      /\ Goto(c, "restarted")
      /\ UNCHANGED <<call, lifecycle, table, progress, outcome, owned, incidents, history>>

\* The replacement is noted, so that a retry does not spawn another one.
Restarted(c) ==
  LET p == Proc(c)
  IN  /\ pc[c] = "restarted"
      /\ IF progress[p] = NoProgress THEN Panic(c) /\ UNCHANGED progress
         ELSE /\ progress' = [progress EXCEPT ![p].restarted = call[c].new]
              /\ Goto(c, "finish") /\ UNCHANGED <<call, lifecycle>>
      /\ UNCHANGED <<table, outcome, policy, restarts, owned, incidents, history>>

\* The progress is taken out ...
Finish(c) ==
  LET p == Proc(c)
  IN  /\ pc[c] = "finish"
      /\ IF progress[p] = NoProgress THEN Panic(c) /\ UNCHANGED progress
         ELSE /\ progress' = [progress EXCEPT ![p] = NoProgress]
              /\ call' = [call EXCEPT ![c].end = [reason |-> progress[p].reason, decision |-> progress[p].decision,
                                                 restarted |-> progress[p].restarted]]
              /\ Goto(c, "settle") /\ UNCHANGED lifecycle
      /\ UNCHANGED <<table, outcome, policy, restarts, owned, incidents, history>>

\* ... and becomes the outcome, and the answer.
Settle(c) ==
  /\ pc[c] = "settle"
  /\ outcome' = [outcome EXCEPT ![Proc(c)] = call[c].end]
  /\ Answer(Proc(c), call[c].end)
  /\ End(c)
  /\ UNCHANGED <<table, progress, policy, restarts, owned, incidents>>

-----------------------------------------------------------------------------
(* reap_process *)

\* Waiters of the process learn of its end when it is published, and reap it.
Reap(c, p) ==
  /\ Reaps /\ record[p].state \in Terminal
  /\ Quiet => ~Terminating(p) /\ ~Used(p)
  /\ Begin(c, "forget", [NoCall EXCEPT !.kind = "reap", !.proc = p, !.agent = record[p].agent])
  /\ record' = [record EXCEPT ![p].state = "reaped"]
  /\ UNCHANGED <<lifecycle, byAgent, specs, terminal, owned, incidents, history>>

\* Three critical sections: a restart between the first two finds no specification,
\* like that of a process that is not bound yet; a termination that ends between the
\* last two leaves what one leaves that ends before them.
ReapForget(c) ==
  LET p == Proc(c)
  IN  /\ pc[c] = "forget"
      /\ specs' = specs \ {p}
      /\ progress' = [progress EXCEPT ![p] = NoProgress]
      /\ outcome' = [outcome EXCEPT ![p] = NoOutcome]
      /\ Goto(c, "unbind")
      /\ UNCHANGED <<call, lifecycle, record, byAgent, policy, restarts, owned, incidents, history>>

ReapUnbind(c) ==
  /\ pc[c] = "unbind"
  /\ byAgent' = IF byAgent[call[c].agent] = Proc(c)
                THEN [byAgent EXCEPT ![call[c].agent] = None] ELSE byAgent
  /\ End(c)
  /\ UNCHANGED <<record, specs, terminal, owned, incidents, history>>

\* A caller is dropped; its locks are released.  What it had opened and not noted
\* yet stays open.
Drop(c) ==
  /\ pc[c] \notin {"idle", "panicked"}
  /\ Incident
  /\ End(c)
  /\ CASE pc[c] = "note" -> Gain(call[c].new, "strayScope")
       [] pc[c] = "enter" -> Gain(Proc(c), "strayMailbox")
       [] OTHER -> UNCHANGED owned
  /\ history' = IF pc[c] = "settle" THEN [history EXCEPT ![Proc(c)].lost = TRUE]
                ELSE IF call[c].kind = "terminate" /\ call[c].new # None
                THEN [history EXCEPT ![Proc(c)].dropped = TRUE] ELSE history
  /\ UNCHANGED <<table, terminal>>

-----------------------------------------------------------------------------
TerminateStep(c) ==
  \/ Cleanup(c) \/ Mark(c) \/ Marked(c)
  \/ SuperviseExit(c) \/ Restart(c) \/ Inherit(c) \/ Restarted(c) \/ Finish(c) \/ Settle(c)

SpawnStep(c) ==
  SpawnInspect(c) \/ SpawnParent(c) \/ SpawnInsert(c)
  \/ SpawnBudget(c) \/ SpawnNote(c) \/ SpawnIdentity(c)

Step(c) ==
  TerminateStep(c) \/ SpawnStep(c) \/ SubmitInsert(c) \/ Register(c) \/ RegisterEnter(c)
  \/ ReapForget(c) \/ ReapUnbind(c)

Next ==
  /\ UNCHANGED work
  /\ \/ \E c \in Callers :
          \/ Step(c) \/ Drop(c)
          \/ \E a \in Agents, p \in Procs \cup {None} : Spawn(c, a, p)
          \/ \E p \in Procs : Submit(c, p) \/ RegisterMailbox(c, p) \/ Reap(c, p)
          \/ \E p \in Procs, why \in Reasons : Terminate(c, p, why)
     \/ \E p \in Procs : Supervise(p)
     \/ \E p \in Procs, thing \in Things : Give(p, thing) \/ Take(p, thing)

Spec == Init /\ [][Next]_vars

-----------------------------------------------------------------------------
(* Properties *)

\* The state of the model is well formed.
TypeOK ==
  /\ \A c \in Callers : call[c].proc \in Procs \cup {None} /\ call[c].new \in Procs \cup {None}
  /\ lifecycle \in Callers \cup {None}
  /\ record \in [Procs -> [agent: Agents \cup {None}, parent: Procs \cup {None},
                           state: Terminal \cup {"none", "live", "reaped"}, exit: ExitReason \cup {"none"}]]
  /\ byAgent \in [Agents -> Procs \cup {None}]
  /\ specs \in SUBSET Procs
  /\ policy \in [Procs -> {0, MaxRestarts}]
  /\ restarts \in [Procs -> 0..MaxRestarts]
  /\ owned \in [Procs -> SUBSET (Things \cup Strays)]
  /\ incidents \in 0..MaxIncidents

\* A process that is seen as terminal owns nothing any more: "Cleanup ...
\* always precedes publishing the terminal Process snapshot".  What callers that
\* were dropped in mid-call had opened for it and not noted, which no cleanup can
\* find, is all that can be left.
TerminalOwnsNothing == \A p \in Procs : record[p].state \in Terminal => owned[p] \subseteq Strays

\* Everyone who ever terminates a process, retries included, is told the same
\* end, and it is the one the process table published (unless a caller was dropped
\* between taking the progress out and keeping the outcome).
AnswersAgree ==
  \A p \in Procs :
    /\ Cardinality(history[p].answers) <= 1
    /\ \A o \in history[p].answers : o.reason = record[p].exit \/ history[p].lost

\* However often a termination fails, is dropped and is retried, also after a
\* failure of the restart itself, no chain of replacements is longer than the policy
\* allows, the supervisor decides about a process once and replaces it at most once
\* (unless a caller was dropped between creating the replacement and noting it, or
\* between taking the progress out and keeping the outcome).
RestartsBounded ==
  /\ TypeOK
  /\ \A p \in Procs :
       /\ history[p].before <= MaxRestarts
       /\ history[p].decisions <= 1 \/ history[p].lost
       /\ history[p].replacements <= 1 \/ history[p].dropped \/ history[p].lost
=============================================================================
