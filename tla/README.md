# Verification of Aletheon

Aletheon is an agent runtime written in Rust: a daemon (`executive`) runs agents
as *processes* of a small *kernel* that gives them operations, budgets, leases,
permits, mailboxes and supervision.  This directory holds TLA+ models of its
concurrent core, the TLC configurations that check them on small instances, and
TLAPS proofs of the results that do not depend on an instance.

`PROJECT.json` lists components, runs, findings, hazards and theorems, and maps
each definition of a module to the lines of code it translates.

    tlc -workers 2 -config OperationTable.cfg MCOperationTable
    tlapm OperationTableProofs.tla

## 1. Inventory

The system has 16 crates (sizes without tests, in thousands of lines):
`executive` 108, `corpus` 52, `fabric` 37, `mnemosyne` 24, `cognit` 22,
`interact` 15, `dasein` 13, `metacog` 9, `agora` 5, `kernel` 5, `platform` 4,
`gateway` 3, `hardware` 3, `execd` 3, `aletheon` 2, `runtime` 0.5.  The kernel is
small, and everything else relies on it; it is modelled first.

| component | state | operations | meets |
|---|---|---|---|
| operation table (`kernel/operation/table.rs`) | records with state and exit, children edges, a Notify per record | submit, start, succeed, fail, panic, cancel (with descendants), wait | runtime, executive |
| lease manager (`kernel/admission/lease.rs`) | entry per resource, `by_id` | acquire, release, is_leased | admission |
| budget controller (`kernel/admission/budget.rs`) | tree of scopes with limits and remainders, reservations, the file | create_root, reserve_child, settle, revoke, transfer, revoke tree, adapter for admission | admission, runtime, executive |
| admission and capability invoker (`kernel/admission/production.rs`, `kernel/capability`) | `active` and `settled` permits | admit, settle, revoke, cleanups of a process or an operation, invoke | budget, leases, runtime |
| kernel runtime, process table, supervisor, spaces (`kernel/runtime.rs`, `process`, `supervision`, `space`) | process records, `by_agent`, spawn specs, terminal progress and outcomes, restart counts, spaces | spawn, terminate, reap, supervise, submit, register mailbox | all of the above, mailboxes |
| mailbox and its registry (`fabric/ipc/mailbox.rs`) | two lanes, closed flag, Notify, registry | send, recv, close, route, unregister | runtime, agent control |
| session input (`executive/application/session_input.rs`) | prompt envelopes, receipts, processor claims, interjections | enqueue, edit, cancel, claim, take, mark, drain | daemon turns, connections |
| governed review (`executive/application/governed_review`) | index in memory, a file per job and per idempotency key, tasks with tokens | submit, cancel, wait, execute, recover | inference, connections |
| agent admission (`agent_control/admission.rs`) | counters per root, slots, one FIFO of waiters, reservation lock, leases | reserve, mark_running, settle, revoke, transfer, drops | budget, agent control |
| agent control (`agent_control/mod.rs`, `settlement.rs`, `recovery.rs`, `live_runs.rs`, `lifecycle.rs`) | durable rows, resource leases, receipts; live runs with tokens and background resources | spawn, cancel, run_agent, settle, reconcile_startup | admission, kernel, budget, sqlite |
| approvals (`approval/apply_coordinator.rs`, `approval/repository.rs`, `corpus/tools/subagent/apply.rs`) | rows of approval, claim, receipt; the goal's row; repository and worktree | resolve, expire, claim, apply with rollback, finish, reconcile, reject, clean | kernel, goals, git, sqlite |
| goals, turn coordinator, extensions (`executive/application`) | durable rows with versions, live tasks | submit, schedule, cancel, settle, recover | kernel, sqlite |
| memory, gateway, hardware, agora, metacog | spools, inbox, permits, commit log, transactions | append, drain, dispatch, stop, commit, roll back | executive |
| tools, models, user interfaces, platform adapters | none that outlives a call, or I/O | | |

What is hard, and what makes each part correct:

* **Locks are per map, not per operation.**  Almost every method of the kernel is
  several critical sections with an `await` in between.  Any other call, and the
  drop of the caller's future, can come between two of them.  Correct means:
  a cancelled tree has one owner and everything collected is ended; resources of
  a permit are given back exactly once whoever gets there first; nothing of a
  process is left when its end is published.
* **Retries.**  A termination that failed is resumed by somebody else, with
  another reason; a client sends its request again.  Correct means: one answer,
  one decision, one replacement, one run of a prompt.
* **Waiting.**  `wait`, `recv` and the queue's processor must not miss the wakeup
  that is meant for them.
* **Time.**  Leases expire under their holders, and callers compare a clock that
  they read before they waited for a lock.
* **Crashes.**  Budget, queue, review jobs and agent runs are files; what was
  reported must be in them, and what a lost run held must come back.
* **One-shot effects.**  A patch is written to a repository that no transaction
  covers.  Correct means: it is written once, its receipt tells the truth, and a
  repeated approval finishes what was cut off.
* **Check, then act.**  Reviews count their jobs before they store one, agents look
  for a free slot before they sleep, a settlement looks up the parent before it
  quiesces.  Correct means: one job per key, no missed release, no survivor
  that moves to the parent without its budget.

## 2. Modules

Every component has a module with its state, one action per critical section,
and its properties; an `MC` module adds the symmetry sets; proofs are in a module
of their own (the lease manager's and the budget's with those of the admission
controller, which uses both, and the mailbox's with those of the operation table).
A definition called *mutant* is a plausible bug that replaces the
definition after it, and shows that a property can fail.

### OperationTable

`state`, `owner`, `parent`, `exit` are the columns of `records`, `children` the
edges.  `Submit` inserts the record and `LinkChild` the edge, as in
`submit_with_id`.  `CancelCollect` reads the descendants under one lock, and
`CancelOne` then ends one after another with the root last.  `Look`/`LookAgain` are
`wait_for_terminal`, with the future of the Notify created before the record is
read; `Wake` is tokio's `notify_waiters`.  `Drop` drops the caller of submit or
cancel between two locks.  Timestamps, kinds and deadlines are left out.

### LeaseManager

`leases` is the entry of each resource, `byId` the index, `call` the caller between
reading the clock (`ReadClock`, in `admit`) and using it, or between the two locks of
`release`. `Tick` is the clock.  `grant` records what each holder believes.  `late` is a
history variable: time passed while a caller still had to use its clock reading, or a
holder was still using a lease whose time was over.  `AcquireDropped` is an `acquire`
whose caller is dropped at the await between the two maps: the entry keeps others out
until it expires, and nobody can release it (status "lost").

### BudgetController

`mem` is the locked `BudgetState`, `disk` the file.  Every method is one step,
because one lock covers it.  Tokens and cost are one coordinate; the sum of an
amount over a set of scopes is the number of its units (`Total`).  `WriteFails` is a
failing `persist`, which leaves the old file or, when only the last fsync failed,
the new one; `Crash` is the daemon reopening the file.  The actions for the
compatibility adapter (`Reserve`, `CloseForAdmission`) build and close a hidden
chain of scopes.  `acked` remembers what a persisting method reported.

### AdmissionControl

Invocations go through `admit` (budget, lease, sandbox, activate), execute, and
settle or are cancelled and revoke; cleaners are `revoke_process_permits` and
`revoke_operation_permits`.  `active` and `settled` have a lock each; `settle` keeps
`settled` until it has given everything back.  Budget and leases appear as the
sets they amount to: BudgetController and LeaseManager have their insides.  An
actor can be dropped anywhere (`Drop`).  `backend` is whether a sandbox backend was
configured; both cases are initial states.

### KernelRuntime

Callers spawn, hand things to, terminate and reap processes; `lifecycle` is held by
`terminate_process` alone.  `Terminate` gets the lock and enters or resumes;
`Cleanup` takes operation, permit, budget, mailbox and space away one by one;
`Mark`, `Marked`, `SuperviseExit`, `Restart`, the spawn steps, `Inherit` and `Restarted`
are the rest of the loop; `Finish` takes the progress out and `Settle` keeps it as the
outcome, two critical sections.  A caller can be dropped between any two (`Drop`);
`history` notes for which processes that happened after a replacement was created
(`dropped`) or between `Finish` and `Settle` (`lost`), and the properties excuse only
those.  A mailbox is registered with the service (`Register`) before `process_mailboxes`
names it (`RegisterEnter`), and a budget scope opened (`SpawnBudget`) before
`budget_ownership` does (`SpawnNote`); what a caller that is dropped in between leaves is in
no map of the runtime (`Strays`), and the properties excuse it.  A process's live states
are one.  It
composes the other kernel modules by what they mean for a process: it owns
something there, or not.  A behaviour follows one of the `Workloads`, which say how
many processes there are, how often a lineage may restart, which reasons, things,
forks and reaps occur, and whether callers are *quiet*: they let go of a process before
it is terminated, and reap it after its termination returned.

### Mailbox

One `InProcessMailbox` and its entry in the registry.  Senders push under the lock
and notify after it; `Take`/`TakeNothing` look under the lock and create the future;
`Poll` registers it, or takes the notification that woke it.  `permit` is the one permit
that tokio's Notify keeps.  `Abandon` and `AbandonWoken` are a receiver that stops; a
dropped future that had been notified and not polled passes the notification on.
`Return` is a receiver that calls `recv` again, which the bridge of an agent never does.
A receiver that stopped while it waited is "away", one that may have taken a
notification with it "gone".  `accepted` and `received` are histories.

### SessionInput

One session's queue.  A client enqueues, tries to become the processor
(`Claim`), and as processor takes and runs prompts until none is left (`Take`,
`TurnSucceeds`, `TurnFails`, `TakeNone`).  `lock` is `operation_lock`; edits and
cancellations are cut between read and write because `mark_prompt_consumed`
does not take it.  `Disconnect` aborts a request with its connection.  A turn is a task
of its own and goes on without its request: it becomes the call of `Detached`, drains
interjections at its safe points and ends (`DetachedEnds`), and nobody marks its prompt.
`Restart` is the daemon opening the store again.  A prompt's content is the version that
wrote it.

### GovernedReview

`jobs` and `idem` are the store's index, `jobFile` and `idemFile` its directories;
a store call is one step, and a failing one leaves the old file or, when only the
sync of the directory failed, the new one.  A client's submission is cut into the
look at the key, the count, the enqueue and the schedule; a cancellation into the
token, the write and the notification; a wait into the look, the arming of the
`Notified` and the second look.  `task` is the execution of a job with its token and
permit.  `Disconnect` aborts a call with its connection; `Restart` reads the files
and schedules what is not over.  `faulty` and `late` remember what failed.

### AgentAdmission

An agent enters its root's counters and the queue, arms its `Notified`, looks under
the reservation lock (`Admit`, `Sleep`), takes the lock again for its budget
(`Lock`, `CreateRoot`, `ReserveChild`) and owns a lease, which is settled, revoked,
transferred or dropped.  `GiveUp` is the drop of a waiting future: its timer, the
budget's refusal or its caller's end.  Giving the counters back (`Release`) and
announcing it (`NotifyWaiters`) are two steps, because the state's lock is left in
between.  `phase` is what the counters hold for an agent.  The budget controller is
external: a reservation is open or closed.

### AgentControl

`row` is what is durable about a run: its status, the recovery decision, its
resource leases, its budget reservation, what its settlement receipts say.  `run` is what
the daemon has in memory: where spawn, `run_agent` or the recovery is, whether the
admission lease still has its reservation, process, operation, live run, token, the
background resource and who owns it, and the terminal that the receipt will state.  A
step ends at each write of the repository, the budget or the receipts, because a crash
there leaves something else behind.  Every call that the code lets fail has a failing
branch: `terminate_process` and `revoke`, whose errors are dropped (`EndProcess`,
`RevokeLease`), the writes of the status, the start, the operation's end, quiescing, the
transfer, the memory flush, the moves and terminations of resources, the release of
leases, evidence and receipt.  `DropSpawn` is the capability layer dropping a tool call,
and spawn with it, at any await.  `Crash` forgets `run`; `Pick` to `Ready` are
`reconcile_startup`, row after row, and may themselves be cut short.  `hardened` is
the switch `subagent_settlement`; both values are initial states.  `left` is a history
variable: for each agent, the things it still had where a failing call, an early return or a
drop gave up on them.  `late` are the agents whose reservation was open at a crash although
their row was not.
It stands above AgentAdmission (how a lease is obtained) and KernelRuntime (what a
termination does), and takes from them that a reservation is open or closed and a
process lives or not.

### AgentLifecycle

The abstract specification of a run's stored status: the reducer of `lifecycle.rs`
and nothing else.  AgentControl implements it (`FollowsLifecycle`) under the mapping
of `status` to `row[a].status`: whatever fails, is cancelled or is recovered, a
reader of the row sees only steps that the reducer accepts, although the writers
name the status they expect long after they last read it.

### ApprovedApply

One approval of a patch.  `approval`, `claim`, `receipt` and `goal` are rows, `repo` and
`worktree` what lies on disk, `op` the operation in the kernel's table, which a restart
empties.  A caller decides (`Resolve`) and coordinates: `LookApproval` to `Start` are
the first half of `coordinate`, `Check`, `Apply` and `Restore` are git, `Finish` is the
one transaction that consumes the approval, and `Settle`, `Summary` and `Clean` follow
the receipt; `Reconcile` is a call that finds a receipt, `Reject` one that finds a
rejection. `ensure_goal_running`, `transition_terminal` and `transition_rejected` hold
the lock of the coordinator's store, so that callers exclude each other there; owner and
worker (`MoveGoal`) have connections of their own and meet them in `Transition`, a
compare-and-set.  Two history variables remember why a receipt may be wrong: `torn`, an
apply that was cut off, or whose receipt could not be written, when the repository was
not what it had been before; `unrestored`, a rollback that failed.  After a kill of the
daemon the model lets git end at once.

## 3. Runs

All runs disable the deadlock check: callers may all be done, and the system
rests then.  Of most modules one of the invariants has `TypeOK` as its first conjunct.

| run | bounds | states | shows |
|---|---|---|---|
| operation_table | 3 operations, 2 processes, 2 calls, 1 waiter | 695,192 | `TreeHasOneOwner`, `CancelVisitsAll`, `NoLostWakeup`, `TerminalIsFinal` |
| lease_books | 2 resources, 3 leases, 3 callers, durations 0 and 2, time up to 3 | 571,049 | `ReleasedNeverBlocks`, `EntryCanBeReleased`, `ExclusiveWhilePrompt` |
| budget_books | 4 scopes, limit 2 or unlimited, usage 1, 1 failing write, crashes | 448,035 | `Balance`, `ReservedWhileOpen`, `AckSurvives` |
| admission_permits | 2 invocations, 1 cleaner, room for 1 reservation and 1 lease, sandbox backend or none | 1,300,298 | `ClosedOnce`, `NothingLeaks` |
| kernel_lifecycle | 2 callers, 1 incident; either 2 processes with things handed, spaces forked and 2 reasons, or 3 processes that are not reaped and 1 restart | 1,606,144 | `TerminalOwnsNothing`, `AnswersAgree`, `RestartsBounded` |
| kernel_late_owner (violation) | 1 process, callers that are not quiet | | `TerminalOwnsNothing` fails |
| mailbox_lanes | 2 senders, 2 receivers, capacity 2, 3 envelopes | 188,702 | `InOrder`, `ReceiverNotified`, `AllReceived` |
| session_queue | 2 clients, 2 prompts, 1 interjection, 2 changes, 1 incident, with fairness | 774,213 | `ExactlyOnce`, `InOrder`, `RunsWhatItSays`, `Served` |
| governed_review | 2 clients, 3 requests (two share a key, two reuse a job id), 1 pending place, 1 permit, 2 incidents | 1,360,567 | `OneJobPerKey`, `StoreOpens`, `Attended`, `NoLostWakeup`, `TerminalStands` |
| agent_admission | 3 agents in 2 roots, 1 slot with a full queue or 2 slots with room, 1 agent with faults, with fairness | 143,209 | `BooksBalance`, `ReleaseNotMissed`, `ReservationHasOwner`, `Served` |
| agent_control | a parent and its child with a surviving resource, 2 resource leases, settlement on and off, 1 fault, 2 crashes, with fairness | 407,492 | `NothingLeft`, `Reclaimed`, `SurvivorBringsItsBudget`, `EndStands`, `FollowsLifecycle`, `RunsEnd` |
| approved_apply | 2 callers, 2 incidents, 2 moves of the goal, with fairness | 306,829 | `AppliedOnce`, `ReceiptIsTrue`, `Recovers` |

Why the bounds are enough for the cases that matter:

* three operations make a chain and a parent with two children; two calls make
  every race of submit with cancel and cancel with cancel;
* three leases and three callers are what the late release needs (old holder, new
  holder, intruder); duration 0 is the boundary of expiry;
* four scopes are a full path rollout, process, operation, capability, or the
  hidden chain of one admission; one failing write meets every method;
* capacity 1 and one lease let an invocation be denied at either stage while the
  other holds what it needs;
* three processes are a process, its replacement and the replacement that a limit of one
  forbids.  The same instance with reaps was also checked to the end (3,141,904 states
  with the other workload, no violation, before `Register` and `SpawnBudget` were cut at
  their awaits) and is not kept because of its size; the theorems hold for every
  workload;
* three envelopes fill the normal lane (2) and the emergency lane (1);
* two changes and one incident let an edit, a completion and a restart meet;
* two clients and three requests of which two share a key and two a job id reach
  the repeated, the conflicting and the refused submission; one pending place and
  one permit are both at their limit at once; of two incidents one can be a failing
  write and the other the restart after it;
* three agents in two roots fill the queue and the slots, and leave a third who
  must wait for, or gives up before, a release; two slots with room let the head of
  the queue and its successor be admitted together;
* a parent and one child are what a transfer needs; two leases let one be stored or
  released and the other not (the code has three); one fault and two crashes let
  a recovery be cut short and repeated after a half finished settlement;
* two callers are a decision and its repetition; two incidents are an apply that is
  cut off and the restart after it; two moves let a goal leave the state in which an
  apply saw it and come back.

An *incident* is a failing call, a dropped caller or connection, or a restart.

### Fairness

Safety does not depend on fairness.  `AllReceived`, `Served`, `RunsEnd` and
`Recovers` assume:

* Mailbox: weak fairness for the steps of a call that has begun, because tokio runs
  a task that can run.  Strong fairness for the `RecvLock` of a receiver that has not
  stopped: it calls `recv` in a loop, and tokio's Mutex is first in, first out, so that it
  gets the lock although senders take it again and again.  Nothing makes a receiver that
  has stopped return: that one receiver stays, and that none stops for good with a
  notification it has taken, is a hypothesis of `AllReceived` (`ReceiversStay`).
* SessionInput: weak fairness for the steps of a request that goes on; a turn ends,
  detached or not.
  Nothing is assumed about clients beginning requests.
* AgentAdmission: weak fairness for the steps of a future that can run, for the lock,
  which tokio hands on in order, and for the budget's answers; the owner of a lease
  ends it in the end.  Nothing is assumed of timers, so that `Served` does not rest
  on a timeout.
* AgentControl: weak fairness for the run's task, for the recovery, and for spawn as
  long as its tool call is not dropped, which may happen at any await (`DropSpawn`).  A
  launcher ends because the run's budget bounds its time.  Nothing is assumed of
  cancellations, faults and crashes; after a crash the daemon starts again.
* ApprovedApply: weak fairness for the steps of a call that goes on (git ends by its
  timeout of 60 s), and for the repetition of the approval: nothing in the daemon
  resumes an apply by itself, the owner does by pressing the button again.

## 4. Theorems

TLAPS proves these for all values of the constants.

* **OperationTableProofs.**  `IndInv` joins `TypeOK`, `TreeHasOneOwner`, `AnswerStands`,
  `CancelVisitsAll` and `ExitAgrees` with what makes them inductive: an edge that
  is about to be linked joins registered operations of one owner (`LinkInv`), what
  a cancel still has to visit is registered (`TodoInv`), and a waiter that does
  not rest waits for an operation (`WaiterInv`).  The lemma `DescendantsRegistered`
  says what `collect_descendants` can return: the transitive closure is a set of
  registered operations because the set of registered ones is closed under
  edges, so no induction over paths is needed.  `NoWakeupIsLost` and the action
  property `TerminalNeverChanges` are proved on top of it.  What the invariant does
  not need: that the tree has no cycle.
  The second part is about Mailbox: `LanesInv` (bounds, and accepted = received followed
  by queued) gives `LanesBounded` and `DeliveredInOrder`.  `Awake` gives `WakeupsArrive`:
  the Notify keeps a permit only while no receiver is registered, and when all receivers
  rest beside an envelope, registered, about to be or stopped in their wait, a
  notification is kept or still to come.  It needs no count of envelopes or permits and
  holds for any number of senders and receivers, who may stop and return at any time.
* **AdmissionControlProofs.**  `PermitInv` says where every actor stands and what it
  holds there: whom it works for (`Targets`), that nobody has seen a permit that was not
  active yet (`Unseen`), that at most one actor is in the middle of giving a permit's
  resources back (`OneHolder`), what has been closed and charged when it is (`Closings`,
  `Charges`), that a holder has no more than it has to give back (`Books`), and who
  cares for what is held (`Cared`).  The limit on reservations uses the theorems about
  cardinality.  `ClosedOnce` alone is not inductive: that a second `settle` finds
  nothing to close follows only from `OneHolder`.  It gives `PermitsClosedOnce` and
  `PermitsDoNotLeak` for any number of invocations and cleaners, dropped anywhere. The
  second part is about LeaseManager: `BookInv`, which holds without assumptions about
  holders, relates the two maps and the calls in flight and gives
  `ReleasedLeasesNeverBlock` and `EntriesCanBeReleased`.  `PromptInv` holds while nobody
  was late: an entry is the lease in use, and a caller's clock reading is the present;
  it gives `PromptExclusive`. The third part is about BudgetController.  `BudgetInv`
  says the same of memory and file, because a crash makes the file the memory: scopes
  hang below scopes that exist (`Tree`), every open scope but a root has a reservation
  (`Reserved`), what a scope has left is unlimited exactly if its limit is, and an open
  one has kept nothing (`Counted`), the books balance at every open scope with a limit
  (`BooksBalanced`), and both states are what the methods have reported (`Honours`).  A
  sum is the cardinality of a disjoint union, so that the theorems about finite sets
  (`TotalSplit`, `TotalAdd`) stand in for an induction over the scopes.  Each locked
  operation has one lemma, which also says that it forgets no scope and opens none again
  (`Above`): this is what carries `Honours` from one file to the next.  It gives
  `BudgetBalances`, `ReservationsMatchScopes` and `ReportsSurvive` for any number of
  scopes, amounts, failing writes and crashes.
* **AgentAdmissionProofs.**  `AdmissionInv`: the place of an agent determines under which
  phase the counters hold it (`PlacedAt`), a root's scope is created under the lock and
  once (`Scoped`), the queue holds every waiting agent once (`Queue`), and each counter is
  the number of agents that occupy it and within its limit (`Counted`).  A step moves
  one agent at a time, and the lemma `OneMoves` turns that into a counter that moves by
  one.  That a counter is given back once, by whichever of timeout, abort and release
  comes first, is `PlacedAt`.  It gives `BooksAlwaysBalance`, `NoReleaseIsMissed` and
  `ReservationsHaveOwners` for any agents, roots and limits.
* **SessionInputProofs.**  `SessionInv`: a key has a number in the queue exactly when it has
  an envelope (`Known`), buffered interjections are stored (`Stored`), the lock belongs to
  the call between its two steps (`Locked`), one client is the processor, under the
  claim (`OneProcessor`), what ran has left the queue and stands before all that is still
  in it (`Ran`), and what a client is about to write agrees with the envelope it
  has read (`Tended`).  The last is why `ExactlyOnce` holds although an edit writes back
  a copy: between its read and its write only the calls without the lock change an
  envelope, and those are about prompts that have left the queue.  It gives
  `PromptsRunOnce`, `PromptsRunInOrder` and the action property `TurnsRunWhatTheySay`.
* **AgentControlProofs.**  `ControlInv` is `TypeOK` and, for each agent, `AgentInv`:
  what its row says where its run or its recovery is (`Awake`, `Recorded`, `Ending`),
  what it still holds there (`Resourced`, `Reserved`, `Leased`), and what its receipts
  vouch for (`Vouched`).  From the place at which a thing should have been given back it
  says that the agent has it only if a failure left it (`Gone`), so that one failing
  call does not excuse the next.  Most steps are about one agent, and the lemmas
  `OthersKeep` and `OneAgent` reduce them to it; the exceptions are the cancellation of
  a subtree, a crash and the end of the recovery.  It gives `NothingIsLeft`,
  `LostRunsReclaimed`, `SurvivorsBringTheirBudget` and the action property `EndsStand`.
  `ImplementsLifecycle` is the refinement: the lemma `StatusWrites` says that a step
  either leaves every status alone or writes one, as the reducer allows, and the theorem
  maps the first to a stutter and the second to a step of AgentLifecycle.
* **ApprovedApplyProofs.**  `ApplyInv`: the path and the snapshot of a caller where it
  stands (`Located`), approval, claim and receipt agree (`Rows`), one caller has the
  operation (`OneApplies`), who may have changed the repository (`Patched`), and what
  the callers after the receipt know (`Cleaned`).  That one caller applies rests on the
  operation in the kernel's table and on the claim: a caller that waits to submit finds
  the approval unused, or an operation that refuses it.  It gives `PatchAppliedOnce` and
  `ReceiptsAreTrue` for any number of callers, incidents and moves of the goal.
* **GovernedReviewProofs.**  `StoreInv` relates index and files: a job of the index has
  its file, and the same receipt in it once it is over (`Filed`); records resolve, and
  are the files' until a write fails late (`Resolved`); until something fails, the key
  of a job names it (`Keyed`).  `ReviewInv` adds where tasks and clients stand
  (`Placed`, `Running`, `Tended`) and the permits.  Each effect on the store is one
  lemma (`EnqueueNewStore` to `RestartStore`), and `ClientMoves` and `TaskMoves` cover
  the steps that change no receipt.  All five properties of the run are proved:
  `KeysNameOneJob`, `StoreOpensAgain`, `JobsAreAttended`, `NoWakeupIsLost` and the action
  property `ReceiptsStand`, which needs `Filed`: a restart takes the receipt from a
  file that failed writes may have touched.
* **KernelRuntimeProofs.**  `RuntimeInv` says where every caller stands and what it
  carries (`CallOK`), what the holder of `lifecycle` finds at its place (`TermOK`), how
  record, progress, outcome and history of a process fit together (`ProcOK`), and that
  an end that is neither in progress nor kept, or a replacement that is not noted, is in
  the holder's hands (`LinkOK`).  `AnswersAgree` is far from inductive: that no second
  answer can differ needs that an end is never entered anew while it is in those hands,
  that only the holder moves a phase, and that a reap can take the entry away
  under the holder, who then panics before it changes anything.  The lemmas `CallFrame`,
  `LeaveKeeps` and their like cover the steps that leave the tables alone, and one lemma per
  action does the rest.  It gives `OneAnswer` and `RestartsSafe` for any number of callers
  and every workload, callers that are not quiet included: the run has only the quiet
  ones.  `QuietInv` adds who may still use a process (`UseOK`) and what each place of the
  cleanup has taken already (`OwnOK`, `Gone`); it gives `CleanBeforeEnd`, which is
  `TerminalOwnsNothing` for quiet callers without children or without restarts, and
  `OnlyTheSpaceReturns` for quiet callers with both; both leave out what a dropped caller
  opened and did not note (`Strays`), which no cleanup finds.  The attempt to prove the
  former without that hypothesis is what found the returning space of section 5, and the
  attempt to prove `OneAnswer` with `Finish` and `Settle` in one step the lost end.

Each of these invariants was checked by TLC on the instance of the component's run,
GovernedReview's with three incidents (3,122,773 states), before it was proved;
KernelRuntime's also, as far as TLC came, where callers are not quiet and where children
and restarts meet.

Assumptions on constants (all named `...Assumption`, and evaluated by TLC): bounds
are natural numbers (limits of agents positive, as the configuration's validation asks),
agents are finitely many, senders are not receivers, prompts not interjections and
invocations not cleaners, and `None` (`Nothing`, `Nobody`) is no member of the sets and
differs from the values that stand beside it (statuses, decisions, results, the
records of a review); no job of a review is called "new", which is what `Known` answers
for a job that is not in the index.  None of them restricts the program: `None` and
"new" are the models' own words for the absence of a value.

Only model-checked is liveness (`AllReceived`, both `Served`, `RunsEnd`, `Recovers`),
because the prover does not handle fairness.  Every invariant and action property of a
passing run, and the refinement, is stated by a theorem; `TerminalOwnsNothing` for quiet
callers, with the hypothesis given above, because it fails without them.

## 5. What disagrees with the repository's own words

One run ends in a violation.

* **kernel_late_owner**: what a process is handed between the cleanup and the
  publication of its end stays with it (`runtime.rs:745`); `runtime.rs:484` says
  that cleanup precedes publication.

The models have more behaviours of this kind.  No run is kept for them:

* `release` of an expired lease deletes the entry of the lease that replaced it
  (`lease.rs:114`), and a third caller is granted the resource while the second
  holds it; `lease.rs:9` says only one lease per resource at a time.  This is why
  `ExclusiveWhilePrompt` is stated for prompt holders.  An `acquire` dropped at
  `lease.rs:98` leaves an entry that nobody can release before it expires;
* a child submitted while its parent is being cancelled is missed by the
  collection and stays live below a cancelled parent (`table.rs:239`, against
  `table.rs:16`);
* on a durable budget, the methods of the compatibility adapter, `set_budget` and
  `revoke_scope_tree` do not persist (`budget.rs:536`, against `:120`);
  `revoke_scope_tree` misses what lies below a scope that a transfer closed
  (`:429`, against `:391`); closing a parent with a usage report that leaves out
  what its children spent returns that to the grandparent (`:503`, against `:5`);
* without a sandbox backend, as `KernelRuntime` configures it (`runtime.rs:122`), a
  request that needs one is denied with its budget and lease still held
  (`production.rs:222`; the denial at `:199` gives the budget back); `NothingLeaks`
  excuses this answer and no other;
* two calls of `spawn_process` for one agent leave it with two live processes
  (`runtime.rs:335`); a process that is reaped as soon as its end is published
  takes the progress away from its termination, which panics (`runtime.rs:685`
  and `:536`);
* a caller that is dropped between registering a mailbox and noting its process
  (`runtime.rs:225`), or between opening a budget scope and noting it (`:397`), leaves a
  mailbox or a scope that no cleanup finds (`:644`, `:657`), and the process is published
  as terminal with it (against `:484`); `TerminalOwnsNothing` excuses these two;
* a termination that is cut off between its cleanup and its publication leaves a live
  process whose things are gone; the restart of a child forks its space
  (`process/table.rs:194`), which creates the entry again, and the retry goes on
  at MarkTerminal and publishes the process with it (`runtime.rs:526`, against `:484`);
* a caller of `terminate_process` that is dropped between taking the progress out
  (`runtime.rs:614`) and keeping the outcome (`:626`) loses the end: a retry finds
  neither, cleans again, asks the supervisor again and may create a second replacement,
  and it answers with its own reason, not with the published one (against
  "retry-idempotent" at `:484`);
* `close` uses `try_lock` and does nothing when the lock is held (`mailbox.rs:284`,
  against `:69`; the model's `Close` is the one that succeeds, a lost one changes
  nothing); it leaves pending envelopes in place (`:285`, against `:74`);
  `unregister` does not close (`:345`, against `:102`); a receiver that has taken a
  notification and stops before it looks at the queues (`agent_control/mailbox.rs:83`)
  leaves the envelope to a receiver that is not told of it;
* the claim of a processor whose connection ends is never given back
  (`session_input.rs:371`, against `:363`): later prompts are queued and nobody runs
  them until the daemon restarts.  The turn itself goes on detached
  (`turn_pipeline.rs:1054`) and its prompt stays Running.  This is why `Served` excuses
  what follows an incident;
* a completion between the read and the write of an edit is overwritten, with a
  version that was already used (`session_input.rs:403`, against
  `prompt_queue.rs:50`);
* an interjection is handed out as it was enqueued although it was edited or
  cancelled since, and prompts that a restart left running count against the
  queue's capacity for ever (`session_input.rs:477` and `:230`);
* submissions of a review that count the pending jobs before any of them stores
  its own all pass the limit (`service.rs:176`); the key of a job whose record
  could not be written can be given to a second job, which `OneJobPerKey` excuses
  after a failing write (`faulty`);
* an admitted agent announces nothing, so that the next head of the queue may sleep
  beside a free slot until the next release or its timeout
  (`agent_control/admission.rs:326`); a revoke that fails or is aborted has already
  taken the reservation out of the lease, and nobody closes it (`admission.rs:510`);
* an early return of spawn leaves a process, an operation, a live run or an open row to
  the daemon's next start (`agent_control/mod.rs:1050`, `:1110`, `:1192`), and so does a
  spawn whose tool call is cancelled (`kernel/capability/mod.rs:185`); a run that cannot
  be started or marked leaves its resource leases until they expire (`mod.rs:1508`,
  `:1530`, `:1542`), and its open row if marking failed; a `terminate_process` or
  `revoke` that fails is not repeated (`:1658`, `:1514`), and a release of a lease that
  fails is noted in a receipt that says Failed (`settlement.rs:875`).  AgentControl
  notes each of these things in `left`;
* a crash after the terminal row and before the settlement, or after the
  Interrupted row and before the reclaim, leaves the reservation open, because
  recovery lists open rows only (`late`; against the comment at `mod.rs:1714`);
* a background resource that moved to the parent outlives a parent that ends normally
  (`live_runs.rs:202`); the parent may even have settled the reservation that took the
  child's rest before the resource moves, so that nothing pays for it any more
  (`SurvivorBringsItsBudget` is about the move only); and a child that goes live after a
  cancellation collected the subtree is not cancelled (`mod.rs:1404`);
* an apply that is cut off after git has written and before its receipt is repeated,
  refused by `git apply --check`, and recorded as a failure although the patch is in
  place (`apply_coordinator.rs:246`, against "Restart-safe" in its first line); `torn`
  marks it;
* a rollback that fails (`subagent/apply.rs:263`) is answered with an error that names
  it, and the failure receipt is written in the ordinary way with some of the patch
  still in the repository; `unrestored` marks it.  `ReceiptIsTrue` has these two
  excuses;
* when something fails after the operation of an apply is registered, the operation
  stays Running and every later approval is answered DuplicateInProgress until the
  daemon restarts (`apply_coordinator.rs:210`);
* an approval that is repeated after a failure moves a goal that the owner has resumed
  since back to Blocked (`:482`); the worker takes the goal that an apply made Running
  for one that needs an attempt (`goal/worker.rs:151`); an approval that expires while
  somebody lists the pending ones leaves its goal AwaitingHuman (`repository.rs:527`);
* the cached id of a thread's root process is returned although the process has
  ended (`daemon_turn/lifecycle.rs:25`); no module has this cache yet.

## 6. Not modelled, and the plan

Not modelled for good: data without state between calls (policy rules, runtime
selection, contracts), numerical parts (attention, ranking), tool and platform
I/O, prompts and model adapters, user interfaces, the launcher.  The buses and
transports are tokio channels and framing.

Next, in this order:

1. **GoalAttempt**: attempts with compare-and-set versions, retry and budget, which
   are MoveGoal in ApprovedApply; creation and delivery of approvals.
2. **TurnCoordinator**: one active turn per thread, cancellation, and recovery,
   above SessionInput; with it the cached root process.
3. **Hardware** (permits and the latch of the emergency stop), the **memory spool**,
   the **gateway**'s inbox, **agora**'s commit log, **change transactions**, supervision
   groups, and the event spine.

Abstract specifications worth stating, each with a refinement checked by TLC and
then proved: a *permit lifecycle* (free, held, closed once) that AdmissionControl
implements; a *FIFO lane* that Mailbox implements; an *exclusive resource* that
LeaseManager implements while nobody is late; a *job* (accepted, running, one
terminal receipt) for GovernedReview, as AgentLifecycle is for AgentControl.

Theorems worth proving next are the refinements of these specifications, and the
properties of the modules that the plan adds.

As modules are added, the runs whose question a proof has answered can make
room, and two small components can share a run when they are composed.
