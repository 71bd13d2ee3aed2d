---------------------------- MODULE GovernedReview ----------------------------
(***************************************************************************)
(* Bounded reviews of submitted evidence: GovernedReviewService and its    *)
(* GovernedReviewStore (crates/executive/src/application/governed_review/  *)
(* service.rs and store.rs), for one principal.                            *)
(*                                                                         *)
(* The store holds an index in memory and a file per job and per           *)
(* idempotency key; every call of it is one critical section, in which     *)
(* files are written before the index.  A write of a file can fail with    *)
(* the old or, when only the sync of the directory fails, with the new     *)
(* file in place.  A failed write followed by a restart is also what is    *)
(* left by a crash between two writes.                                     *)
(*                                                                         *)
(* The service runs a task per scheduled job, and clients submit, cancel   *)
(* and wait; they are cut at the awaits between two locks.  A receipt is   *)
(* its status.  Requests that do not validate are left out.                *)
(***************************************************************************)
EXTENDS Integers, FiniteSets

CONSTANTS
  Clients,
  Requests,       \* what clients submit: job identifier, key and evidence digest
  MaxPending,     \* max_pending_jobs
  MaxConcurrent,  \* max_concurrent_jobs
  MaxIncidents,   \* bound on failing writes, dropped calls and restarts
  None

Jobs == {r.job : r \in Requests}
Keys == {r.key : r \in Requests}
Digests == {r.digest : r \in Requests}
\* ReviewStatus::is_terminal.  Completed, Rejected, Expired and Failed, which an
\* execution may end with, are one: the store treats them alike.
Terminal == {"Ended", "Cancelled"}
\* StoredReview and IdempotencyRecord.
StoredReview == [status : Terminal \cup {"Queued", "Running"}, key : Keys, digest : Digests]
IdempotencyRecord == [job : Jobs, digest : Digests]

ASSUME ReviewAssumption ==
  /\ MaxPending \in Nat /\ MaxConcurrent \in Nat \ {0} /\ MaxIncidents \in Nat
  /\ "new" \notin Jobs
  /\ None \notin StoredReview /\ None \notin IdempotencyRecord

VARIABLES
  jobs, idem,          \* StoreIndex
  jobFile, idemFile,   \* the directories jobs/ and idempotency/
  up,                  \* is the daemon up?
  task,                \* the task of each job in `active`, with its token and permit
  client,              \* what each client is doing
  incidents,           \* how often something failed, was dropped or was restarted
  faulty,              \* did a write fail or a call end early? (history)
  late                 \* did a write fail with the new file in place? (history)

store == <<jobs, idem, jobFile, idemFile>>
failures == <<incidents, faulty, late>>
vars == <<store, up, task, client, failures>>

NoTask == [at |-> "none", cancelled |-> FALSE, permit |-> FALSE, status |-> None]
Idle == [at |-> "idle", req |-> None, job |-> None, woken |-> FALSE]

Init ==
  /\ jobs = [j \in Jobs |-> None] /\ idem = [k \in Keys |-> None]
  /\ jobFile = jobs /\ idemFile = idem
  /\ up = TRUE
  /\ task = [j \in Jobs |-> NoTask] /\ client = [c \in Clients |-> Idle]
  /\ incidents = 0 /\ faulty = FALSE /\ late = FALSE

At(c, l) == up /\ client[c].at = l
TaskAt(j, l) == up /\ task[j].at = l
NonTerminal == {j \in Jobs : jobs[j] # None /\ jobs[j].status \notin Terminal}
To(l, j) == [Idle EXCEPT !.at = l, !.job = j]

\* A write fails: `after` tells whether the new file is in place.
Fault(after) ==
  /\ incidents < MaxIncidents /\ incidents' = incidents + 1
  /\ faulty' = TRUE /\ late' = (late \/ after)

-----------------------------------------------------------------------------
(* submit *)

\* find_by_idempotency: a bound key answers its job, which is scheduled again
\* when it is not over.
SubmitFind(c, r) ==
  /\ At(c, "idle")
  /\ \/ /\ idem[r.key] = None
        /\ client' = [client EXCEPT ![c].at = "count", ![c].req = r]
     \/ /\ idem[r.key] # None /\ idem[r.key].digest = r.digest
        /\ idem[r.key].job \in NonTerminal
        /\ client' = [client EXCEPT ![c] = To("schedule", idem[r.key].job)]
  /\ UNCHANGED <<store, up, task, failures>>

\* The capacity is looked at in a critical section of its own.
SubmitCount(c) ==
  /\ At(c, "count")
  /\ client' = [client EXCEPT ![c] =
       IF Cardinality(NonTerminal) < MaxPending THEN [@ EXCEPT !.at = "enqueue"] ELSE Idle]
  /\ UNCHANGED <<store, up, task, failures>>

\* What enqueue answers from the index: a job of it, a conflict, or that the job is new.
Known(r) ==
  IF idem[r.key] # None
    THEN IF idem[r.key].digest = r.digest THEN idem[r.key].job ELSE "conflict"
  ELSE IF jobs[r.job] = None THEN "new"
  ELSE IF jobs[r.job].digest = r.digest /\ jobs[r.job].key = r.key THEN r.job
  ELSE "conflict"

Stored(r) == [status |-> "Queued", key |-> r.key, digest |-> r.digest]
Record(r) == [job |-> r.job, digest |-> r.digest]

\* Mutant: the record of the key is written first.
EnqueueFailsKeyFirst(c) ==
  LET r == client[c].req
  IN  /\ At(c, "enqueue") /\ Known(r) = "new"
      /\ \E wrote \in {"none", "job", "both"} :
           /\ jobFile' = IF wrote = "both" THEN [jobFile EXCEPT ![r.job] = Stored(r)] ELSE jobFile
           /\ idemFile' = IF wrote = "none" THEN idemFile ELSE [idemFile EXCEPT ![r.key] = Record(r)]
           /\ Fault(wrote = "both")
      /\ client' = [client EXCEPT ![c] = Idle]
      /\ UNCHANGED <<jobs, idem, up, task>>

\* The writes of enqueue fail with neither, the first or both files in place,
\* and the index stays as it is.
EnqueueFails(c) ==
  LET r == client[c].req
  IN  /\ At(c, "enqueue") /\ Known(r) = "new"
      /\ \E wrote \in {"none", "job", "both"} :
           /\ jobFile' = IF wrote = "none" THEN jobFile ELSE [jobFile EXCEPT ![r.job] = Stored(r)]
           /\ idemFile' = IF wrote = "both" THEN [idemFile EXCEPT ![r.key] = Record(r)] ELSE idemFile
           /\ Fault(wrote = "both")
      /\ client' = [client EXCEPT ![c] = Idle]
      /\ UNCHANGED <<jobs, idem, up, task>>

\* A new job is written to its file and its key's file, then to the index.
EnqueueNew(r) ==
  /\ jobFile' = [jobFile EXCEPT ![r.job] = Stored(r)]
  /\ idemFile' = [idemFile EXCEPT ![r.key] = Record(r)]
  /\ jobs' = [jobs EXCEPT ![r.job] = Stored(r)]
  /\ idem' = [idem EXCEPT ![r.key] = Record(r)]

\* Mutant: a key that was bound since the first look is bound again.
EnqueueBlindly(c) ==
  LET r == client[c].req
  IN  /\ At(c, "enqueue") /\ jobs[r.job] = None
      /\ EnqueueNew(r)
      /\ client' = [client EXCEPT ![c] = To("schedule", r.job)]
      /\ UNCHANGED <<up, task, failures>>

\* store.enqueue looks at the key again; a conflict or a job that is over ends
\* the submission.
Enqueue(c) ==
  LET r == client[c].req
      known == Known(r)
  IN  /\ At(c, "enqueue")
      /\ \/ /\ known = "new"
            /\ EnqueueNew(r)
            /\ client' = [client EXCEPT ![c] = To("schedule", r.job)]
         \/ /\ known # "new"
            /\ client' = [client EXCEPT ![c] =
                            IF known \in NonTerminal THEN To("schedule", known) ELSE Idle]
            /\ UNCHANGED store
      /\ UNCHANGED <<up, task, failures>>

\* schedule with the copy that the submission read, which may be stale; the
\* submission answers with it.
Schedule(c) ==
  /\ At(c, "schedule")
  /\ task' = [task EXCEPT ![client[c].job] =
                 IF @.at = "none" THEN [NoTask EXCEPT !.at = "start"] ELSE @]
  /\ client' = [client EXCEPT ![c] = Idle]
  /\ UNCHANGED <<store, up, failures>>

-----------------------------------------------------------------------------
(* update_receipt *)

\* Mutant: a terminal receipt may be replaced.
AllowedAlways(from, to) == TRUE

\* allowed_transition, for receipts that are not terminal.
Allowed(from, to) ==
  from \notin Terminal /\ (from = to \/ from = "Queued" \/ to \in Terminal)

\* The receipt is written: the file, then the index.
Update(j, s) ==
  /\ Allowed(jobs[j].status, s)
  /\ jobs' = [jobs EXCEPT ![j].status = s]
  /\ jobFile' = [jobFile EXCEPT ![j] = jobs'[j]]
  /\ UNCHANGED <<idem, idemFile, failures>>

UpdateFails(j, s) ==
  /\ Allowed(jobs[j].status, s)
  /\ \E after \in BOOLEAN :
       /\ Fault(after)
       /\ jobFile' = IF after THEN [jobFile EXCEPT ![j] = [jobs[j] EXCEPT !.status = s]] ELSE jobFile
  /\ UNCHANGED <<jobs, idem, idemFile>>

\* InvalidTransition.  Two receipts of the same status are equal when they were
\* made in the same millisecond; the second is then answered as the first.
Refused(j, s) == ~Allowed(jobs[j].status, s) /\ UNCHANGED <<store, failures>>
Repeated(j, s) == jobs[j].status = s /\ s \in Terminal /\ UNCHANGED <<store, failures>>

\* notify_waiters reaches the waits whose Notified exists.
Notify(cs, j) ==
  [c \in Clients |-> IF cs[c].at \in {"recheck", "sleep"} /\ cs[c].job = j
                       THEN [cs[c] EXCEPT !.woken = TRUE] ELSE cs[c]]

-----------------------------------------------------------------------------
(* cancel and wait *)

\* cancel reaches the token of an active job and goes on to the store.
CancelToken(c, j) ==
  /\ At(c, "idle") /\ jobs[j] # None
  /\ task' = [task EXCEPT ![j].cancelled = (@ \/ task[j].at \in {"start", "running", "infer"})]
  /\ client' = [client EXCEPT ![c] = To("write", j)]
  /\ UNCHANGED <<store, up, failures>>

\* A job that is over already, at the look or at the write, answers its receipt.
CancelWrite(c) ==
  /\ At(c, "write")
  /\ LET j == client[c].job
         Goto(to) == client' = [client EXCEPT ![c] = to]
     IN  \/ (Update(j, "Cancelled") \/ Repeated(j, "Cancelled")) /\ Goto(To("notify", j))
         \/ (Refused(j, "Cancelled") \/ UpdateFails(j, "Cancelled")) /\ Goto(Idle)
  /\ UNCHANGED <<up, task>>

CancelNotify(c) ==
  /\ At(c, "notify")
  /\ client' = Notify([client EXCEPT ![c] = Idle], client[c].job)
  /\ UNCHANGED <<store, up, task, failures>>

\* wait looks at the receipt, and again once its Notified exists, before it sleeps.
WaitLook(c, j) ==
  /\ At(c, "idle") \/ (At(c, "sleep") /\ client[c].woken /\ client[c].job = j)
  /\ jobs[j] # None
  /\ client' = [client EXCEPT ![c] = IF j \in NonTerminal THEN To("recheck", j) ELSE Idle]
  /\ UNCHANGED <<store, up, task, failures>>

\* Mutant: the Notified is made after the second look.
RecheckBeforeArming(c) ==
  /\ At(c, "recheck")
  /\ client' = [client EXCEPT ![c].at = "sleep", ![c].woken = FALSE]
  /\ UNCHANGED <<store, up, task, failures>>

WaitRecheck(c) ==
  /\ At(c, "recheck")
  /\ client' = [client EXCEPT ![c] = IF @.job \in NonTerminal THEN [@ EXCEPT !.at = "sleep"] ELSE Idle]
  /\ UNCHANGED <<store, up, task, failures>>

WaitTimeout(c) ==
  /\ At(c, "recheck") \/ At(c, "sleep")
  /\ client' = [client EXCEPT ![c] = Idle]
  /\ UNCHANGED <<store, up, task, failures>>

-----------------------------------------------------------------------------
(* execute: the task of a job *)

\* Once an execution has its outcome it no longer looks at its token.
Go(j, l) == task' = [task EXCEPT ![j] = [NoTask EXCEPT !.at = l, !.permit = task[j].permit]]
SettleWith(j, s, permit) ==
  task' = [task EXCEPT ![j] = [at |-> "settle", cancelled |-> FALSE, permit |-> permit, status |-> s]]

\* The deadline has passed.
Expire(j) ==
  /\ TaskAt(j, "start")
  /\ SettleWith(j, "Ended", FALSE)
  /\ UNCHANGED <<store, up, client, failures>>

Permits == Cardinality({j \in Jobs : task[j].permit})

Acquire(j) ==
  /\ TaskAt(j, "start") /\ Permits < MaxConcurrent
  /\ task' = [task EXCEPT ![j].at = "running", ![j].permit = TRUE]
  /\ UNCHANGED <<store, up, client, failures>>

\* A cancelled token ends the wait for a permit or the inference; the permit is
\* dropped and the task calls cancel itself.
Cancelled(j) ==
  /\ TaskAt(j, "start") \/ TaskAt(j, "infer")
  /\ task[j].cancelled
  /\ SettleWith(j, "Cancelled", FALSE)
  /\ UNCHANGED <<store, up, client, failures>>

\* The receipt Running is persisted; a refusal or a failure ends the task.  A
\* prompt that cannot be compiled or is too large settles with the permit held.
WriteRunning(j) ==
  /\ TaskAt(j, "running")
  /\ \/ Update(j, "Running") /\ (task' = [task EXCEPT ![j].at = "infer"] \/ SettleWith(j, "Ended", TRUE))
     \/ /\ Refused(j, "Running") \/ UpdateFails(j, "Running")
        /\ task' = [task EXCEPT ![j] = [NoTask EXCEPT !.at = "end"]]
  /\ UNCHANGED <<up, client>>

\* The inference ends, fails or times out; its output may be refused.
Infer(j) ==
  /\ TaskAt(j, "infer")
  /\ SettleWith(j, "Ended", FALSE)
  /\ UNCHANGED <<store, up, client, failures>>

\* settle_failure, the write of a completed receipt, or cancel called by the task.
Settle(j) ==
  /\ TaskAt(j, "settle")
  /\ LET s == task[j].status
     IN  \/ (Update(j, s) \/ Repeated(j, s)) /\ Go(j, "notify")
         \/ (Refused(j, s) \/ UpdateFails(j, s)) /\ Go(j, "end")
  /\ UNCHANGED <<up, client>>

TaskNotify(j) ==
  /\ TaskAt(j, "notify")
  /\ client' = Notify(client, j)
  /\ Go(j, "end")
  /\ UNCHANGED <<store, up, failures>>

\* The task leaves `active` last; a permit it still held went with execute.
TaskEnds(j) ==
  /\ TaskAt(j, "end")
  /\ task' = [task EXCEPT ![j] = NoTask]
  /\ UNCHANGED <<store, up, client, failures>>

-----------------------------------------------------------------------------
(* Connections and the daemon *)

\* The connection ends: the call stops at its await.
Disconnect(c) ==
  /\ up /\ client[c].at \in {"count", "enqueue", "schedule", "write", "notify"}
  /\ incidents < MaxIncidents /\ incidents' = incidents + 1
  /\ faulty' = TRUE
  /\ client' = [client EXCEPT ![c] = Idle]
  /\ UNCHANGED <<store, up, task, late>>

\* GovernedReviewStore::open resolves every record to a job with its evidence.
Opens ==
  \A k \in Keys : idemFile[k] # None =>
    /\ jobFile[idemFile[k].job] # None
    /\ jobFile[idemFile[k].job].digest = idemFile[k].digest

\* Mutant: the jobs found on disk are not scheduled.
RestartForgets ==
  /\ up /\ incidents < MaxIncidents /\ incidents' = incidents + 1
  /\ client' = [c \in Clients |-> Idle]
  /\ up' = Opens
  /\ jobs' = jobFile /\ idem' = idemFile
  /\ task' = [j \in Jobs |-> NoTask]
  /\ UNCHANGED <<jobFile, idemFile, faulty, late>>

\* The daemon stops and starts: the index is read from the files, and recover
\* schedules what is not over before requests are served.  A store that does not
\* open keeps the daemon down.
Restart ==
  /\ up /\ incidents < MaxIncidents /\ incidents' = incidents + 1
  /\ client' = [c \in Clients |-> Idle]
  /\ up' = Opens
  /\ jobs' = jobFile /\ idem' = idemFile
  /\ task' = [j \in Jobs |-> IF jobFile[j] # None /\ jobFile[j].status \notin Terminal
                               THEN [NoTask EXCEPT !.at = "start"] ELSE NoTask]
  /\ UNCHANGED <<jobFile, idemFile, faulty, late>>

-----------------------------------------------------------------------------
ClientStep(c) ==
  \/ SubmitCount(c) \/ Enqueue(c) \/ EnqueueFails(c) \/ Schedule(c)
  \/ CancelWrite(c) \/ CancelNotify(c)
  \/ WaitRecheck(c)
  \/ \E j \in Jobs : At(c, "sleep") /\ WaitLook(c, j)

TaskStep(j) ==
  \/ Expire(j) \/ Acquire(j) \/ Cancelled(j) \/ WriteRunning(j) \/ Infer(j)
  \/ Settle(j) \/ TaskNotify(j) \/ TaskEnds(j)

Next ==
  \/ \E c \in Clients : \/ ClientStep(c) \/ WaitTimeout(c) \/ Disconnect(c)
                        \/ \E r \in Requests : SubmitFind(c, r)
                        \/ \E j \in Jobs : CancelToken(c, j) \/ (At(c, "idle") /\ WaitLook(c, j))
  \/ \E j \in Jobs : TaskStep(j)
  \/ Restart

Spec == Init /\ [][Next]_vars

-----------------------------------------------------------------------------
(* Properties *)

\* The state of the model is well formed; a permit is held by a running task.
TypeOK ==
  /\ {jobs, jobFile} \subseteq [Jobs -> {None} \cup StoredReview]
  /\ {idem, idemFile} \subseteq [Keys -> {None} \cup IdempotencyRecord]
  /\ \A j \in Jobs : task[j].permit =>
       task[j].at \in {"running", "infer", "settle", "notify", "end"}
  /\ Permits <= MaxConcurrent
  /\ incidents \in 0..MaxIncidents

\* A terminal receipt, once anybody could have read it, stands, in the index and
\* after every restart, whatever was written in between and failed.
TerminalStands ==
  [][\A j \in Jobs : jobs[j] # None /\ jobs[j].status \in Terminal => jobs'[j] = jobs[j]]_vars

\* A key names one job, although submissions look at it twice.
OneJobPerKey ==
  /\ TypeOK
  /\ faulty \/ \A i, j \in Jobs : jobs[i] # None /\ jobs[j] # None /\ jobs[i].key = jobs[j].key => i = j

\* "reconstruction sees an unindexed job but never a dangling idempotency
\* authority": the store opens again, whichever write failed, as long as a
\* failed write leaves the old file.
StoreOpens == late \/ Opens

\* Until a write fails or a call is dropped, every job that is not over has a
\* task that will settle it, or a submission about to schedule it; and without
\* incidents no execution of a job begins after another has, although submissions
\* schedule from stale copies: its evidence goes to the model once.
Attended ==
  /\ ~faulty => \A j \in NonTerminal :
       \/ task[j].at \notin {"none", "end", "notify"}
       \/ \E c \in Clients : client[c].at = "schedule" /\ client[c].job = j
  /\ incidents = 0 => ~\E j \in Jobs : TaskAt(j, "running") /\ jobs[j].status = "Running"

\* A wait that sleeps beside a terminal receipt was woken or is about to be.
NoLostWakeup ==
  ~faulty => \A c \in Clients :
    LET j == client[c].job
    IN  At(c, "sleep") /\ ~client[c].woken /\ jobs[j].status \in Terminal =>
          \/ task[j].at = "notify"
          \/ \E d \in Clients : client[d].at = "notify" /\ client[d].job = j
===============================================================================
