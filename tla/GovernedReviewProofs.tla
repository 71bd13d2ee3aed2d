------------------------- MODULE GovernedReviewProofs -------------------------
(***************************************************************************)
(* Proofs about GovernedReview: for any clients, requests, limits and      *)
(* number of incidents, a key names one job, a terminal receipt stands,    *)
(* the store opens again, every live job is attended to and no wait sleeps *)
(* beside a finished job.                                                  *)
(***************************************************************************)
EXTENDS GovernedReview, FiniteSetTheorems, TLAPS

\* The types of a client and of a task.
Places == {"idle", "count", "enqueue", "schedule", "write", "notify", "recheck", "sleep"}
TaskPlaces == {"none", "start", "running", "infer", "settle", "notify", "end"}
ClientType == [at : Places, req : {None} \cup Requests, job : {None} \cup Jobs, woken : BOOLEAN]
TaskType == [at : TaskPlaces, cancelled : BOOLEAN, permit : BOOLEAN, status : {None} \cup Terminal]

\* The semaphore hands out no more permits than it has.
Holders == {j \in Jobs : task[j].permit}
Permitted == IsFiniteSet(Holders) /\ Cardinality(Holders) <= MaxConcurrent

Typed ==
  /\ jobs \in [Jobs -> {None} \cup StoredReview] /\ jobFile \in [Jobs -> {None} \cup StoredReview]
  /\ idem \in [Keys -> {None} \cup IdempotencyRecord]
  /\ idemFile \in [Keys -> {None} \cup IdempotencyRecord]
  /\ up \in BOOLEAN /\ faulty \in BOOLEAN /\ late \in BOOLEAN /\ incidents \in 0..MaxIncidents

Actors == task \in [Jobs -> TaskType] /\ client \in [Clients -> ClientType]

\* A job of the index has its file, and a receipt that is over is the file's.
Filed ==
  \A j \in Jobs : jobs[j] # None =>
    /\ jobFile[j] # None /\ jobFile[j].digest = jobs[j].digest
    /\ jobs[j].status \in Terminal => jobFile[j] = jobs[j]

\* The records of the index resolve, and are the files' as long as no write failed late.
Resolved ==
  /\ late \/ up
  /\ up => \A k \in Keys : idem[k] # None =>
       jobs[idem[k].job] # None /\ jobs[idem[k].job].digest = idem[k].digest
  /\ late \/ idemFile = idem

\* Until a write fails or a call is dropped, files and index agree, and the key of a job
\* names it.
Keyed ==
  /\ incidents = 0 => ~faulty
  /\ late => faulty
  /\ faulty \/ jobFile = jobs
  /\ faulty \/ \A j \in Jobs : jobs[j] # None =>
       idem[jobs[j].key] # None /\ idem[jobs[j].key].job = j

\* A client that has gone past the submission, and a task, have a job of the index; a task
\* that settled has left it over.
Placed ==
  /\ \A c \in Clients :
       /\ client[c].at \in {"count", "enqueue"} => client[c].req \in Requests
       /\ client[c].at \in {"schedule", "write", "notify", "recheck", "sleep"} =>
            client[c].job \in Jobs /\ jobs[client[c].job] # None
  /\ \A j \in Jobs :
       /\ task[j].at # "none" => jobs[j] # None
       /\ task[j].at = "settle" => task[j].status \in Terminal
       /\ task[j].at \in {"notify", "end"} => faulty \/ jobs[j].status \in Terminal
       /\ task[j].permit => task[j].at \in {"running", "infer", "settle", "notify", "end"}
       /\ task[j].at = "running" => task[j].permit

\* Without incidents a job whose receipt says Running is executed by its task.
Running ==
  \A j \in Jobs : incidents = 0 /\ jobs[j] # None /\ jobs[j].status = "Running" =>
    task[j].at \in {"infer", "settle"}

\* The first part of Attended: a task or a submission will see to every live job.
Tended ==
  ~faulty => \A j \in NonTerminal :
    \/ task[j].at \notin {"none", "end", "notify"}
    \/ \E c \in Clients : client[c].at = "schedule" /\ client[c].job = j

StoreInv == Typed /\ Filed /\ Resolved /\ Keyed
ReviewInv == StoreInv /\ Actors /\ Permitted /\ Placed /\ Running /\ Tended /\ NoLostWakeup

-----------------------------------------------------------------------------
(* The store *)

LEMMA RecordsTyped ==
  ASSUME NEW r \in Requests
  PROVE  /\ r.job \in Jobs /\ r.key \in Keys /\ r.digest \in Digests
         /\ Stored(r) \in StoredReview /\ Stored(r) # None
         /\ Record(r) \in IdempotencyRecord /\ Record(r) # None
<1>1. r.job \in Jobs /\ r.key \in Keys /\ r.digest \in Digests
  BY DEF Jobs, Keys, Digests
<1>2. Stored(r) \in StoredReview /\ Record(r) \in IdempotencyRecord
  BY <1>1 DEF Stored, Record, StoredReview, IdempotencyRecord
<1> QED
  BY <1>1, <1>2, ReviewAssumption

\* A key that enqueue finds unbound, and a job that it finds new, are not in the index.
LEMMA NewIsNew ==
  ASSUME StoreInv, NEW r \in Requests, Known(r) = "new"
  PROVE  idem[r.key] = None /\ jobs[r.job] = None
<1>1. r.job \in Jobs /\ r.key \in Keys
  BY RecordsTyped
<1>2. idem[r.key] \in {None} \cup IdempotencyRecord
  BY <1>1 DEF StoreInv, Typed
<1>3. CASE idem[r.key] # None
  <2>1. idem[r.key].job \in Jobs
    BY <1>2, <1>3 DEF IdempotencyRecord
  <2> QED
    BY <1>3, <2>1, ReviewAssumption DEF Known
<1>4. CASE idem[r.key] = None
  BY <1>1, <1>4, ReviewAssumption DEF Known
<1> QED
  BY <1>3, <1>4

\* Nothing is written; a call may have been dropped.
LEMMA StoreUntouched ==
  ASSUME StoreInv, UNCHANGED <<store, up, late>>,
         \/ UNCHANGED <<faulty, incidents>>
         \/ faulty' = TRUE /\ incidents < MaxIncidents /\ incidents' = incidents + 1
  PROVE  StoreInv'
<1> USE ReviewAssumption DEF StoreInv, store
<1>1. Typed' /\ Filed'
  <2>1. incidents' \in 0..MaxIncidents
    BY DEF Typed
  <2>2. faulty' \in BOOLEAN
    BY DEF Typed
  <2> QED
    BY <2>1, <2>2 DEF Typed, Filed
<1>2. Resolved'
  BY DEF Resolved
<1>3. Keyed'
  BY DEF Keyed, Typed
<1> QED
  BY <1>1, <1>2, <1>3

LEMMA EnqueueNewStore ==
  ASSUME StoreInv, NEW r \in Requests, Known(r) = "new", EnqueueNew(r), UNCHANGED <<up, failures>>
  PROVE  /\ StoreInv'
         /\ jobs[r.job] = None /\ jobs' = [jobs EXCEPT ![r.job] = Stored(r)] 
         /\ jobs'[r.job] # None /\ jobs'[r.job].status = "Queued"
<1> USE ReviewAssumption DEF StoreInv, EnqueueNew, failures
<1>1. /\ r.job \in Jobs /\ r.key \in Keys
      /\ Stored(r) \in StoredReview /\ Stored(r) # None
      /\ Record(r) \in IdempotencyRecord /\ Record(r) # None
      /\ Record(r).job = r.job /\ Record(r).digest = r.digest
      /\ Stored(r).key = r.key /\ Stored(r).digest = r.digest /\ Stored(r).status = "Queued"
  BY RecordsTyped DEF Stored, Record
<1>2. idem[r.key] = None /\ jobs[r.job] = None
  BY NewIsNew
<1>3. Typed'
  BY <1>1 DEF Typed
<1>4. Filed'
  BY <1>1, <1>2 DEF Filed, Typed, Terminal
<1>5. Resolved'
  <2>1. ASSUME up, NEW k \in Keys, k # r.key, idem[k] # None
        PROVE  jobs'[idem[k].job] # None /\ jobs'[idem[k].job].digest = idem[k].digest
    <3>1. jobs[idem[k].job] # None /\ jobs[idem[k].job].digest = idem[k].digest
      BY <2>1 DEF Resolved
    <3>2. idem[k].job # r.job
      BY <1>2, <3>1
    <3> QED
      BY <1>1, <3>1, <3>2 DEF Typed
  <2>2. up => \A k \in Keys : idem'[k] # None =>
          jobs'[idem'[k].job] # None /\ jobs'[idem'[k].job].digest = idem'[k].digest
    BY <1>1, <2>1 DEF Typed
  <2> QED
    BY <2>2 DEF Resolved
<1>6. Keyed'
  <2>1. ASSUME ~faulty, NEW j \in Jobs, j # r.job, jobs[j] # None
        PROVE  idem'[jobs[j].key] # None /\ idem'[jobs[j].key].job = j
    <3>1. idem[jobs[j].key] # None /\ idem[jobs[j].key].job = j
      BY <2>1 DEF Keyed
    <3>2. jobs[j].key # r.key
      BY <1>2, <3>1
    <3>3. jobs[j].key \in Keys
      BY <2>1 DEF Typed, StoredReview
    <3> QED
      BY <1>1, <3>1, <3>2, <3>3 DEF Typed
  <2>2. faulty \/ \A j \in Jobs : jobs'[j] # None =>
          idem'[jobs'[j].key] # None /\ idem'[jobs'[j].key].job = j
    BY <1>1, <2>1 DEF Typed
  <2>3. faulty \/ jobFile' = jobs'
    BY DEF Keyed
  <2> QED
    BY <2>2, <2>3 DEF Keyed
<1> QED
  BY <1>1, <1>2, <1>3, <1>4, <1>5, <1>6 DEF Typed

LEMMA EnqueueFailsStore ==
  ASSUME StoreInv, NEW r \in Requests, Known(r) = "new",
         NEW wrote \in {"none", "job", "both"},
         jobFile' = IF wrote = "none" THEN jobFile ELSE [jobFile EXCEPT ![r.job] = Stored(r)],
         idemFile' = IF wrote = "both" THEN [idemFile EXCEPT ![r.key] = Record(r)] ELSE idemFile,
         Fault(wrote = "both"), UNCHANGED <<jobs, idem, up>>
  PROVE  StoreInv'
<1> USE ReviewAssumption DEF StoreInv, Fault
<1>1. /\ r.job \in Jobs /\ r.key \in Keys
      /\ Stored(r) \in StoredReview /\ Stored(r) # None
      /\ Record(r) \in IdempotencyRecord /\ Record(r) # None
  BY RecordsTyped
<1>2. jobs[r.job] = None
  BY NewIsNew
<1>3. Typed'
  BY <1>1 DEF Typed
<1>4. Filed'
  BY <1>1, <1>2 DEF Filed, Typed
<1>5. Resolved'
  BY DEF Resolved, Typed
<1>6. Keyed'
  BY DEF Keyed, Typed
<1> QED
  BY <1>3, <1>4, <1>5, <1>6

\* A receipt that may change: the job is of the index and not over.
LEMMA UpdateStore ==
  ASSUME StoreInv, NEW j \in Jobs, jobs[j] # None, NEW s \in Terminal \cup {"Running"},
         Update(j, s), UNCHANGED up
  PROVE  /\ StoreInv' /\ jobs[j].status \notin Terminal
         /\ jobs'[j] # None /\ jobs'[j].status = s
         /\ \A i \in Jobs : i # j => jobs'[i] = jobs[i]
<1> USE ReviewAssumption DEF StoreInv, Update, Allowed, failures
<1> DEFINE new == [jobs[j] EXCEPT !.status = s]
<1>1. jobs[j] \in StoredReview
  BY DEF Typed
<1>2. /\ new \in StoredReview /\ new # None /\ new.status = s
      /\ new.key = jobs[j].key /\ new.digest = jobs[j].digest
  BY <1>1 DEF StoredReview
<1>3. jobs' = [jobs EXCEPT ![j] = new] /\ jobFile' = [jobFile EXCEPT ![j] = new]
  BY DEF Typed
<1> HIDE DEF new
<1>4. Typed'
  BY <1>2, <1>3 DEF Typed
<1>5. Filed'
  BY <1>2, <1>3 DEF Filed, Typed
<1>6. Resolved'
  <2>1. \A k \in Keys : idem[k] # None => idem[k].job \in Jobs
    BY DEF Typed, IdempotencyRecord
  <2>2. \A i \in Jobs : jobs[i] # None => jobs'[i] # None /\ jobs'[i].digest = jobs[i].digest
    BY <1>2, <1>3 DEF Typed
  <2> QED
    BY <2>1, <2>2 DEF Resolved
<1>7. Keyed'
  <2>1. \A i \in Jobs : jobs'[i] # None => jobs[i] # None /\ jobs'[i].key = jobs[i].key
    BY <1>2, <1>3 DEF Typed
  <2>2. faulty \/ jobFile' = jobs'
    BY <1>3 DEF Keyed
  <2> QED
    BY <2>1, <2>2 DEF Keyed
<1> QED
  BY <1>2, <1>3, <1>4, <1>5, <1>6, <1>7 DEF Typed

LEMMA UpdateFailsStore ==
  ASSUME StoreInv, NEW j \in Jobs, jobs[j] # None, NEW s \in Terminal \cup {"Running"},
         UpdateFails(j, s), UNCHANGED up
  PROVE  StoreInv' /\ UNCHANGED jobs /\ faulty' = TRUE /\ incidents' = incidents + 1
<1> USE ReviewAssumption DEF StoreInv, UpdateFails, Allowed, Fault
<1> DEFINE new == [jobs[j] EXCEPT !.status = s]
<1>1. jobs[j] \in StoredReview /\ jobs[j].status \notin Terminal
  BY DEF Typed
<1>2. new \in StoredReview /\ new # None /\ new.digest = jobs[j].digest
  BY <1>1 DEF StoredReview
<1>3. jobFile' \in {jobFile, [jobFile EXCEPT ![j] = new]}
  OBVIOUS
<1>4. /\ incidents' \in 0..MaxIncidents /\ faulty' = TRUE /\ late' \in BOOLEAN /\ (late => late')
      /\ incidents' = incidents + 1 /\ incidents' # 0
  BY DEF Typed
<1> HIDE DEF new
<1>5. Typed'
  BY <1>2, <1>3, <1>4 DEF Typed
<1>6. Filed'
  BY <1>1, <1>2, <1>3 DEF Filed, Typed
<1>7. Resolved' /\ Keyed'
  BY <1>4 DEF Resolved, Keyed
<1> QED
  BY <1>4, <1>5, <1>6, <1>7

LEMMA RestartStore ==
  ASSUME StoreInv, Restart
  PROVE  /\ StoreInv' /\ incidents' # 0 /\ faulty' = faulty
         /\ jobs' = jobFile /\ (faulty \/ jobs' = jobs)
<1> USE ReviewAssumption DEF StoreInv, Restart
<1>1. /\ incidents' \in 0..MaxIncidents /\ incidents' # 0 /\ jobs' = jobFile
      /\ (faulty \/ jobs' = jobs)
  BY DEF Typed, Keyed
<1>2. Opens \in BOOLEAN
  BY DEF Opens
<1>3. Typed'
  BY <1>1, <1>2 DEF Typed
<1>4. Filed'
  BY DEF Filed
<1>5. Resolved'
  <2>1. late \/ Opens
    <3>1. ASSUME ~late, NEW k \in Keys, idemFile[k] # None
          PROVE  /\ jobFile[idemFile[k].job] # None
                 /\ jobFile[idemFile[k].job].digest = idemFile[k].digest
      <4>1. idem[k] = idemFile[k] /\ idem[k].job \in Jobs
        BY <3>1 DEF Resolved, Typed, IdempotencyRecord
      <4>2. jobs[idem[k].job] # None /\ jobs[idem[k].job].digest = idem[k].digest
        BY <3>1, <4>1 DEF Resolved
      <4> QED
        BY <4>1, <4>2 DEF Filed
    <3> QED
      BY <3>1 DEF Opens
  <2> QED
    BY <2>1 DEF Resolved, Opens
<1>6. Keyed'
  <2>1. faulty \/ idemFile = idem
    BY DEF Resolved, Keyed
  <2> QED
    BY <1>1, <2>1 DEF Keyed
<1> QED
  BY <1>1, <1>3, <1>4, <1>5, <1>6

-----------------------------------------------------------------------------
(* The actors *)

LEMMA ActorsTyped ==
  /\ Idle \in ClientType /\ NoTask \in TaskType
  /\ \A j \in Jobs, l \in Places : To(l, j) \in ClientType
<1>1. "idle" \in Places /\ "none" \in TaskPlaces
  BY DEF Places, TaskPlaces
<1> QED
  BY <1>1 DEF Idle, NoTask, To, ClientType, TaskType

\* Nobody takes a permit.
LEMMA PermitsKept ==
  ASSUME ReviewInv, \A j \in Jobs : task'[j].permit => task[j].permit
  PROVE  Permitted'
<1>1. Holders' \subseteq Holders
  BY DEF Holders
<1>2. IsFiniteSet(Holders') /\ Cardinality(Holders') <= Cardinality(Holders)
  BY <1>1, FS_Subset DEF ReviewInv, Permitted
<1>3. Cardinality(Holders) \in Nat /\ Cardinality(Holders') \in Nat
  BY <1>2, FS_CardinalityType DEF ReviewInv, Permitted
<1> QED
  BY <1>2, <1>3, ReviewAssumption DEF ReviewInv, Permitted

\* The fields of the actors, for the steps that only compare them.
LEMMA Fields ==
  ASSUME Actors
  PROVE  /\ \A c \in Clients : /\ client[c] \in ClientType /\ client[c].woken \in BOOLEAN
                               /\ client[c].at \in Places
         /\ \A j \in Jobs : task[j] \in TaskType /\ task[j].permit \in BOOLEAN
<1>1. \A c \in Clients : client[c] \in ClientType
  BY DEF Actors
<1>2. \A j \in Jobs : task[j] \in TaskType
  BY DEF Actors
<1> QED
  BY <1>1, <1>2 DEF ClientType, TaskType

\* One client goes elsewhere and no receipt changes.
LEMMA ClientMoves ==
  ASSUME ReviewInv, StoreInv', NEW c \in Clients, NEW new \in ClientType,
         client' = [client EXCEPT ![c] = new], UNCHANGED <<jobs, task, up>>,
         \/ UNCHANGED <<faulty, incidents>> /\ client[c].at \notin {"schedule", "notify"}
         \/ faulty' = TRUE /\ incidents' # 0,
         new.at \in {"count", "enqueue"} => new.req \in Requests,
         new.at \in {"schedule", "write", "notify", "recheck", "sleep"} =>
           new.job \in Jobs /\ jobs[new.job] # None,
         new.at = "sleep" => jobs[new.job].status \notin Terminal
  PROVE  ReviewInv'
<1>1. /\ StoreInv /\ Actors /\ Placed /\ Running /\ Tended /\ NoLostWakeup
  BY DEF ReviewInv
<1>2. Actors'
  BY <1>1 DEF Actors
<1>3. Permitted'
  BY <1>1, PermitsKept
<1>4. /\ client'[c] = new
      /\ \A d \in Clients : d # c => client'[d] = client[d]
  BY <1>1 DEF Actors
<1>5. Placed'
  BY <1>1, <1>4 DEF Placed
<1>6. Running'
  BY <1>1 DEF Running
<1>7. Tended'
  BY <1>1, <1>4 DEF Tended, NonTerminal
<1>8. NoLostWakeup'
  BY <1>1, <1>4 DEF NoLostWakeup, At
<1> QED
  BY <1>2, <1>3, <1>5, <1>6, <1>7, <1>8 DEF ReviewInv

\* One task goes elsewhere and no receipt changes.
LEMMA TaskMoves ==
  ASSUME ReviewInv, StoreInv', Permitted', NEW j \in Jobs, NEW new \in TaskType,
         task' = [task EXCEPT ![j] = new], UNCHANGED <<jobs, client, up>>,
         \/ UNCHANGED <<faulty, incidents>> /\ task[j].at # "notify"
         \/ faulty' = TRUE /\ incidents' # 0,
         new.at # "none" => jobs[j] # None,
         new.at = "settle" => new.status \in Terminal,
         new.permit => new.at \in {"running", "infer", "settle", "notify", "end"},
         new.at = "running" => new.permit,
         new.at \in {"none", "notify", "end"} => faulty' \/ jobs[j].status \in Terminal,
         incidents' = 0 /\ jobs[j].status = "Running" => new.at \in {"infer", "settle"}
  PROVE  ReviewInv'
<1>1. /\ StoreInv /\ Actors /\ Placed /\ Running /\ Tended /\ NoLostWakeup
  BY DEF ReviewInv
<1>2. Actors'
  BY <1>1 DEF Actors
<1>3. /\ task'[j] = new
      /\ \A i \in Jobs : i # j => task'[i] = task[i]
  BY <1>1 DEF Actors
<1>4. Placed'
  BY <1>1, <1>3 DEF Placed
<1>5. Running'
  BY <1>1, <1>3 DEF Running
<1>6. Tended'
  BY <1>1, <1>3 DEF Tended, NonTerminal
<1>7. NoLostWakeup'
  BY <1>1, <1>3 DEF NoLostWakeup, At
<1> QED
  BY <1>2, <1>4, <1>5, <1>6, <1>7 DEF ReviewInv

\* The job that a client at one of these places works for.
LEMMA ClientJob ==
  ASSUME ReviewInv, NEW c \in Clients,
         client[c].at \in {"schedule", "write", "notify", "recheck", "sleep"}
  PROVE  client[c].job \in Jobs /\ jobs[client[c].job] # None
  BY DEF ReviewInv, Placed

\* A job that is not over is one of the index.
LEMMA LiveJob ==
  \A j \in NonTerminal : j \in Jobs /\ jobs[j] # None /\ jobs[j].status \notin Terminal
  BY DEF NonTerminal

\* The key is looked up.
LEMMA SubmitFindKeeps ==
  ASSUME ReviewInv, NEW c \in Clients, NEW r \in Requests, SubmitFind(c, r)
  PROVE  ReviewInv'
<1> USE DEF SubmitFind, At, failures
<1>1. StoreInv' /\ UNCHANGED jobs /\ client[c] \in ClientType /\ client \in [Clients -> ClientType]
  BY StoreUntouched DEF ReviewInv, Actors, store
<1>2. CASE idem[r.key] = None
  <2> DEFINE new == [client[c] EXCEPT !.at = "count", !.req = r]
  <2>1. client' = [client EXCEPT ![c] = new]
    BY <1>1, <1>2
  <2>2. new \in ClientType /\ new.at = "count" /\ new.req = r
    BY <1>1 DEF ClientType, Places
  <2> HIDE DEF new
  <2> QED
    BY <1>1, <2>1, <2>2, ClientMoves
<1>3. CASE idem[r.key] # None
  <2> DEFINE new == To("schedule", idem[r.key].job)
  <2>1. client' = [client EXCEPT ![c] = new] /\ idem[r.key].job \in NonTerminal
    BY <1>3
  <2>2. new \in ClientType /\ new.at = "schedule" /\ new.job = idem[r.key].job
    BY <2>1, LiveJob, ActorsTyped DEF To, Idle, Places
  <2> HIDE DEF new
  <2> QED
    BY <1>1, <2>1, <2>2, LiveJob, ClientMoves
<1> QED
  BY <1>2, <1>3

\* The capacity is looked at.
LEMMA SubmitCountKeeps ==
  ASSUME ReviewInv, NEW c \in Clients, SubmitCount(c)
  PROVE  ReviewInv'
<1> USE DEF SubmitCount, At, failures
<1>1. StoreInv' /\ UNCHANGED jobs /\ client[c] \in ClientType /\ client \in [Clients -> ClientType]
  BY StoreUntouched DEF ReviewInv, Actors, store
<1> DEFINE new == client'[c]
<1>2. client' = [client EXCEPT ![c] = new] /\ new \in {Idle, [client[c] EXCEPT !.at = "enqueue"]}
  BY <1>1
<1>3. /\ new \in ClientType /\ new.at \in {"idle", "enqueue"}
      /\ new.at = "enqueue" => new.req = client[c].req
  BY <1>1, <1>2, ActorsTyped DEF ClientType, Places, Idle
<1>4. client[c].req \in Requests
  BY DEF ReviewInv, Placed
<1> HIDE DEF new
<1> QED
  BY <1>1, <1>2, <1>3, <1>4, ClientMoves

\* A write of enqueue fails.
LEMMA EnqueueFailsKeeps ==
  ASSUME ReviewInv, NEW c \in Clients, EnqueueFails(c)
  PROVE  ReviewInv'
<1> USE DEF EnqueueFails, At
<1>1. client[c].req \in Requests
  BY DEF ReviewInv, Placed
<1>2. StoreInv'
  BY <1>1, EnqueueFailsStore DEF ReviewInv
<1>3. faulty' = TRUE /\ incidents' # 0
  BY ReviewAssumption DEF Fault, ReviewInv, StoreInv, Typed
<1> QED
  BY <1>2, <1>3, ActorsTyped, ClientMoves DEF Idle

\* The job is stored.
LEMMA EnqueueStores ==
  ASSUME ReviewInv, NEW c \in Clients, client[c].at = "enqueue", Known(client[c].req) = "new",
         EnqueueNew(client[c].req),
         client' = [client EXCEPT ![c] = To("schedule", client[c].req.job)],
         UNCHANGED <<up, task, failures>>
  PROVE  ReviewInv'
<1> DEFINE r == client[c].req
           new == To("schedule", r.job)
<1>1. StoreInv /\ Actors /\ Placed /\ Running /\ Tended /\ NoLostWakeup
  BY DEF ReviewInv
<1>2. r \in Requests /\ r.job \in Jobs
  BY <1>1, RecordsTyped DEF Placed
<1>3. /\ StoreInv' /\ jobs[r.job] = None
      /\ jobs' = [jobs EXCEPT ![r.job] = Stored(r)]
      /\ jobs'[r.job] # None /\ jobs'[r.job].status = "Queued"
  BY <1>1, <1>2, EnqueueNewStore
<1>4. \A i \in Jobs : i # r.job => jobs'[i] = jobs[i]
  BY <1>1, <1>3 DEF StoreInv, Typed
<1>5. new \in ClientType /\ new.at = "schedule" /\ new.job = r.job
  BY <1>2, ActorsTyped DEF To, Idle, Places
<1> HIDE DEF r, new
<1>6. /\ client' = [client EXCEPT ![c] = new] /\ client'[c] = new
      /\ \A d \in Clients : d # c => client'[d] = client[d]
  BY <1>1 DEF Actors, r, new
<1>7. UNCHANGED <<up, task, faulty, incidents>>
  BY DEF failures
<1>8. Actors'
  BY <1>1, <1>5, <1>6, <1>7 DEF Actors
<1>9. Permitted'
  BY <1>7, PermitsKept
<1>10. Placed'
  <2>1. \A i \in Jobs : jobs[i] # None => jobs'[i] = jobs[i]
    BY <1>3, <1>4
  <2>2. \A d \in Clients :
          /\ client'[d].at \in {"count", "enqueue"} => client'[d].req \in Requests
          /\ client'[d].at \in {"schedule", "write", "notify", "recheck", "sleep"} =>
               client'[d].job \in Jobs /\ jobs'[client'[d].job] # None
    BY <1>1, <1>2, <1>3, <1>5, <1>6, <2>1 DEF Placed
  <2> QED
    BY <1>1, <1>7, <2>1, <2>2 DEF Placed
<1>11. Running'
  BY <1>1, <1>3, <1>4, <1>7 DEF Running
<1>12. Tended'
  BY <1>1, <1>3, <1>4, <1>5, <1>6, <1>7 DEF Tended, NonTerminal
<1>13. NoLostWakeup'
  <2>1. \A d \in Clients : client'[d].at = "sleep" =>
          d # c /\ client[d].at = "sleep" /\ jobs'[client[d].job] = jobs[client[d].job]
    BY <1>1, <1>3, <1>4, <1>5, <1>6 DEF Placed
  <2> QED
    BY <1>1, <1>5, <1>6, <1>7, <2>1 DEF NoLostWakeup, At
<1> QED
  BY <1>3, <1>8, <1>9, <1>10, <1>11, <1>12, <1>13 DEF ReviewInv

\* The job is stored, or the index answers.
LEMMA EnqueueKeeps ==
  ASSUME ReviewInv, NEW c \in Clients, Enqueue(c)
  PROVE  ReviewInv'
<1> USE DEF Enqueue, At
<1> DEFINE known == Known(client[c].req)
<1>1. CASE known = "new"
  BY <1>1, EnqueueStores
<1>2. CASE known # "new"
  <2>1. /\ UNCHANGED <<store, up, task, failures>>
        /\ client' = [client EXCEPT ![c] =
                        IF known \in NonTerminal THEN To("schedule", known) ELSE Idle]
    BY <1>2
  <2>2. StoreInv' /\ UNCHANGED <<jobs, faulty, incidents>>
    BY <2>1, StoreUntouched DEF ReviewInv, store, failures
  <2> HIDE DEF known
  <2>3. CASE known \in NonTerminal
    <3> DEFINE new == To("schedule", known)
    <3>1. new \in ClientType /\ new.at = "schedule" /\ new.job = known
      BY <2>3, LiveJob, ActorsTyped DEF To, Idle, Places
    <3>2. client' = [client EXCEPT ![c] = new]
      BY <2>1, <2>3
    <3> HIDE DEF new
    <3> QED
      BY <2>1, <2>2, <2>3, <3>1, <3>2, LiveJob, ClientMoves
  <2>4. CASE known \notin NonTerminal
    BY <2>1, <2>2, <2>4, ActorsTyped, ClientMoves DEF Idle
  <2> QED
    BY <2>3, <2>4
<1> QED
  BY <1>1, <1>2

\* The job gets a task unless it has one.
LEMMA ScheduleKeeps ==
  ASSUME ReviewInv, NEW c \in Clients, Schedule(c)
  PROVE  ReviewInv'
<1> DEFINE j == client[c].job
           new == IF task[j].at = "none" THEN [NoTask EXCEPT !.at = "start"] ELSE task[j]
<1>1. StoreInv /\ Actors /\ Placed /\ Running /\ Tended /\ NoLostWakeup
  BY DEF ReviewInv
<1>2. j \in Jobs /\ jobs[j] # None /\ client[c].at = "schedule"
  BY ClientJob DEF Schedule, At
<1>3. StoreInv' /\ UNCHANGED <<jobs, up, faulty, incidents>>
  BY <1>1, StoreUntouched DEF Schedule, store, failures
<1>4. task[j] \in TaskType /\ [NoTask EXCEPT !.at = "start"] \in TaskType
  BY <1>1, <1>2 DEF Actors, NoTask, TaskType, TaskPlaces
<1>5. /\ new \in TaskType /\ new.at # "none"
      /\ task[j].at # "none" => new = task[j]
      /\ task[j].at = "none" => new.at = "start" /\ ~new.permit
  BY <1>4 DEF NoTask
<1>6. task' = [task EXCEPT ![j] = new] /\ client' = [client EXCEPT ![c] = Idle]
  BY DEF Schedule
<1> HIDE DEF j, new
<1>7. /\ task'[j] = new /\ client'[c] = Idle
      /\ \A i \in Jobs : i # j => task'[i] = task[i]
      /\ \A d \in Clients : d # c => client'[d] = client[d]
  BY <1>1, <1>2, <1>6 DEF Actors
<1>8. Actors'
  BY <1>1, <1>5, <1>6, ActorsTyped DEF Actors
<1>9. Permitted'
  BY <1>5, <1>7, PermitsKept
<1>10. Placed'
  <2>1. \A d \in Clients :
          /\ client'[d].at \in {"count", "enqueue"} => client'[d].req \in Requests
          /\ client'[d].at \in {"schedule", "write", "notify", "recheck", "sleep"} =>
               client'[d].job \in Jobs /\ jobs'[client'[d].job] # None
    BY <1>1, <1>3, <1>7 DEF Placed, Idle
  <2> QED
    BY <1>1, <1>2, <1>3, <1>5, <1>7, <2>1 DEF Placed
<1>11. Running'
  BY <1>1, <1>3, <1>5, <1>7 DEF Running
<1>12. Tended'
  <2>1. ~faulty /\ j \in NonTerminal => task'[j].at \notin {"none", "end", "notify"}
    BY <1>1, <1>2, <1>5, <1>7 DEF Placed, NonTerminal
  <2>2. \A i \in Jobs : i # j =>
          (task'[i] = task[i] /\
           ((\E d \in Clients : client[d].at = "schedule" /\ client[d].job = i) =>
              \E d \in Clients : client'[d].at = "schedule" /\ client'[d].job = i))
    BY <1>2, <1>7 DEF j
  <2> QED
    BY <1>1, <1>3, <2>1, <2>2 DEF Tended, NonTerminal
<1>13. NoLostWakeup'
  <2>1. \A d \in Clients : client'[d].at = "sleep" =>
          client[d].at = "sleep" /\ client'[d] = client[d]
    BY <1>7 DEF Idle
  <2>2. \A d \in Clients : client[d].at = "notify" => client'[d] = client[d]
    BY <1>2, <1>7
  <2>3. \A i \in Jobs : task[i].at = "notify" => task'[i].at = "notify"
    BY <1>5, <1>7
  <2> QED
    BY <1>1, <1>3, <2>1, <2>2, <2>3, ClientJob DEF NoLostWakeup, At
<1> QED
  BY <1>3, <1>8, <1>9, <1>10, <1>11, <1>12, <1>13 DEF ReviewInv

\* The token of the job's task is cancelled.
LEMMA CancelTokenKeeps ==
  ASSUME ReviewInv, NEW c \in Clients, NEW j \in Jobs, CancelToken(c, j)
  PROVE  ReviewInv'
<1> DEFINE new == To("write", j)
<1>1. StoreInv /\ Actors /\ Placed /\ Running /\ Tended /\ NoLostWakeup
  BY DEF ReviewInv
<1>2. StoreInv' /\ UNCHANGED <<jobs, up, faulty, incidents>>
  BY <1>1, StoreUntouched DEF CancelToken, store, failures
<1>3. \A i \in Jobs : /\ task'[i] \in TaskType
                      /\ task'[i].at = task[i].at /\ task'[i].permit = task[i].permit
                      /\ task'[i].status = task[i].status
  BY <1>1 DEF Actors, TaskType, CancelToken
<1>4. new \in ClientType /\ new.at = "write" /\ new.job = j
  BY ActorsTyped DEF To, Idle, Places
<1> HIDE DEF new
<1>5. /\ client' = [client EXCEPT ![c] = new] /\ client'[c] = new
      /\ client[c].at = "idle" /\ jobs[j] # None
      /\ \A d \in Clients : d # c => client'[d] = client[d]
  BY <1>1 DEF Actors, CancelToken, At, new
<1>6. Actors'
  BY <1>1, <1>3, <1>4, <1>5 DEF Actors, CancelToken
<1>7. Permitted'
  BY <1>3, PermitsKept
<1>8. Placed'
  <2>1. \A d \in Clients :
          /\ client'[d].at \in {"count", "enqueue"} => client'[d].req \in Requests
          /\ client'[d].at \in {"schedule", "write", "notify", "recheck", "sleep"} =>
               client'[d].job \in Jobs /\ jobs'[client'[d].job] # None
    BY <1>1, <1>2, <1>4, <1>5 DEF Placed
  <2> QED
    BY <1>1, <1>2, <1>3, <2>1 DEF Placed
<1>9. Running'
  BY <1>1, <1>2, <1>3 DEF Running
<1>10. Tended'
  BY <1>1, <1>2, <1>3, <1>5 DEF Tended, NonTerminal
<1>11. NoLostWakeup'
  <2>1. \A d \in Clients : client'[d].at = "sleep" =>
          client[d].at = "sleep" /\ client'[d] = client[d]
    BY <1>4, <1>5
  <2>2. \A d \in Clients : client[d].at = "notify" => client'[d] = client[d]
    BY <1>5
  <2> QED
    BY <1>1, <1>2, <1>3, <2>1, <2>2, ClientJob DEF NoLostWakeup, At
<1> QED
  BY <1>2, <1>6, <1>7, <1>8, <1>9, <1>10, <1>11 DEF ReviewInv

\* A terminal receipt is written by a cancellation.
LEMMA CancelWrites ==
  ASSUME ReviewInv, NEW c \in Clients, client[c].at = "write", Update(client[c].job, "Cancelled"),
         client' = [client EXCEPT ![c] = To("notify", client[c].job)], UNCHANGED <<up, task>>
  PROVE  ReviewInv'
<1> DEFINE j == client[c].job
           new == To("notify", j)
<1>1. StoreInv /\ Actors /\ Placed /\ Running /\ Tended /\ NoLostWakeup
  BY DEF ReviewInv
<1>2. j \in Jobs /\ jobs[j] # None
  BY ClientJob
<1>3. /\ StoreInv' /\ jobs[j].status \notin Terminal
      /\ jobs'[j] # None /\ jobs'[j].status = "Cancelled"
      /\ \A i \in Jobs : i # j => jobs'[i] = jobs[i]
  BY <1>1, <1>2, UpdateStore DEF Terminal
<1>4. UNCHANGED <<faulty, incidents>>
  BY DEF Update, failures
<1>5. new \in ClientType /\ new.at = "notify" /\ new.job = j
  BY <1>2, ActorsTyped DEF To, Idle, Places
<1> HIDE DEF j, new
<1>6. /\ client' = [client EXCEPT ![c] = new] /\ client'[c] = new
      /\ \A d \in Clients : d # c => client'[d] = client[d]
  BY <1>1 DEF Actors, j, new
<1>7. Actors'
  BY <1>1, <1>5, <1>6 DEF Actors
<1>8. Permitted'
  BY PermitsKept
<1>9. Placed'
  <2>1. \A d \in Clients :
          /\ client'[d].at \in {"count", "enqueue"} => client'[d].req \in Requests
          /\ client'[d].at \in {"schedule", "write", "notify", "recheck", "sleep"} =>
               client'[d].job \in Jobs /\ jobs'[client'[d].job] # None
    BY <1>1, <1>2, <1>3, <1>5, <1>6 DEF Placed
  <2> QED
    BY <1>1, <1>3, <1>4, <2>1 DEF Placed, Terminal
<1>10. Running'
  BY <1>1, <1>3, <1>4 DEF Running
<1>11. Tended'
  BY <1>1, <1>3, <1>4, <1>6 DEF Tended, NonTerminal, Terminal
<1>12. NoLostWakeup'
  <2>1. \A d \in Clients : client'[d].at = "sleep" =>
          /\ client[d].at = "sleep" /\ client'[d] = client[d]
          /\ client[d].job = j \/ jobs'[client[d].job] = jobs[client[d].job]
    BY <1>1, <1>3, <1>5, <1>6 DEF Placed
  <2>2. \A d \in Clients : client[d].at = "notify" => client'[d] = client[d]
    BY <1>6
  <2> QED
    BY <1>1, <1>4, <1>5, <1>6, <2>1, <2>2 DEF NoLostWakeup, At
<1> QED
  BY <1>3, <1>7, <1>8, <1>9, <1>10, <1>11, <1>12 DEF ReviewInv

\* The cancellation is written, refused or fails.
LEMMA CancelWriteKeeps ==
  ASSUME ReviewInv, NEW c \in Clients, CancelWrite(c)
  PROVE  ReviewInv'
<1> USE DEF CancelWrite, At
<1> DEFINE j == client[c].job
<1>1. j \in Jobs /\ jobs[j] # None
  BY ClientJob
<1>2. CASE Update(j, "Cancelled") /\ client' = [client EXCEPT ![c] = To("notify", j)]
  BY <1>2, CancelWrites
<1>3. CASE Repeated(j, "Cancelled") /\ client' = [client EXCEPT ![c] = To("notify", j)]
  <2>1. StoreInv' /\ UNCHANGED <<jobs, faulty, incidents>>
    BY <1>3, StoreUntouched DEF ReviewInv, Repeated, store, failures
  <2>2. To("notify", j) \in ClientType /\ To("notify", j).at = "notify" /\ To("notify", j).job = j
    BY <1>1, ActorsTyped DEF To, Idle, Places
  <2> QED
    BY <1>1, <1>3, <2>1, <2>2, ClientMoves
<1>4. CASE Refused(j, "Cancelled") /\ client' = [client EXCEPT ![c] = Idle]
  <2>1. StoreInv' /\ UNCHANGED <<jobs, faulty, incidents>>
    BY <1>4, StoreUntouched DEF ReviewInv, Refused, store, failures
  <2> QED
    BY <1>4, <2>1, ActorsTyped, ClientMoves DEF Idle
<1>5. CASE UpdateFails(j, "Cancelled") /\ client' = [client EXCEPT ![c] = Idle]
  <2>1. StoreInv' /\ UNCHANGED jobs /\ faulty' = TRUE /\ incidents' = incidents + 1
    BY <1>1, <1>5, UpdateFailsStore DEF ReviewInv, Terminal
  <2>2. incidents' # 0
    BY <2>1 DEF ReviewInv, StoreInv, Typed
  <2> QED
    BY <1>5, <2>1, <2>2, ActorsTyped, ClientMoves DEF Idle
<1> QED
  BY <1>2, <1>3, <1>4, <1>5

\* What notify_waiters does to a client.
LEMMA Notified ==
  ASSUME NEW cs \in [Clients -> ClientType], NEW j \in Jobs
  PROVE  /\ Notify(cs, j) \in [Clients -> ClientType]
         /\ \A d \in Clients : /\ Notify(cs, j)[d].at = cs[d].at
                               /\ Notify(cs, j)[d].job = cs[d].job
                               /\ Notify(cs, j)[d].req = cs[d].req
                               /\ cs[d].woken => Notify(cs, j)[d].woken
                               /\ cs[d].at = "sleep" /\ cs[d].job = j => Notify(cs, j)[d].woken
<1>1. \A d \in Clients : /\ cs[d] \in ClientType
                         /\ [cs[d] EXCEPT !.woken = TRUE] \in ClientType
  BY DEF ClientType
<1>2. \A d \in Clients :
        Notify(cs, j)[d] = IF cs[d].at \in {"recheck", "sleep"} /\ cs[d].job = j
                             THEN [cs[d] EXCEPT !.woken = TRUE] ELSE cs[d]
  BY DEF Notify
<1>3. Notify(cs, j) \in [Clients -> ClientType]
  BY <1>1 DEF Notify
<1> QED
  BY <1>1, <1>2, <1>3 DEF ClientType

\* The waits of the job are woken.
LEMMA CancelNotifyKeeps ==
  ASSUME ReviewInv, NEW c \in Clients, CancelNotify(c)
  PROVE  ReviewInv'
<1> DEFINE j == client[c].job
           cs == [client EXCEPT ![c] = Idle]
<1>1. StoreInv /\ Actors /\ Placed /\ Running /\ Tended /\ NoLostWakeup
  BY DEF ReviewInv
<1>2. j \in Jobs /\ client[c].at = "notify"
  BY ClientJob DEF CancelNotify, At
<1>3. StoreInv' /\ UNCHANGED <<jobs, up, task, faulty, incidents>>
  BY <1>1, StoreUntouched DEF CancelNotify, store, failures
<1>4. /\ cs \in [Clients -> ClientType] /\ cs[c] = Idle
      /\ \A d \in Clients : d # c => cs[d] = client[d]
  BY <1>1, ActorsTyped DEF Actors
<1>5. client' = Notify(cs, j)
  BY DEF CancelNotify
<1> HIDE DEF j, cs
<1>6. /\ client' \in [Clients -> ClientType] /\ client'[c].at = "idle"
      /\ \A d \in Clients : d # c =>
           /\ client'[d].at = client[d].at /\ client'[d].job = client[d].job
           /\ client'[d].req = client[d].req /\ (client[d].woken => client'[d].woken)
           /\ client[d].at = "sleep" /\ client[d].job = j => client'[d].woken
  BY <1>2, <1>4, <1>5, Notified DEF Idle
<1>7. Actors'
  BY <1>1, <1>3, <1>6 DEF Actors
<1>8. Permitted'
  BY <1>3, PermitsKept
<1>9. Placed'
  BY <1>1, <1>3, <1>6 DEF Placed
<1>10. Running'
  BY <1>1, <1>3 DEF Running
<1>11. Tended'
  BY <1>1, <1>2, <1>3, <1>6 DEF Tended, NonTerminal
<1>12. NoLostWakeup'
  <2>1. \A d \in Clients : client'[d].at = "sleep" /\ ~client'[d].woken =>
          /\ client[d].at = "sleep" /\ ~client[d].woken
          /\ client'[d].job = client[d].job /\ client[d].job # j
    BY <1>6
  <2>2. \A d \in Clients : client[d].at = "notify" =>
          client[d].job = j \/ (client'[d].at = "notify" /\ client'[d].job = client[d].job)
    BY <1>6 DEF j
  <2> QED
    BY <1>1, <1>3, <2>1, <2>2 DEF NoLostWakeup, At
<1> QED
  BY <1>3, <1>7, <1>8, <1>9, <1>10, <1>11, <1>12 DEF ReviewInv

\* The receipt is looked at.
LEMMA WaitLookKeeps ==
  ASSUME ReviewInv, NEW c \in Clients, NEW j \in Jobs, WaitLook(c, j)
  PROVE  ReviewInv'
<1> USE DEF WaitLook, At
<1>1. StoreInv' /\ UNCHANGED <<jobs, faulty, incidents>>
  BY StoreUntouched DEF ReviewInv, store, failures
<1> DEFINE new == IF j \in NonTerminal THEN To("recheck", j) ELSE Idle
<1>2. new \in ClientType /\ (new.at = "idle" \/ (new.at = "recheck" /\ new.job = j))
  <2>1. Idle \in ClientType /\ Idle.at = "idle"
    BY ActorsTyped DEF Idle
  <2>2. /\ To("recheck", j) \in ClientType
        /\ To("recheck", j).at = "recheck" /\ To("recheck", j).job = j
    BY ActorsTyped DEF To, Idle, Places
  <2> QED
    BY <2>1, <2>2
<1> HIDE DEF new
<1>3. /\ client' = [client EXCEPT ![c] = new] /\ client[c].at \in {"idle", "sleep"}
      /\ jobs[j] # None /\ UNCHANGED <<task, up>>
  BY DEF new
<1> HIDE DEF WaitLook
<1> QED
  BY <1>1, <1>2, <1>3, ClientMoves

\* The receipt is looked at again.
LEMMA WaitRecheckKeeps ==
  ASSUME ReviewInv, NEW c \in Clients, WaitRecheck(c)
  PROVE  ReviewInv'
<1> USE DEF WaitRecheck, At
<1>1. StoreInv' /\ UNCHANGED <<jobs, faulty, incidents>>
  BY StoreUntouched DEF ReviewInv, store, failures
<1>2. client \in [Clients -> ClientType] /\ client[c] \in ClientType
  BY DEF ReviewInv, Actors
<1> DEFINE new == client'[c]
<1>3. /\ client' = [client EXCEPT ![c] = new]
      /\ \/ new = Idle
         \/ new = [client[c] EXCEPT !.at = "sleep"] /\ client[c].job \in NonTerminal
  BY <1>2
<1>4. /\ new \in ClientType
      /\ \/ new.at = "idle"
         \/ new.at = "sleep" /\ new.job = client[c].job /\ client[c].job \in NonTerminal
  BY <1>2, <1>3, ActorsTyped DEF ClientType, Places, Idle
<1> HIDE DEF new
<1>5. /\ new.at = "sleep" => new.job \in Jobs /\ jobs[new.job] # None
      /\ new.at = "sleep" => jobs[new.job].status \notin Terminal
      /\ UNCHANGED <<task, up>> /\ client[c].at = "recheck"
  BY <1>4, LiveJob
<1> HIDE DEF WaitRecheck
<1> QED
  BY <1>1, <1>3, <1>4, <1>5, ClientMoves

\* A wait ends.
LEMMA WaitTimeoutKeeps ==
  ASSUME ReviewInv, NEW c \in Clients, WaitTimeout(c)
  PROVE  ReviewInv'
<1> USE DEF WaitTimeout, At
<1>1. StoreInv' /\ UNCHANGED <<jobs, faulty, incidents>>
  BY StoreUntouched DEF ReviewInv, store, failures
<1> QED
  BY <1>1, ActorsTyped, ClientMoves DEF Idle

\* A call is dropped.
LEMMA DisconnectKeeps ==
  ASSUME ReviewInv, NEW c \in Clients, Disconnect(c)
  PROVE  ReviewInv'
<1> USE DEF Disconnect, At
<1>1. StoreInv' /\ UNCHANGED jobs
  BY StoreUntouched DEF ReviewInv, store
<1>2. faulty' = TRUE /\ incidents' # 0
  BY ReviewAssumption DEF ReviewInv, StoreInv, Typed
<1> QED
  BY <1>1, <1>2, ActorsTyped, ClientMoves DEF Idle

\* The deadline has passed.
LEMMA ExpireKeeps ==
  ASSUME ReviewInv, NEW j \in Jobs, Expire(j)
  PROVE  ReviewInv'
<1> USE DEF Expire, TaskAt
<1>1. StoreInv' /\ UNCHANGED <<jobs, faulty, incidents>>
  BY StoreUntouched DEF ReviewInv, store, failures
<1> DEFINE new == [at |-> "settle", cancelled |-> FALSE, permit |-> FALSE, status |-> "Ended"]
<1>2. /\ task' = [task EXCEPT ![j] = new] /\ new \in TaskType
      /\ new.at = "settle" /\ ~new.permit /\ new.status \in Terminal
  BY DEF SettleWith, TaskType, TaskPlaces, Terminal
<1> HIDE DEF new
<1>3. task[j].at \in {"start", "infer"} /\ jobs[j] # None
  BY DEF ReviewInv, Placed
<1>4. Permitted'
  BY <1>2, PermitsKept DEF ReviewInv, Actors
<1> QED
  BY <1>1, <1>2, <1>3, <1>4, TaskMoves

\* A task finds its token cancelled.
LEMMA CancelledKeeps ==
  ASSUME ReviewInv, NEW j \in Jobs, Cancelled(j)
  PROVE  ReviewInv'
<1> USE DEF Cancelled, TaskAt
<1>1. StoreInv' /\ UNCHANGED <<jobs, faulty, incidents>>
  BY StoreUntouched DEF ReviewInv, store, failures
<1> DEFINE new == [at |-> "settle", cancelled |-> FALSE, permit |-> FALSE, status |-> "Cancelled"]
<1>2. /\ task' = [task EXCEPT ![j] = new] /\ new \in TaskType
      /\ new.at = "settle" /\ ~new.permit /\ new.status \in Terminal
  BY DEF SettleWith, TaskType, TaskPlaces, Terminal
<1> HIDE DEF new
<1>3. task[j].at \in {"start", "infer"} /\ jobs[j] # None
  BY DEF ReviewInv, Placed
<1>4. Permitted'
  BY <1>2, PermitsKept DEF ReviewInv, Actors
<1> QED
  BY <1>1, <1>2, <1>3, <1>4, TaskMoves

\* The inference is over.
LEMMA InferKeeps ==
  ASSUME ReviewInv, NEW j \in Jobs, Infer(j)
  PROVE  ReviewInv'
<1> USE DEF Infer, TaskAt
<1>1. StoreInv' /\ UNCHANGED <<jobs, faulty, incidents>>
  BY StoreUntouched DEF ReviewInv, store, failures
<1> DEFINE new == [at |-> "settle", cancelled |-> FALSE, permit |-> FALSE, status |-> "Ended"]
<1>2. /\ task' = [task EXCEPT ![j] = new] /\ new \in TaskType
      /\ new.at = "settle" /\ ~new.permit /\ new.status \in Terminal
  BY DEF SettleWith, TaskType, TaskPlaces, Terminal
<1> HIDE DEF new
<1>3. task[j].at \in {"start", "infer"} /\ jobs[j] # None
  BY DEF ReviewInv, Placed
<1>4. Permitted'
  BY <1>2, PermitsKept DEF ReviewInv, Actors
<1> QED
  BY <1>1, <1>2, <1>3, <1>4, TaskMoves

\* A task takes a permit.
LEMMA AcquireKeeps ==
  ASSUME ReviewInv, NEW j \in Jobs, Acquire(j)
  PROVE  ReviewInv'
<1> USE DEF Acquire, TaskAt
<1>1. /\ StoreInv' /\ UNCHANGED <<jobs, faulty, incidents>>
      /\ task \in [Jobs -> TaskType] /\ task[j] \in TaskType
  BY StoreUntouched DEF ReviewInv, store, failures, Actors
<1> DEFINE new == [task[j] EXCEPT !.at = "running", !.permit = TRUE]
<1>2. task' = [task EXCEPT ![j] = new] /\ new \in TaskType /\ new.at = "running" /\ new.permit
  BY <1>1 DEF TaskType, TaskPlaces
<1> HIDE DEF new
<1>3. task[j].at = "start" /\ jobs[j] # None
  BY DEF ReviewInv, Placed
<1>4. Permitted'
  <2>1. Holders' = Holders \cup {j} /\ j \notin Holders
    BY <1>1, <1>2, <1>3 DEF Holders, ReviewInv, Placed
  <2>2. IsFiniteSet(Holders) /\ Permits = Cardinality(Holders) /\ Cardinality(Holders) \in Nat
    BY FS_CardinalityType DEF ReviewInv, Permitted, Permits, Holders
  <2>3. IsFiniteSet(Holders') /\ Cardinality(Holders') = Cardinality(Holders) + 1
    BY <2>1, <2>2, FS_AddElement
  <2> QED
    BY <2>2, <2>3, ReviewAssumption DEF Permitted
<1>5. incidents = 0 => jobs[j].status # "Running"
  BY <1>3 DEF ReviewInv, Running
<1> QED
  BY <1>1, <1>2, <1>3, <1>4, <1>5, TaskMoves

\* Running is written.
LEMMA RunningWrites ==
  ASSUME ReviewInv, NEW j \in Jobs, TaskAt(j, "running"), Update(j, "Running"),
         task' = [task EXCEPT ![j].at = "infer"] \/ SettleWith(j, "Ended", TRUE),
         UNCHANGED <<up, client>>
  PROVE  ReviewInv'
<1>1. StoreInv /\ Actors /\ Placed /\ Running /\ Tended /\ NoLostWakeup
  BY DEF ReviewInv
<1>2. task[j] \in TaskType /\ task[j].at = "running" /\ task[j].permit /\ jobs[j] # None
  BY <1>1 DEF Actors, Placed, TaskAt
<1>3. /\ StoreInv' /\ jobs[j].status \notin Terminal
      /\ jobs'[j] # None /\ jobs'[j].status = "Running"
      /\ \A i \in Jobs : i # j => jobs'[i] = jobs[i]
  BY <1>1, <1>2, UpdateStore
<1>4. UNCHANGED <<faulty, incidents>>
  BY DEF Update, failures
<1>5. PICK new \in TaskType :
        /\ task' = [task EXCEPT ![j] = new]
        /\ new.at = "infer" \/ (new.at = "settle" /\ new.status \in Terminal)
  <2>1. CASE task' = [task EXCEPT ![j].at = "infer"]
    <3> DEFINE new == [task[j] EXCEPT !.at = "infer"]
    <3>1. new \in TaskType /\ new.at = "infer"
      BY <1>2 DEF TaskType, TaskPlaces
    <3>2. task' = [task EXCEPT ![j] = new]
      BY <1>1, <2>1 DEF Actors
    <3> QED
      BY <3>1, <3>2
  <2>2. CASE SettleWith(j, "Ended", TRUE)
    <3> DEFINE new == [at |-> "settle", cancelled |-> FALSE, permit |-> TRUE, status |-> "Ended"]
    <3>1. new \in TaskType /\ new.at = "settle" /\ new.status \in Terminal
      BY DEF TaskType, TaskPlaces, Terminal
    <3> QED
      BY <2>2, <3>1 DEF SettleWith
  <2> QED
    BY <2>1, <2>2
<1>6. /\ task'[j] = new
      /\ \A i \in Jobs : i # j => task'[i] = task[i]
  BY <1>1, <1>5 DEF Actors
<1>7. Actors'
  BY <1>1, <1>5 DEF Actors
<1>8. Permitted'
  BY <1>2, <1>6, PermitsKept
<1>9. Placed'
  <2>1. \A i \in Jobs : jobs[i] # None => jobs'[i] # None
    BY <1>3
  <2>2. \A d \in Clients :
          /\ client'[d].at \in {"count", "enqueue"} => client'[d].req \in Requests
          /\ client'[d].at \in {"schedule", "write", "notify", "recheck", "sleep"} =>
               client'[d].job \in Jobs /\ jobs'[client'[d].job] # None
    BY <1>1, <2>1 DEF Placed
  <2> QED
    BY <1>1, <1>3, <1>4, <1>5, <1>6, <2>2 DEF Placed
<1>10. Running'
  BY <1>1, <1>3, <1>4, <1>5, <1>6 DEF Running
<1>11. Tended'
  BY <1>1, <1>3, <1>4, <1>5, <1>6 DEF Tended, NonTerminal
<1>12. NoLostWakeup'
  <2>1. \A i \in Jobs : /\ task[i].at = "notify" => task'[i] = task[i]
                        /\ jobs'[i].status \in Terminal => jobs'[i] = jobs[i]
    BY <1>2, <1>3, <1>6 DEF Terminal
  <2> QED
    BY <1>1, <1>4, <2>1, ClientJob DEF NoLostWakeup, At
<1> QED
  BY <1>3, <1>7, <1>8, <1>9, <1>10, <1>11, <1>12 DEF ReviewInv

\* Running is written, refused or fails.
LEMMA WriteRunningKeeps ==
  ASSUME ReviewInv, NEW j \in Jobs, WriteRunning(j)
  PROVE  ReviewInv'
<1> USE DEF WriteRunning
<1> DEFINE new == [NoTask EXCEPT !.at = "end"]
<1>1. /\ jobs[j] # None /\ task[j].at = "running" /\ StoreInv /\ Actors
      /\ jobs[j].status \in Terminal \cup {"Queued", "Running"}
  BY DEF ReviewInv, Placed, TaskAt, StoreInv, Typed, StoredReview
<1>2. new \in TaskType /\ new.at = "end" /\ ~new.permit
  BY DEF NoTask, TaskType, TaskPlaces
<1> HIDE DEF new
<1>3. CASE /\ Update(j, "Running")
           /\ (task' = [task EXCEPT ![j].at = "infer"] \/ SettleWith(j, "Ended", TRUE))
  BY <1>3, RunningWrites
<1>4. CASE Refused(j, "Running") /\ task' = [task EXCEPT ![j] = new]
  <2>1. StoreInv' /\ UNCHANGED <<jobs, faulty, incidents>>
    BY <1>1, <1>4, StoreUntouched DEF Refused, store, failures
  <2>2. jobs[j].status \in Terminal
    BY <1>1, <1>4 DEF Refused, Allowed
  <2>3. Permitted'
    BY <1>1, <1>2, <1>4, PermitsKept DEF Actors
  <2> QED
    BY <1>1, <1>2, <1>4, <2>1, <2>2, <2>3, TaskMoves DEF Terminal
<1>5. CASE UpdateFails(j, "Running") /\ task' = [task EXCEPT ![j] = new]
  <2>1. StoreInv' /\ UNCHANGED jobs /\ faulty' = TRUE /\ incidents' = incidents + 1
    BY <1>1, <1>5, UpdateFailsStore
  <2>2. incidents' # 0
    BY <1>1, <2>1 DEF StoreInv, Typed
  <2>3. Permitted'
    BY <1>1, <1>2, <1>5, PermitsKept DEF Actors
  <2> QED
    BY <1>1, <1>2, <1>5, <2>1, <2>2, <2>3, TaskMoves
<1> QED
  BY <1>3, <1>4, <1>5 DEF new

\* The outcome is written.
LEMMA SettleWrites ==
  ASSUME ReviewInv, NEW j \in Jobs, TaskAt(j, "settle"), Update(j, task[j].status), Go(j, "notify"),
         UNCHANGED <<up, client>>
  PROVE  ReviewInv'
<1> DEFINE new == [NoTask EXCEPT !.at = "notify", !.permit = task[j].permit]
<1>1. StoreInv /\ Actors /\ Placed /\ Running /\ Tended /\ NoLostWakeup
  BY DEF ReviewInv
<1>2. /\ task[j] \in TaskType /\ task[j].at = "settle" /\ jobs[j] # None
      /\ task[j].status \in Terminal
  BY <1>1 DEF Actors, Placed, TaskAt
<1>3. /\ StoreInv' /\ jobs[j].status \notin Terminal
      /\ jobs'[j] # None /\ jobs'[j].status \in Terminal
      /\ \A i \in Jobs : i # j => jobs'[i] = jobs[i]
  BY <1>1, <1>2, UpdateStore
<1>4. UNCHANGED <<faulty, incidents>>
  BY DEF Update, failures
<1>5. new \in TaskType /\ new.at = "notify" /\ new.permit = task[j].permit
  BY <1>2 DEF NoTask, TaskType, TaskPlaces
<1> HIDE DEF new
<1>6. /\ task' = [task EXCEPT ![j] = new] /\ task'[j] = new
      /\ \A i \in Jobs : i # j => task'[i] = task[i]
  BY <1>1 DEF Actors, Go, new
<1>7. Actors'
  BY <1>1, <1>5, <1>6 DEF Actors
<1>8. Permitted'
  BY <1>5, <1>6, PermitsKept
<1>9. Placed'
  <2>1. \A i \in Jobs : jobs[i] # None => jobs'[i] # None
    BY <1>3
  <2>2. \A d \in Clients :
          /\ client'[d].at \in {"count", "enqueue"} => client'[d].req \in Requests
          /\ client'[d].at \in {"schedule", "write", "notify", "recheck", "sleep"} =>
               client'[d].job \in Jobs /\ jobs'[client'[d].job] # None
    BY <1>1, <2>1 DEF Placed
  <2> QED
    BY <1>1, <1>3, <1>4, <1>5, <1>6, <2>2 DEF Placed
<1>10. Running'
  BY <1>1, <1>3, <1>4, <1>6 DEF Running, Terminal
<1>11. Tended'
  BY <1>1, <1>3, <1>4, <1>6 DEF Tended, NonTerminal
<1>12. NoLostWakeup'
  <2>1. \A i \in Jobs : /\ task[i].at = "notify" => task'[i].at = "notify"
                        /\ i # j => jobs'[i] = jobs[i]
    BY <1>2, <1>3, <1>6
  <2> QED
    BY <1>1, <1>4, <1>5, <1>6, <2>1, ClientJob DEF NoLostWakeup, At
<1> QED
  BY <1>3, <1>7, <1>8, <1>9, <1>10, <1>11, <1>12 DEF ReviewInv

\* The outcome is written, repeated, refused or fails.
LEMMA SettleKeeps ==
  ASSUME ReviewInv, NEW j \in Jobs, Settle(j)
  PROVE  ReviewInv'
<1> USE DEF Settle
<1> DEFINE s == task[j].status
           to(l) == [NoTask EXCEPT !.at = l, !.permit = task[j].permit]
<1>1. /\ jobs[j] # None /\ task[j].at = "settle" /\ s \in Terminal /\ StoreInv /\ Actors
      /\ task[j] \in TaskType
  BY DEF ReviewInv, Placed, TaskAt, Actors
<1>2. \A l \in {"notify", "end"} :
        to(l) \in TaskType /\ to(l).at = l /\ to(l).permit = task[j].permit
  BY <1>1 DEF NoTask, TaskType, TaskPlaces
<1>3. CASE Update(j, s) /\ Go(j, "notify")
  BY <1>3, SettleWrites
<1>4. ASSUME NEW l \in {"notify", "end"}, Go(j, l)
      PROVE  task' = [task EXCEPT ![j] = to(l)] /\ Permitted'
  <2>1. task' = [task EXCEPT ![j] = to(l)]
    BY <1>4 DEF Go
  <2>2. to(l).permit = task[j].permit
    BY <1>2
  <2> HIDE DEF to
  <2> QED
    BY <1>1, <2>1, <2>2, PermitsKept DEF Actors
<1> HIDE DEF to
<1>5. ASSUME NEW l \in {"notify", "end"}, Go(j, l), Repeated(j, s) \/ Refused(j, s)
      PROVE  ReviewInv'
  <2>1. StoreInv' /\ UNCHANGED <<jobs, faulty, incidents>>
    BY <1>1, <1>5, StoreUntouched DEF Refused, Repeated, store, failures
  <2>2. jobs[j].status \in Terminal
    BY <1>1, <1>5 DEF Refused, Repeated, Allowed
  <2> QED
    BY <1>1, <1>2, <1>4, <1>5, <2>1, <2>2, TaskMoves DEF Terminal
<1>6. CASE UpdateFails(j, s) /\ Go(j, "end")
  <2>1. StoreInv' /\ UNCHANGED jobs /\ faulty' = TRUE /\ incidents' = incidents + 1
    BY <1>1, <1>6, UpdateFailsStore
  <2>2. incidents' # 0
    BY <1>1, <2>1 DEF StoreInv, Typed
  <2> QED
    BY <1>1, <1>2, <1>4, <1>6, <2>1, <2>2, TaskMoves
<1> QED
  BY <1>3, <1>5, <1>6

\* The waits of the job are woken by its task.
LEMMA TaskNotifyKeeps ==
  ASSUME ReviewInv, NEW j \in Jobs, TaskNotify(j)
  PROVE  ReviewInv'
<1> DEFINE new == [NoTask EXCEPT !.at = "end", !.permit = task[j].permit]
<1>1. StoreInv /\ Actors /\ Placed /\ Running /\ Tended /\ NoLostWakeup
  BY DEF ReviewInv
<1>2. StoreInv' /\ UNCHANGED <<jobs, up, faulty, incidents>>
  BY <1>1, StoreUntouched DEF TaskNotify, store, failures
<1>3. task[j] \in TaskType /\ task[j].at = "notify"
  BY <1>1 DEF Actors, TaskNotify, TaskAt
<1>4. new \in TaskType /\ new.at = "end" /\ new.permit = task[j].permit
  BY <1>3 DEF NoTask, TaskType, TaskPlaces
<1> HIDE DEF new
<1>5. /\ task' = [task EXCEPT ![j] = new] /\ task'[j] = new
      /\ \A i \in Jobs : i # j => task'[i] = task[i]
  BY <1>1 DEF Actors, TaskNotify, Go, new
<1>6. /\ client' \in [Clients -> ClientType]
      /\ \A d \in Clients :
           /\ client'[d].at = client[d].at /\ client'[d].job = client[d].job
           /\ client'[d].req = client[d].req /\ (client[d].woken => client'[d].woken)
           /\ client[d].at = "sleep" /\ client[d].job = j => client'[d].woken
  BY <1>1, Notified DEF TaskNotify, Actors
<1>7. Actors'
  BY <1>1, <1>4, <1>5, <1>6 DEF Actors
<1>8. Permitted'
  BY <1>4, <1>5, PermitsKept
<1>9. Placed'
  BY <1>1, <1>2, <1>3, <1>4, <1>5, <1>6 DEF Placed
<1>10. Running'
  BY <1>1, <1>2, <1>3, <1>5 DEF Running
<1>11. Tended'
  BY <1>1, <1>2, <1>3, <1>5, <1>6 DEF Tended, NonTerminal
<1>12. NoLostWakeup'
  <2>1. \A d \in Clients : client'[d].at = "sleep" /\ ~client'[d].woken =>
          /\ client[d].at = "sleep" /\ ~client[d].woken
          /\ client'[d].job = client[d].job /\ client[d].job # j
    BY <1>6
  <2> QED
    BY <1>1, <1>2, <1>5, <1>6, <2>1, ClientJob DEF NoLostWakeup, At
<1> QED
  BY <1>2, <1>7, <1>8, <1>9, <1>10, <1>11, <1>12 DEF ReviewInv

\* The task leaves `active`.
LEMMA TaskEndsKeeps ==
  ASSUME ReviewInv, NEW j \in Jobs, TaskEnds(j)
  PROVE  ReviewInv'
<1> USE DEF TaskEnds, TaskAt
<1>1. StoreInv' /\ UNCHANGED <<jobs, faulty, incidents>>
  BY StoreUntouched DEF ReviewInv, store, failures
<1>2. NoTask \in TaskType /\ NoTask.at = "none" /\ ~NoTask.permit
  BY ActorsTyped DEF NoTask
<1>3. /\ faulty \/ jobs[j].status \in Terminal
      /\ incidents = 0 => jobs[j].status # "Running"
  BY DEF ReviewInv, Placed, Running
<1>4. Permitted'
  BY <1>2, PermitsKept DEF ReviewInv, Actors
<1> QED
  BY <1>1, <1>2, <1>3, <1>4, TaskMoves

\* The daemon starts from the files.
LEMMA RestartKeeps ==
  ASSUME ReviewInv, Restart
  PROVE  ReviewInv'
<1>1. StoreInv /\ Actors /\ Placed /\ Tended
  BY DEF ReviewInv
<1>2. /\ StoreInv' /\ incidents' # 0 /\ faulty' = faulty
      /\ jobs' = jobFile /\ (faulty \/ jobs' = jobs)
  BY <1>1, RestartStore
<1>3. /\ \A c \in Clients : client'[c] = Idle /\ client'[c].at = "idle"
      /\ client' \in [Clients -> ClientType]
  BY ActorsTyped DEF Restart, Idle
<1>4. /\ task' \in [Jobs -> TaskType]
      /\ \A j \in Jobs : /\ task'[j].at \in {"none", "start"} /\ ~task'[j].permit
                         /\ task'[j].at = "start" <=>
                              jobFile[j] # None /\ jobFile[j].status \notin Terminal
  <2>1. NoTask \in TaskType /\ NoTask.at = "none" /\ ~NoTask.permit
    BY ActorsTyped DEF NoTask
  <2>2. /\ [NoTask EXCEPT !.at = "start"] \in TaskType
        /\ [NoTask EXCEPT !.at = "start"].at = "start" /\ ~[NoTask EXCEPT !.at = "start"].permit
    BY DEF NoTask, TaskType, TaskPlaces
  <2> QED
    BY <2>1, <2>2 DEF Restart
<1>5. Permitted'
  BY <1>4, PermitsKept
<1>6. Placed'
  BY <1>2, <1>3, <1>4 DEF Placed
<1>7. Running' /\ NoLostWakeup'
  BY <1>2, <1>3 DEF Running, NoLostWakeup, At
<1>8. Tended'
  BY <1>2, <1>4 DEF Tended, NonTerminal
<1> QED
  BY <1>2, <1>3, <1>4, <1>5, <1>6, <1>7, <1>8 DEF ReviewInv, Actors

-----------------------------------------------------------------------------
(* The theorems *)

LEMMA InitReview == Init => ReviewInv
<1> SUFFICES ASSUME Init PROVE ReviewInv
  OBVIOUS
<1> USE DEF Init
<1>1. StoreInv
  <2>1. Typed
    <3>1. incidents \in 0..MaxIncidents
      BY ReviewAssumption
    <3> QED
      BY <3>1 DEF Typed
  <2>2. \A j \in Jobs : jobs[j] = None
    OBVIOUS
  <2>3. \A k \in Keys : idem[k] = None
    OBVIOUS
  <2>4. Filed /\ Resolved /\ Keyed
    BY <2>2, <2>3 DEF Filed, Resolved, Keyed
  <2> QED
    BY <2>1, <2>4 DEF StoreInv
<1>2. Actors
  BY ActorsTyped DEF Actors
<1>3. Permitted
  <2>1. Holders = {}
    BY DEF Holders, NoTask
  <2> QED
    BY <2>1, FS_EmptySet, ReviewAssumption DEF Permitted
<1>4. Placed
  BY DEF Placed, Idle, NoTask
<1>5. Running /\ Tended /\ NoLostWakeup
  BY DEF Running, Tended, NonTerminal, NoLostWakeup, At, Idle
<1> QED
  BY <1>1, <1>2, <1>3, <1>4, <1>5 DEF ReviewInv

LEMMA StutterReview == ASSUME ReviewInv, UNCHANGED vars PROVE ReviewInv'
<1>1. UNCHANGED <<store, up, task, client, failures>>
  BY DEF vars
<1>2. UNCHANGED <<jobs, idem, jobFile, idemFile, up, task, client, incidents, faulty, late>>
  BY <1>1 DEF store, failures
<1>3. StoreInv'
  BY <1>1, <1>2, StoreUntouched DEF ReviewInv
<1>4. Permitted'
  BY <1>2, PermitsKept
<1> QED
  BY <1>2, <1>3, <1>4
     DEF ReviewInv, Actors, Placed, Running, Tended, NonTerminal, NoLostWakeup, At

LEMMA NextReview == ReviewInv /\ [Next]_vars => ReviewInv'
<1> SUFFICES ASSUME ReviewInv, [Next]_vars PROVE ReviewInv'
  OBVIOUS
<1>1. ASSUME NEW c \in Clients, ClientStep(c)
      PROVE  ReviewInv'
  BY <1>1, SubmitCountKeeps, EnqueueKeeps, EnqueueFailsKeeps, ScheduleKeeps, CancelWriteKeeps,
     CancelNotifyKeeps, WaitRecheckKeeps, WaitLookKeeps DEF ClientStep
<1>2. ASSUME NEW j \in Jobs, TaskStep(j)
      PROVE  ReviewInv'
  BY <1>2, ExpireKeeps, AcquireKeeps, CancelledKeeps, WriteRunningKeeps, InferKeeps, SettleKeeps,
     TaskNotifyKeeps, TaskEndsKeeps DEF TaskStep
<1>3. ASSUME NEW c \in Clients,
             \/ WaitTimeout(c) \/ Disconnect(c)
             \/ \E r \in Requests : SubmitFind(c, r)
             \/ \E j \in Jobs : CancelToken(c, j) \/ (At(c, "idle") /\ WaitLook(c, j))
      PROVE  ReviewInv'
  BY <1>3, WaitTimeoutKeeps, DisconnectKeeps, SubmitFindKeeps, CancelTokenKeeps, WaitLookKeeps
<1> QED
  BY <1>1, <1>2, <1>3, RestartKeeps, StutterReview DEF Next

\* Index, files, tasks and clients of the review service fit together.
THEOREM Reviews == Spec => []ReviewInv
  BY InitReview, NextReview, PTL DEF Spec

\* For any clients and requests: a key names one job although submissions look at it twice,
\* until a write fails or a call is dropped; and the semaphore is never overdrawn.
THEOREM KeysNameOneJob == Spec => []OneJobPerKey
<1>1. ReviewInv => OneJobPerKey
  <2> SUFFICES ASSUME ReviewInv PROVE OneJobPerKey
    OBVIOUS
  <2>1. StoreInv /\ Typed /\ Keyed /\ Placed /\ Permitted
    BY DEF ReviewInv, StoreInv
  <2>2. Permits <= MaxConcurrent
    BY <2>1 DEF Permitted, Permits, Holders
  <2>3. TypeOK
    BY <2>1, <2>2 DEF TypeOK, Typed, Placed
  <2>4. faulty \/ \A i, j \in Jobs :
          jobs[i] # None /\ jobs[j] # None /\ jobs[i].key = jobs[j].key => i = j
    BY <2>1 DEF Keyed
  <2> QED
    BY <2>3, <2>4 DEF OneJobPerKey
<1> QED
  BY <1>1, Reviews, PTL

\* Whatever writes of enqueue and update_receipt fail, and however often the daemon starts:
\* the store opens as long as no failed write left its new file.
THEOREM StoreOpensAgain == Spec => []StoreOpens
<1>1. ReviewInv => StoreOpens
  <2> SUFFICES ASSUME ReviewInv, ~late, NEW k \in Keys, idemFile[k] # None
               PROVE  /\ jobFile[idemFile[k].job] # None
                      /\ jobFile[idemFile[k].job].digest = idemFile[k].digest
    BY DEF StoreOpens, Opens
  <2>1. idem[k] = idemFile[k] /\ idem[k].job \in Jobs
    BY DEF ReviewInv, StoreInv, Resolved, Typed, IdempotencyRecord
  <2>2. jobs[idem[k].job] # None /\ jobs[idem[k].job].digest = idem[k].digest
    BY <2>1 DEF ReviewInv, StoreInv, Resolved
  <2> QED
    BY <2>1, <2>2 DEF ReviewInv, StoreInv, Filed
<1> QED
  BY <1>1, Reviews, PTL

\* Every live job has a task or a submission that will schedule it, until a write fails or a
\* call is dropped, and without incidents none is executed twice.
THEOREM JobsAreAttended == Spec => []Attended
<1>1. ReviewInv => Attended
  <2> SUFFICES ASSUME ReviewInv PROVE Attended
    OBVIOUS
  <2>1. ASSUME incidents = 0, NEW j \in Jobs, TaskAt(j, "running"), jobs[j].status = "Running"
        PROVE  FALSE
    BY <2>1 DEF ReviewInv, Placed, Running, TaskAt
  <2>2. Tended
    BY DEF ReviewInv
  <2> QED
    BY <2>1, <2>2 DEF Attended, Tended
<1> QED
  BY <1>1, Reviews, PTL

\* No wait sleeps beside a finished job that nobody is about to announce, for any number of
\* waits, cancellations and tasks.
THEOREM NoWakeupIsLost == Spec => []NoLostWakeup
<1>1. ReviewInv => NoLostWakeup
  BY DEF ReviewInv
<1> QED
  BY <1>1, Reviews, PTL

\* No step replaces a terminal receipt: not a racing write of a receipt, not a submission that
\* reuses the job's identifier, not a restart from files that failed writes have left.
THEOREM ReceiptsStand == Spec => TerminalStands
<1>1. ASSUME ReviewInv, [Next]_vars, NEW j \in Jobs, jobs[j] # None, jobs[j].status \in Terminal
      PROVE  jobs'[j] = jobs[j]
  <2> USE <1>1
  <2>1. StoreInv /\ Placed
    BY DEF ReviewInv
  <2>2. ASSUME NEW i \in Jobs, jobs[i] # None, NEW s \in Terminal \cup {"Running"},
               Update(i, s), UNCHANGED up
        PROVE  jobs'[j] = jobs[j]
    BY <2>1, <2>2, UpdateStore
  <2>3. ASSUME NEW c \in Clients, Enqueue(c)
        PROVE  jobs'[j] = jobs[j]
    <3>1. client[c].req \in Requests /\ client[c].req.job \in Jobs
      BY <2>1, <2>3, RecordsTyped DEF Placed, Enqueue, At
    <3>2. CASE Known(client[c].req) = "new"
      <4>1. jobs[client[c].req.job] = None
        BY <2>1, <3>1, <3>2, NewIsNew
      <4>2. jobs' = [jobs EXCEPT ![client[c].req.job] = Stored(client[c].req)]
        BY <2>3, <3>2 DEF Enqueue, EnqueueNew
      <4> QED
        BY <2>1, <4>1, <4>2 DEF StoreInv, Typed
    <3>3. CASE Known(client[c].req) # "new"
      BY <2>3, <3>3 DEF Enqueue, store
    <3> QED
      BY <3>2, <3>3
  <2>4. ASSUME NEW c \in Clients, CancelWrite(c)
        PROVE  jobs'[j] = jobs[j]
    <3>1. client[c].job \in Jobs /\ jobs[client[c].job] # None
      BY <2>4, ClientJob DEF CancelWrite, At
    <3>2. CASE Update(client[c].job, "Cancelled")
      BY <2>2, <2>4, <3>1, <3>2 DEF CancelWrite, Terminal
    <3>3. CASE ~Update(client[c].job, "Cancelled")
      BY <2>4, <3>3 DEF CancelWrite, Repeated, Refused, UpdateFails, store
    <3> QED
      BY <3>2, <3>3
  <2>5. ASSUME NEW i \in Jobs, WriteRunning(i)
        PROVE  jobs'[j] = jobs[j]
    <3>1. jobs[i] # None
      BY <2>1, <2>5 DEF Placed, WriteRunning, TaskAt
    <3>2. CASE Update(i, "Running")
      BY <2>2, <2>5, <3>1, <3>2 DEF WriteRunning
    <3>3. CASE ~Update(i, "Running")
      BY <2>5, <3>3 DEF WriteRunning, Refused, UpdateFails, store
    <3> QED
      BY <3>2, <3>3
  <2>6. ASSUME NEW i \in Jobs, Settle(i)
        PROVE  jobs'[j] = jobs[j]
    <3>1. jobs[i] # None /\ task[i].status \in Terminal
      BY <2>1, <2>6 DEF Placed, Settle, TaskAt
    <3>2. CASE Update(i, task[i].status)
      BY <2>2, <2>6, <3>1, <3>2 DEF Settle
    <3>3. CASE ~Update(i, task[i].status)
      BY <2>6, <3>3 DEF Settle, Repeated, Refused, UpdateFails, store
    <3> QED
      BY <3>2, <3>3
  <2>7. CASE Restart
    BY <2>1, <2>7 DEF Restart, StoreInv, Filed
  <2>8. ASSUME UNCHANGED store \/ UNCHANGED jobs PROVE jobs'[j] = jobs[j]
    BY <2>8 DEF store
  <2>9. ASSUME NEW c \in Clients, ClientStep(c)
        PROVE  jobs'[j] = jobs[j]
    BY <2>3, <2>4, <2>8, <2>9
       DEF ClientStep, SubmitCount, EnqueueFails, Schedule, CancelNotify, WaitRecheck, WaitLook
  <2>10. ASSUME NEW i \in Jobs, TaskStep(i)
         PROVE  jobs'[j] = jobs[j]
    BY <2>5, <2>6, <2>8, <2>10
       DEF TaskStep, Expire, Acquire, Cancelled, Infer, TaskNotify, TaskEnds
  <2>11. ASSUME NEW c \in Clients,
                \/ WaitTimeout(c) \/ Disconnect(c)
                \/ \E r \in Requests : SubmitFind(c, r)
                \/ \E i \in Jobs : CancelToken(c, i) \/ (At(c, "idle") /\ WaitLook(c, i))
         PROVE  jobs'[j] = jobs[j]
    BY <2>8, <2>11 DEF WaitTimeout, Disconnect, SubmitFind, CancelToken, WaitLook
  <2>12. CASE UNCHANGED vars
    BY <2>8, <2>12 DEF vars
  <2> QED
    BY <2>7, <2>9, <2>10, <2>11, <2>12 DEF Next
<1>2. ReviewInv /\ [Next]_vars =>
        [\A j \in Jobs : jobs[j] # None /\ jobs[j].status \in Terminal => jobs'[j] = jobs[j]]_vars
  BY <1>1
<1> QED
  BY <1>2, Reviews, PTL DEF Spec, TerminalStands
===============================================================================
