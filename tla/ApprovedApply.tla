----------------------------- MODULE ApprovedApply -----------------------------
(***************************************************************************)
(* Approvals: the decision about a verified patch, and its application,   *)
(* once, to the repository of its goal.                                    *)
(*                                                                         *)
(* Callers decide (ApprovalService::resolve and the channels) and then run *)
(* ApplyCoordinator::coordinate, several at once and again after failures. *)
(* approval, claim, receipt and goal are rows of the database, repo and    *)
(* worktree directories; op is the record of the apply in the kernel's     *)
(* operation table, which a restart empties.  The approval's version is    *)
(* left out: it is 0 exactly while the approval is Pending.  The goal's is *)
(* the flag `current` of the snapshot that a caller holds.  Callers share  *)
(* one ObjectiveStore and hold its lock from the read of the goal to the   *)
(* last write; owner and worker write through connections of their own.    *)
(***************************************************************************)
EXTENDS Naturals, FiniteSets

CONSTANTS
  Callers,       \* requests and channel messages about the approval
  MaxIncidents,  \* bound on failing calls, dropped callers and restarts
  MaxMoves,      \* bound on what owner and worker do to the goal
  None

ASSUME ApplyAssumption ==
  /\ MaxIncidents \in Nat /\ MaxMoves \in Nat
  /\ None \notin {"success", "failure", "running", "succeeded", "failed", "Created", "Running",
                "Succeeded", "Failed", "Cancelled", "apply", "reconcile", "reject"}

VARIABLES
  approval,   \* approval_requests.status; "Revision" is Rejected for a revision
  claim,      \* approval_apply_operations.status
  receipt,    \* approval_apply_receipts: None, "success" or "failure"
  goal,       \* objectives.goal_state
  repo,       \* the patch's paths: "before", "partial" or "after"
  worktree,   \* the coding job's worktree exists
  op,         \* the operation's state in the kernel's table
  call,       \* each caller's position, path, goal snapshot and result
  incidents, moves,
  torn,       \* history: an apply was cut off, or its receipt not written, and left some
              \* of the patch in the repository
  unrestored  \* history: a rollback failed

store == <<approval, claim, receipt>>
history == <<torn, unrestored>>
files == <<repo, worktree, history>>
counts == <<incidents, moves>>
vars == <<store, goal, files, op, call, counts>>

GoalStates == {"Ready", "Running", "Blocked", "AwaitingHuman", "Suspended",
               "Completed", "Failed", "Cancelled"}
GoalTerminal == {"Completed", "Failed", "Cancelled"}

\* The edges of a goal's states (a goal with an approval is no Draft any more).
CanTransition(s, t) ==
  \/ s \notin GoalTerminal /\ t = "Cancelled"
  \/ s = "Ready" /\ t = "Running"
  \/ s = "Running" /\ t \in {"Blocked", "AwaitingHuman", "Suspended", "Completed", "Failed"}
  \/ s \in {"Suspended", "Blocked", "AwaitingHuman"} /\ t = "Ready"

Idle == [at |-> "idle", path |-> None, seen |-> None, goal |-> None, result |-> None]

\* An approval is requested while the attempt still runs; the goal waits for it next.
Init ==
  /\ approval = "Pending" /\ claim = None /\ receipt = None
  /\ goal \in {"Running", "AwaitingHuman"}
  /\ repo = "before" /\ worktree = TRUE /\ torn = FALSE /\ unrestored = FALSE
  /\ op = None
  /\ call = [c \in Callers |-> Idle]
  /\ incidents = 0 /\ moves = 0

At(c, s) == call[c].at = s
Goto(c, s) == call' = [call EXCEPT ![c].at = s]
Return(c) == call' = [call EXCEPT ![c] = Idle]

\* Something fails or is cut off.
Incident == incidents < MaxIncidents /\ incidents' = incidents + 1 /\ UNCHANGED moves

\* The lock of the store is free: it is held with the snapshot.
StoreFree == \A c \in Callers : call[c].goal = None

\* get_goal, under the lock.
Snapshot(c, s) ==
  call' = [call EXCEPT ![c].goal = [state |-> goal, current |-> TRUE], ![c].at = s]

Release(c, s) == call' = [call EXCEPT ![c].goal = None, ![c].at = s]

\* transition_goal: a compare-and-set on the version of the snapshot; an illegal
\* transition and a conflict end the caller.  More transitions follow at "move".
Transition(c, target, next) ==
  IF call[c].goal.current /\ CanTransition(goal, target)
  THEN /\ goal' = target
       /\ IF next = "move" THEN call' = [call EXCEPT ![c].goal.state = target]
          ELSE Release(c, next)
  ELSE Return(c) /\ UNCHANGED goal

-----------------------------------------------------------------------------
(* The decision.                                                           *)

\* resolve: the first decision in time counts, a repeated one is answered as before,
\* another one is refused.  Whoever gets an answer goes on to coordinate.
Decide(d) ==
  \/ approval = "Pending" /\ approval' = d
  \/ approval = "Pending" /\ approval' = "Expired"
  \/ d = "Approved" /\ approval \in {"Approved", "Consumed"} /\ UNCHANGED approval
  \/ d # "Approved" /\ approval \in {"Rejected", "Revision"} /\ UNCHANGED approval

Resolve(c, d) ==
  /\ At(c, "idle")
  /\ Decide(d)
  /\ Goto(c, "look")
  /\ UNCHANGED <<claim, receipt, goal, files, op, counts>>

\* list_pending expires what is due, and nobody coordinates.
Expire ==
  /\ approval = "Pending" /\ approval' = "Expired"
  /\ UNCHANGED <<claim, receipt, goal, files, op, call, counts>>

-----------------------------------------------------------------------------
(* coordinate.                                                             *)

LookApproval(c) ==
  /\ At(c, "look")
  /\ call' = [call EXCEPT ![c].at = "receipt", ![c].seen = approval]
  /\ UNCHANGED <<store, goal, files, op, counts>>

\* A receipt is reconciled; without one the status that was read before decides.
LookReceipt(c) ==
  /\ At(c, "receipt")
  /\ call' = [call EXCEPT ![c] =
       IF receipt # None
       THEN [@ EXCEPT !.at = "reconcile", !.path = "reconcile", !.result = receipt]
       ELSE IF @.seen \in {"Rejected", "Revision", "Expired"}
       THEN [@ EXCEPT !.at = "reject", !.path = "reject"]
       ELSE IF @.seen = "Approved" THEN [@ EXCEPT !.at = "claim", !.path = "apply"]
       ELSE Idle]
  /\ UNCHANGED <<store, goal, files, op, counts>>

\* Mutant: a claim that exists is somebody else's.
ClaimOnce(c) ==
  /\ At(c, "claim")
  /\ IF approval = "Approved" /\ claim = None THEN Goto(c, "submit") /\ claim' = "running"
     ELSE Return(c) /\ UNCHANGED claim
  /\ UNCHANGED <<approval, receipt, goal, files, op, counts>>

\* claim_apply: INSERT OR IGNORE, so that a claim left by a lost apply is taken up.
Claim(c) ==
  /\ At(c, "claim")
  /\ IF approval = "Approved"
     THEN Goto(c, "submit") /\ claim' = IF claim = None THEN "running" ELSE claim
     ELSE Return(c) /\ UNCHANGED claim
  /\ UNCHANGED <<approval, receipt, goal, files, op, counts>>

\* Mutant: an operation that exists is gone on with.
SubmitAgain(c) ==
  /\ At(c, "submit")
  /\ Goto(c, IF op = None THEN "start" ELSE "ensure")
  /\ op' = IF op = None THEN "Created" ELSE op
  /\ UNCHANGED <<store, goal, files, counts>>

\* The table refuses an identifier that it knows: DuplicateInProgress.
Submit(c) ==
  /\ At(c, "submit")
  /\ IF op = None THEN op' = "Created" /\ Goto(c, "start") ELSE Return(c) /\ UNCHANGED op
  /\ UNCHANGED <<store, goal, files, counts>>

\* The owner's process has ended, or the operation is registered and gets no budget
\* scope: also this is taken for a duplicate.
SubmitFails(c) ==
  /\ At(c, "submit") /\ Incident
  /\ op' \in {op, IF op = None THEN "Created" ELSE op}
  /\ Return(c)
  /\ UNCHANGED <<store, goal, files>>

Start(c) ==
  /\ At(c, "start")
  /\ IF op = "Created" THEN op' = "Running" /\ Goto(c, "ensure") ELSE Return(c) /\ UNCHANGED op
  /\ UNCHANGED <<store, goal, files, counts>>

\* ensure_goal_running: the goal is read once and moved to Ready and to Running.
Ensure(c) ==
  /\ At(c, "ensure") /\ StoreFree
  /\ Snapshot(c, "move")
  /\ UNCHANGED <<store, goal, files, op, counts>>

Waiting == {"AwaitingHuman", "Blocked", "Suspended"}

EnsureMove(c) ==
  /\ At(c, "move")
  /\ LET s == call[c].goal.state
     IN IF s \in Waiting THEN Transition(c, "Ready", "move")
        ELSE IF s = "Ready" THEN Transition(c, "Running", "move")
        ELSE /\ IF s = "Running"
                THEN Release(c, IF call[c].path = "apply" THEN "check" ELSE "settle")
                ELSE Return(c)
             /\ UNCHANGED goal
  /\ UNCHANGED <<store, files, op, counts>>

-----------------------------------------------------------------------------
(* ControlledApply::apply, under the operation.                            *)

Executing == {"start", "ensure", "move", "check", "apply", "restore", "finish"}

Finishing(c, result) == call' = [call EXCEPT ![c].at = "finish", ![c].result = result]

\* execute_approved: coding job, verification and diff may not be the ones approved.
Refuse(c) == Finishing(c, "failure")

\* Evidence, authorization, HEAD and `git apply --check`; any of them may refuse, and
\* the last one refuses a repository that has the patch, or half of it.
Check(c) ==
  /\ At(c, "check")
  /\ \/ approval = "Approved" /\ repo = "before" /\ Goto(c, "apply")
     \/ Refuse(c)
  /\ UNCHANGED <<store, goal, files, op, counts>>

\* Mutant: a failed application is not rolled back.
ApplyWithoutRollback(c) ==
  /\ At(c, "apply")
  /\ \/ repo' = "after" /\ Finishing(c, "success")
     \/ repo' \in {"before", "partial", "after"} /\ Finishing(c, "failure")
  /\ UNCHANGED <<store, goal, worktree, history, op, counts>>

\* `git apply --index` succeeds, or it is refused, cancelled or timed out: killed
\* between its writes it leaves anything.
Apply(c) ==
  /\ At(c, "apply")
  /\ \/ repo' = "after" /\ Finishing(c, "success")
     \/ repo' \in {"before", "partial", "after"} /\ Goto(c, "restore")
  /\ UNCHANGED <<store, goal, worktree, history, op, counts>>

\* restore_paths puts the snapshot back, or fails half way; both are failures, and a
\* receipt follows (its error names the rollback, where git's message leaves it room).
Restore(c) ==
  /\ At(c, "restore")
  /\ Finishing(c, "failure")
  /\ \/ repo' = "before" /\ UNCHANGED <<unrestored, counts>>
     \/ Incident /\ unrestored' = TRUE /\ repo' \in {repo, "partial"}
  /\ UNCHANGED <<store, goal, worktree, torn, op>>

\* finish_apply consumes the approval, ends the claim and writes the receipt in one
\* transaction.
Finish(c) ==
  /\ At(c, "finish")
  /\ IF receipt = None /\ claim = "running" /\ approval = "Approved"
     THEN /\ approval' = "Consumed" /\ receipt' = call[c].result
          /\ claim' = IF call[c].result = "success" THEN "succeeded" ELSE "failed"
          /\ Goto(c, "end")
     ELSE Return(c) /\ UNCHANGED store
  /\ UNCHANGED <<goal, files, op, counts>>

\* The transaction fails: what the apply did stays without a receipt.
FinishFails(c) ==
  /\ At(c, "finish") /\ Incident
  /\ Return(c)
  /\ torn' = (torn \/ repo # "before")
  /\ UNCHANGED <<store, goal, repo, worktree, unrestored, op>>

\* succeed_operation or fail_operation; it fails when the owner's end cancelled it.
EndOperation(c) ==
  /\ At(c, "end")
  /\ IF op = "Running"
     THEN /\ op' = IF call[c].result = "success" THEN "Succeeded" ELSE "Failed"
          /\ Goto(c, "settle")
     ELSE Return(c) /\ UNCHANGED op
  /\ UNCHANGED <<store, goal, files, counts>>

-----------------------------------------------------------------------------
(* What follows a receipt or a rejection.                                  *)

\* coordinate writes the summary and cleans, reconcile_receipt cleans first.
AfterSettle(c) ==
  IF call[c].path = "reconcile" /\ call[c].result = "success" THEN "clean" ELSE "summary"

Target(c) == IF call[c].result = "success" THEN "Completed" ELSE "Blocked"

\* transition_terminal.
Settle(c) ==
  /\ At(c, "settle") /\ StoreFree
  /\ IF goal = Target(c) THEN Goto(c, AfterSettle(c)) ELSE Snapshot(c, "settleMove")
  /\ UNCHANGED <<store, goal, files, op, counts>>

SettleMove(c) ==
  /\ At(c, "settleMove")
  /\ Transition(c, Target(c), AfterSettle(c))
  /\ UNCHANGED <<store, files, op, counts>>

\* reconcile_receipt: a goal that is not where the receipt puts it is brought there.
Reconcile(c) ==
  /\ At(c, "reconcile") /\ StoreFree
  /\ Goto(c, IF goal = Target(c) THEN AfterSettle(c) ELSE "ensure")
  /\ UNCHANGED <<store, goal, files, op, counts>>

\* transition_rejected.
RejectTarget(c) == IF call[c].seen = "Revision" THEN "Ready" ELSE "Cancelled"

Reject(c) ==
  /\ At(c, "reject") /\ StoreFree
  /\ IF goal \in GoalTerminal \cup {RejectTarget(c)} THEN Goto(c, "summary")
     ELSE Snapshot(c, "rejectMove")
  /\ UNCHANGED <<store, goal, files, op, counts>>

RejectMove(c) ==
  /\ At(c, "rejectMove")
  /\ Transition(c, RejectTarget(c), "summary")
  /\ UNCHANGED <<store, files, op, counts>>

\* record_summary; the worktree is removed after it, except by reconcile_receipt.
Summary(c) ==
  /\ At(c, "summary") /\ StoreFree
  /\ \/ /\ IF call[c].path = "apply" /\ call[c].result = "success" THEN Goto(c, "clean") ELSE Return(c)
        /\ UNCHANGED counts
     \/ Incident /\ Return(c)
  /\ UNCHANGED <<store, goal, files, op>>

Clean(c) ==
  /\ At(c, "clean")
  /\ \/ /\ worktree' = FALSE
        /\ IF call[c].path = "reconcile" THEN Goto(c, "summary") ELSE Return(c)
        /\ UNCHANGED counts
     \/ Incident /\ Return(c) /\ UNCHANGED worktree
  /\ UNCHANGED <<store, goal, repo, history, op>>

-----------------------------------------------------------------------------
(* The others.                                                             *)

\* The owner pauses, resumes or cancels the goal; the worker, which takes
\* any Running goal for its own, starts an attempt and records its outcome.
MoveGoal ==
  /\ moves < MaxMoves /\ moves' = moves + 1
  /\ \E t \in GoalStates : CanTransition(goal, t) /\ goal' = t
  /\ call' = [c \in Callers |->
       IF call[c].goal = None THEN call[c] ELSE [call[c] EXCEPT !.goal.current = FALSE]]
  /\ UNCHANGED <<store, files, op, incidents>>

\* What an apply that is cut off leaves of the patch.
CutOff(lost) ==
  /\ repo' \in IF \E c \in lost : call[c].at \in {"apply", "restore"} THEN {"before", "partial", "after"} ELSE {repo}
  /\ torn' = (torn \/ /\ repo' # "before"
                      /\ \E c \in lost : call[c].at \in {"apply", "restore", "finish"})
  /\ UNCHANGED unrestored

\* A caller's connection ends while it waits for something.
Awaiting == {"look", "submit", "start", "check", "apply", "restore", "end", "summary", "clean"}

Drop(c) ==
  /\ call[c].at \in Awaiting /\ Incident
  /\ CutOff({c}) /\ Return(c)
  /\ UNCHANGED <<store, goal, worktree, op>>

\* The end of the owner's process cancels the operation.
OwnerEnds ==
  /\ op \in {"Created", "Running"} /\ Incident
  /\ op' = "Cancelled"
  /\ UNCHANGED <<store, goal, files, call>>

\* The daemon stops and starts: recover_goals makes a Running goal Ready.
Restart ==
  /\ Incident
  /\ CutOff(Callers)
  /\ call' = [c \in Callers |-> Idle] /\ op' = None
  /\ goal' = IF goal = "Running" THEN "Ready" ELSE goal
  /\ UNCHANGED <<store, worktree>>

Step(c) ==
  \/ LookApproval(c) \/ LookReceipt(c) \/ Claim(c) \/ Submit(c) \/ Start(c)
  \/ Ensure(c) \/ EnsureMove(c) \/ Check(c) \/ Apply(c) \/ Restore(c) \/ Finish(c)
  \/ EndOperation(c) \/ Settle(c) \/ SettleMove(c) \/ Reconcile(c)
  \/ Reject(c) \/ RejectMove(c) \/ Summary(c) \/ Clean(c)

Next ==
  \/ \E c \in Callers :
       \/ \E d \in {"Approved", "Rejected", "Revision"} : Resolve(c, d)
       \/ Step(c) \/ SubmitFails(c) \/ FinishFails(c) \/ Drop(c)
  \/ Expire \/ MoveGoal \/ OwnerEnds \/ Restart

Spec == Init /\ [][Next]_vars

Repeat == approval \in {"Approved", "Consumed"} /\ \E c \in Callers : Resolve(c, "Approved")

\* A call that has begun goes on, git ends by its timeout, and the owner approves again.
FairSpec == Spec /\ WF_vars(Repeat) /\ \A c \in Callers : WF_vars(Step(c))

-----------------------------------------------------------------------------
(* Properties.                                                             *)

\* The state of the model is well formed.
TypeOK ==
  /\ approval \in {"Pending", "Approved", "Rejected", "Revision", "Expired", "Consumed"}
  /\ claim \in {None, "running", "succeeded", "failed"}
  /\ receipt \in {None, "success", "failure"}
  /\ goal \in GoalStates
  /\ repo \in {"before", "partial", "after"}
  /\ worktree \in BOOLEAN /\ torn \in BOOLEAN /\ unrestored \in BOOLEAN
  /\ op \in {None, "Created", "Running", "Succeeded", "Failed", "Cancelled"}
  /\ \A c \in Callers : call[c].path \in {None, "apply", "reconcile", "reject"}
  /\ incidents \in 0..MaxIncidents /\ moves \in 0..MaxMoves

Applying == {c \in Callers : call[c].path = "apply" /\ call[c].at \in Executing}

\* "Restart-safe, one-time coordination of approved coding patches": at most one caller
\* applies the patch, under a claim that is open and an approval that is neither used nor
\* withdrawn, and only an approved patch ever touches the repository.
AppliedOnce ==
  /\ TypeOK
  /\ Cardinality(Applying) <= 1
  /\ Applying # {} => approval = "Approved" /\ claim = "running" /\ receipt = None /\ op # None
  /\ repo # "before" => approval \in {"Approved", "Consumed"}

\* The receipt says what happened to the repository, for ever: a success has the patch
\* in place, a failure left nothing of it.  Two things make a failure's receipt untrue:
\* an apply that was cut off before its receipt with some of the patch in place (torn),
\* and a rollback that fails, whose receipt is written as any other (unrestored).
\* The worktree, the patch's other copy, goes last: after the receipt of a success, and
\* when the goal is completed, whoever moved the goal meanwhile.
ReceiptIsTrue ==
  /\ receipt = "success" => repo = "after"
  /\ receipt = "failure" => repo = "before" \/ torn \/ unrestored
  /\ ~worktree => receipt = "success" /\ goal = "Completed"

Settled ==
  \/ receipt = "success" /\ goal = "Completed"
  \/ receipt = "failure" /\ goal = "Blocked"

\* Whatever went wrong before, an approved patch whose operation is not registered (so
\* after every restart) and a receipt whose goal lags behind are brought to their end
\* when the approval is repeated, until something goes wrong again or the goal is moved.
Recovers ==
  \A n \in 0..(MaxIncidents + MaxMoves) :
    /\ approval \in {"Approved", "Consumed"}
    /\ op = None \/ receipt # None
    /\ goal \notin GoalTerminal
    /\ incidents + moves = n
    ~> Settled \/ incidents + moves > n
=============================================================================
