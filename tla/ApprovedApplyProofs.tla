-------------------------- MODULE ApprovedApplyProofs --------------------------
(***************************************************************************)
(* Proofs about ApprovedApply: for any number of callers, failures,        *)
(* restarts and moves of the goal, an approved patch is applied by one     *)
(* caller at a time and once, and its receipt is true.                     *)
(***************************************************************************)
EXTENDS ApprovedApply, FiniteSetTheorems, TLAPS

\* The types of a snapshot of the goal and of a caller.
Statuses == {"Pending", "Approved", "Rejected", "Revision", "Expired", "Consumed"}
Places == Executing \cup {"idle", "look", "receipt", "claim", "submit", "end", "settle",
                          "settleMove", "reconcile", "reject", "rejectMove", "summary", "clean"}
SnapshotType == [state : GoalStates, current : BOOLEAN]
CallType == [at : Places, path : {None, "apply", "reconcile", "reject"},
             seen : {None} \cup Statuses, goal : {None} \cup SnapshotType,
             result : {None, "success", "failure"}]

\* The path that a caller is on where it is, and the snapshot that it holds there.
Located ==
  \A c \in Callers :
    /\ call[c].at \in {"idle", "look", "receipt"} => call[c].path = None
    /\ call[c].at \in {"claim", "submit", "start", "check", "apply", "restore", "finish", "end"} =>
         call[c].path = "apply"
    /\ call[c].at = "reconcile" => call[c].path = "reconcile"
    /\ call[c].at \in {"reject", "rejectMove"} => call[c].path = "reject"
    /\ call[c].at \in {"ensure", "move", "settle", "settleMove", "clean"} =>
         call[c].path \in {"apply", "reconcile"}
    /\ call[c].at \in {"move", "settleMove", "rejectMove"} => call[c].goal \in SnapshotType

\* Approval, claim and receipt agree.
Rows ==
  /\ receipt # None <=> approval = "Consumed"
  /\ claim \in {"succeeded", "failed"} => approval = "Consumed"

\* One caller has the operation; one that waits to submit finds the approval unused, or an
\* operation that refuses it.
OneApplies ==
  /\ \A c, d \in Applying : c = d
  /\ Applying # {} => approval = "Approved" /\ claim = "running" /\ receipt = None /\ op # None
  /\ \A c \in Callers : call[c].at = "submit" =>
       /\ approval \in {"Approved", "Consumed"} /\ claim # None
       /\ approval = "Consumed" => op # None

\* The repository changes under the one that applies only.
Patched ==
  /\ repo # "before" => approval \in {"Approved", "Consumed"}
  /\ receipt = "success" => repo = "after"
  /\ \A c \in Callers : call[c].at = "finish" => /\ call[c].result # None
                                                 /\ call[c].result = "success" => repo = "after"
  /\ \/ torn \/ unrestored \/ repo = "before" \/ receipt = "success"
     \/ \E c \in Callers : \/ call[c].at = "restore"
                           \/ call[c].at = "finish" /\ call[c].result = "success"

\* What follows the receipt knows it, and the worktree goes when the goal is completed.
Cleaned ==
  /\ ~worktree => receipt = "success" /\ goal = "Completed"
  /\ \A c \in Callers :
       /\ call[c].path = "reconcile" => receipt # None /\ call[c].result = receipt
       /\ call[c].at \in {"end", "settle", "settleMove", "clean"} =>
            receipt # None /\ call[c].result = receipt
       /\ call[c].at = "summary" /\ call[c].path \in {"apply", "reconcile"} =>
            /\ receipt # None /\ call[c].result = receipt
            /\ receipt = "success" => goal = "Completed"
       /\ call[c].at = "clean" => receipt = "success" /\ goal = "Completed"

\* The inductive invariant.
ApplyInv ==
  /\ TypeOK /\ call \in [Callers -> CallType]
  /\ Located /\ Rows /\ OneApplies /\ Patched /\ Cleaned

-----------------------------------------------------------------------------
(* Init, and one lemma per action.                                         *)

\* A caller that has returned is well formed.
LEMMA IdleTyped == Idle \in CallType
BY DEF Idle, CallType, Places

\* The path of a caller has its type.
LEMMA PathTyped ==
  \A r \in CallType :
    r.path \in {None, "apply", "reconcile", "reject"}
BY DEF CallType

\* The invariant holds initially.
LEMMA InitApply == Init => ApplyInv
<1> SUFFICES ASSUME Init
             PROVE  ApplyInv
  OBVIOUS
<1> USE ApplyAssumption DEF Init, Idle
<1>1. call \in [Callers -> CallType]
  BY IdleTyped
<1>2. TypeOK
  <2>1. \A c \in Callers : call[c].path = None
    OBVIOUS
  <2>2. incidents \in 0..MaxIncidents /\ moves \in 0..MaxMoves
    OBVIOUS
  <2>3. goal \in GoalStates /\ worktree \in BOOLEAN /\ torn \in BOOLEAN /\ unrestored \in BOOLEAN
    BY DEF GoalStates
  <2> QED
    BY <2>1, <2>2, <2>3 DEF TypeOK
<1>3. Located /\ Rows /\ OneApplies /\ Patched /\ Cleaned
  BY DEF Located, Rows, OneApplies, Applying, Patched, Cleaned
<1> QED
  BY <1>1, <1>2, <1>3 DEF ApplyInv

\* A decision is taken once, and only a Pending approval takes one.
LEMMA ResolveKeeps ==
  ASSUME ApplyInv, NEW c \in Callers, NEW d \in {"Approved", "Rejected", "Revision"}, Resolve(c, d)
  PROVE  ApplyInv'
<1> USE ApplyAssumption DEF Resolve, At, Goto, Decide, files, history, counts
<1>1. /\ TypeOK /\ call \in [Callers -> CallType] /\ call[c] \in CallType /\ Idle \in CallType
      /\ Located /\ Rows /\ OneApplies /\ Patched /\ Cleaned
  BY IdleTyped DEF ApplyInv
<1>2. {"idle", "look"} \subseteq Places
  BY DEF Places, Executing
<1>3. call' \in [Callers -> CallType]
  BY <1>1, <1>2 DEF CallType, Statuses
<1>4. TypeOK'
  BY <1>1, <1>3 DEF TypeOK, GoalStates, CallType
<1> USE <1>1, <1>3 DEF TypeOK, CallType, Executing, Idle
<1>5. Located'
  BY DEF Located
<1>6. Rows'
  BY DEF Rows, OneApplies, Applying, Located
<1>7. OneApplies'
  BY DEF OneApplies, Applying, Located, Rows
<1>8. Patched'
  BY DEF Patched, OneApplies, Applying, Located, Rows
<1>9. Cleaned'
  BY DEF Cleaned, OneApplies, Applying, Located, Rows, CanTransition, GoalTerminal
<1> QED
  BY <1>3, <1>4, <1>5, <1>6, <1>7, <1>8, <1>9 DEF ApplyInv

\* The approval is read.
LEMMA LookApprovalKeeps ==
  ASSUME ApplyInv, NEW c \in Callers, LookApproval(c)
  PROVE  ApplyInv'
<1> USE ApplyAssumption DEF LookApproval, At, store, files, history, counts
<1>1. /\ TypeOK /\ call \in [Callers -> CallType] /\ call[c] \in CallType /\ Idle \in CallType
      /\ Located /\ Rows /\ OneApplies /\ Patched /\ Cleaned
  BY IdleTyped DEF ApplyInv
<1>2. {"look", "receipt"} \subseteq Places
  BY DEF Places, Executing
<1>3. call' \in [Callers -> CallType]
  <2>1. approval \in Statuses
    BY <1>1 DEF TypeOK, Statuses
  <2>2. [call[c] EXCEPT !.at = "receipt", !.seen = approval] \in CallType
    BY <1>1, <1>2, <2>1 DEF CallType
  <2> QED
    BY <1>1, <2>2
<1>4. TypeOK'
  BY <1>1, <1>3 DEF TypeOK, GoalStates, CallType
<1> USE <1>1, <1>3 DEF TypeOK, CallType, Executing, Idle
<1>5. Located'
  BY DEF Located
<1>6. Rows'
  BY DEF Rows, OneApplies, Applying, Located
<1>7. OneApplies'
  BY DEF OneApplies, Applying, Located, Rows
<1>8. Patched'
  BY DEF Patched, OneApplies, Applying, Located, Rows
<1>9. Cleaned'
  BY DEF Cleaned, OneApplies, Applying, Located, Rows, CanTransition, GoalTerminal
<1> QED
  BY <1>3, <1>4, <1>5, <1>6, <1>7, <1>8, <1>9 DEF ApplyInv

\* The receipt decides on the path.
LEMMA LookReceiptKeeps ==
  ASSUME ApplyInv, NEW c \in Callers, LookReceipt(c)
  PROVE  ApplyInv'
<1> USE ApplyAssumption DEF LookReceipt, At, store, files, history, counts
<1>1. /\ TypeOK /\ call \in [Callers -> CallType] /\ call[c] \in CallType /\ Idle \in CallType
      /\ Located /\ Rows /\ OneApplies /\ Patched /\ Cleaned
  BY IdleTyped DEF ApplyInv
<1>2. {"apply", "claim", "idle", "receipt", "reconcile", "reject"} \subseteq Places
  BY DEF Places, Executing
<1>3. call' \in [Callers -> CallType]
  <2>1. receipt \in {None, "success", "failure"}
    BY <1>1 DEF TypeOK
  <2>2. [call[c] EXCEPT !.at = "reconcile", !.path = "reconcile", !.result = receipt] \in CallType
    BY <1>1, <1>2, <2>1 DEF CallType
  <2>3. /\ [call[c] EXCEPT !.at = "reject", !.path = "reject"] \in CallType
        /\ [call[c] EXCEPT !.at = "claim", !.path = "apply"] \in CallType
    BY <1>1, <1>2 DEF CallType
  <2> QED
    BY <1>1, <2>2, <2>3
<1>4. TypeOK'
  BY <1>1, <1>3 DEF TypeOK, GoalStates, CallType
<1> USE <1>1, <1>3 DEF TypeOK, CallType, Executing, Idle
<1>5. Located'
  BY DEF Located
<1>6. Rows'
  BY DEF Rows, OneApplies, Applying, Located
<1>7. OneApplies'
  BY DEF OneApplies, Applying, Located, Rows
<1>8. Patched'
  BY DEF Patched, OneApplies, Applying, Located, Rows
<1>9. Cleaned'
  BY DEF Cleaned, OneApplies, Applying, Located, Rows, CanTransition, GoalTerminal
<1> QED
  BY <1>3, <1>4, <1>5, <1>6, <1>7, <1>8, <1>9 DEF ApplyInv

\* A claim is taken under an approval that is not used.
LEMMA ClaimKeeps ==
  ASSUME ApplyInv, NEW c \in Callers, Claim(c)
  PROVE  ApplyInv'
<1> USE ApplyAssumption DEF Claim, At, Goto, Return, files, history, counts
<1>1. /\ TypeOK /\ call \in [Callers -> CallType] /\ call[c] \in CallType /\ Idle \in CallType
      /\ Located /\ Rows /\ OneApplies /\ Patched /\ Cleaned
  BY IdleTyped DEF ApplyInv
<1>2. {"claim", "idle", "submit"} \subseteq Places
  BY DEF Places, Executing
<1>3. call' \in [Callers -> CallType]
  BY <1>1, <1>2 DEF CallType, Statuses
<1>4. TypeOK'
  BY <1>1, <1>3 DEF TypeOK, GoalStates, CallType
<1> USE <1>1, <1>3 DEF TypeOK, CallType, Executing, Idle
<1>5. Located'
  BY DEF Located
<1>6. Rows'
  BY DEF Rows, OneApplies, Applying, Located
<1>7. OneApplies'
  BY DEF OneApplies, Applying, Located, Rows
<1>8. Patched'
  BY DEF Patched, OneApplies, Applying, Located, Rows
<1>9. Cleaned'
  BY DEF Cleaned, OneApplies, Applying, Located, Rows, CanTransition, GoalTerminal
<1> QED
  BY <1>3, <1>4, <1>5, <1>6, <1>7, <1>8, <1>9 DEF ApplyInv

\* The operation table lets one caller in, when nobody is.
LEMMA SubmitKeeps ==
  ASSUME ApplyInv, NEW c \in Callers, Submit(c)
  PROVE  ApplyInv'
<1> USE ApplyAssumption DEF Submit, At, Goto, Return, store, files, history, counts
<1>1. /\ TypeOK /\ call \in [Callers -> CallType] /\ call[c] \in CallType /\ Idle \in CallType
      /\ Located /\ Rows /\ OneApplies /\ Patched /\ Cleaned
  BY IdleTyped DEF ApplyInv
<1>2. {"idle", "start", "submit"} \subseteq Places
  BY DEF Places, Executing
<1>3. call' \in [Callers -> CallType]
  BY <1>1, <1>2 DEF CallType, Statuses
<1>4. TypeOK'
  BY <1>1, <1>3 DEF TypeOK, GoalStates, CallType
<1> USE <1>1, <1>3 DEF TypeOK, CallType, Executing, Idle
<1>5. Located'
  BY DEF Located
<1>6. Rows'
  BY DEF Rows, OneApplies, Applying, Located
<1>7. OneApplies'
  BY DEF OneApplies, Applying, Located, Rows
<1>8. Patched'
  BY DEF Patched, OneApplies, Applying, Located, Rows
<1>9. Cleaned'
  BY DEF Cleaned, OneApplies, Applying, Located, Rows, CanTransition, GoalTerminal
<1> QED
  BY <1>3, <1>4, <1>5, <1>6, <1>7, <1>8, <1>9 DEF ApplyInv

\* A refused submission leaves an operation and nobody under it.
LEMMA SubmitFailsKeeps ==
  ASSUME ApplyInv, NEW c \in Callers, SubmitFails(c)
  PROVE  ApplyInv'
<1> USE ApplyAssumption DEF SubmitFails, At, Return, Incident, store, files, history
<1>1. /\ TypeOK /\ call \in [Callers -> CallType] /\ call[c] \in CallType /\ Idle \in CallType
      /\ Located /\ Rows /\ OneApplies /\ Patched /\ Cleaned
  BY IdleTyped DEF ApplyInv
<1>2. {"idle", "submit"} \subseteq Places
  BY DEF Places, Executing
<1>3. call' \in [Callers -> CallType]
  BY <1>1, <1>2 DEF CallType, Statuses
<1>4. TypeOK'
  BY <1>1, <1>3 DEF TypeOK, GoalStates, CallType
<1> USE <1>1, <1>3 DEF TypeOK, CallType, Executing, Idle
<1>5. Located'
  BY DEF Located
<1>6. Rows'
  BY DEF Rows, OneApplies, Applying, Located
<1>7. OneApplies'
  BY DEF OneApplies, Applying, Located, Rows
<1>8. Patched'
  BY DEF Patched, OneApplies, Applying, Located, Rows
<1>9. Cleaned'
  BY DEF Cleaned, OneApplies, Applying, Located, Rows, CanTransition, GoalTerminal
<1> QED
  BY <1>3, <1>4, <1>5, <1>6, <1>7, <1>8, <1>9 DEF ApplyInv

\* The operation starts.
LEMMA StartKeeps ==
  ASSUME ApplyInv, NEW c \in Callers, Start(c)
  PROVE  ApplyInv'
<1> USE ApplyAssumption DEF Start, At, Goto, Return, store, files, history, counts
<1>1. /\ TypeOK /\ call \in [Callers -> CallType] /\ call[c] \in CallType /\ Idle \in CallType
      /\ Located /\ Rows /\ OneApplies /\ Patched /\ Cleaned
  BY IdleTyped DEF ApplyInv
<1>2. {"ensure", "idle", "start"} \subseteq Places
  BY DEF Places, Executing
<1>3. call' \in [Callers -> CallType]
  BY <1>1, <1>2 DEF CallType, Statuses
<1>4. TypeOK'
  BY <1>1, <1>3 DEF TypeOK, GoalStates, CallType
<1> USE <1>1, <1>3 DEF TypeOK, CallType, Executing, Idle
<1>5. Located'
  BY DEF Located
<1>6. Rows'
  BY DEF Rows, OneApplies, Applying, Located
<1>7. OneApplies'
  BY DEF OneApplies, Applying, Located, Rows
<1>8. Patched'
  BY DEF Patched, OneApplies, Applying, Located, Rows
<1>9. Cleaned'
  BY DEF Cleaned, OneApplies, Applying, Located, Rows, CanTransition, GoalTerminal
<1> QED
  BY <1>3, <1>4, <1>5, <1>6, <1>7, <1>8, <1>9 DEF ApplyInv

\* The goal is read.
LEMMA EnsureKeeps ==
  ASSUME ApplyInv, NEW c \in Callers, Ensure(c)
  PROVE  ApplyInv'
<1> USE ApplyAssumption DEF Ensure, At, Snapshot, store, files, history, counts
<1>1. /\ TypeOK /\ call \in [Callers -> CallType] /\ call[c] \in CallType /\ Idle \in CallType
      /\ Located /\ Rows /\ OneApplies /\ Patched /\ Cleaned
  BY IdleTyped DEF ApplyInv
<1>2. {"ensure", "move"} \subseteq Places
  BY DEF Places, Executing
<1>3. call' \in [Callers -> CallType]
  BY <1>1, <1>2 DEF CallType, Statuses
<1>4. TypeOK'
  BY <1>1, <1>3 DEF TypeOK, GoalStates, CallType
<1> USE <1>1, <1>3 DEF TypeOK, CallType, Executing, Idle
<1>5. Located'
  BY DEF Located
<1>6. Rows'
  BY DEF Rows, OneApplies, Applying, Located
<1>7. OneApplies'
  BY DEF OneApplies, Applying, Located, Rows
<1>8. Patched'
  BY DEF Patched, OneApplies, Applying, Located, Rows
<1>9. Cleaned'
  BY DEF Cleaned, OneApplies, Applying, Located, Rows, CanTransition, GoalTerminal
<1> QED
  BY <1>3, <1>4, <1>5, <1>6, <1>7, <1>8, <1>9 DEF ApplyInv

\* The goal is moved to Running.
LEMMA EnsureMoveKeeps ==
  ASSUME ApplyInv, NEW c \in Callers, EnsureMove(c)
  PROVE  ApplyInv'
<1> USE ApplyAssumption DEF EnsureMove, At, Return, Release, Transition, store, files, history,
        counts
<1>1. /\ TypeOK /\ call \in [Callers -> CallType] /\ call[c] \in CallType /\ Idle \in CallType
      /\ Located /\ Rows /\ OneApplies /\ Patched /\ Cleaned
  BY IdleTyped DEF ApplyInv
<1>2. {"apply", "check", "idle", "move", "settle"} \subseteq Places
  BY DEF Places, Executing
<1>3. call' \in [Callers -> CallType]
  <2>1. call[c].goal \in SnapshotType
    BY <1>1 DEF Located
  <2>2. \A t \in {"Ready", "Running"} : [call[c] EXCEPT !.goal.state = t] \in CallType
    BY <1>1, <2>1 DEF CallType, SnapshotType, GoalStates
  <2>3. \A l \in {"check", "settle"} : [call[c] EXCEPT !.goal = None, !.at = l] \in CallType
    BY <1>1, <1>2 DEF CallType
  <2> QED
    BY <1>1, <2>2, <2>3
<1>4. TypeOK'
  BY <1>1, <1>3 DEF TypeOK, GoalStates, CallType
<1> USE <1>1, <1>3 DEF TypeOK, CallType, Executing, Idle
<1>5. Located'
  <2>1. call[c].goal \in SnapshotType /\ call[c].path \in {"apply", "reconcile"}
    BY DEF Located
  <2>2. \A t \in {"Ready", "Running"} : [call[c].goal EXCEPT !.state = t] \in SnapshotType
    BY <2>1 DEF SnapshotType, GoalStates
  <2>3. \/ call'[c].at = "idle" /\ call'[c].path = None
        \/ /\ call'[c].at = "move" /\ call'[c].path = call[c].path
           /\ call'[c].goal \in SnapshotType
        \/ /\ call'[c].path = call[c].path
           /\ call'[c].at = IF call[c].path = "apply" THEN "check" ELSE "settle"
    BY <2>1, <2>2
  <2>4. \A d \in Callers : d # c => call'[d] = call[d]
    OBVIOUS
  <2> QED
    BY <2>1, <2>3, <2>4 DEF Located
<1>6. Rows'
  BY DEF Rows, OneApplies, Applying, Located
<1>7. OneApplies'
  <2>1. /\ call'[c].at \in {"idle", "move", "check", "settle"}
        /\ call'[c].at \in {"move", "check"} => call'[c].path = call[c].path
    OBVIOUS
  <2>2. \A d \in Callers : d # c => call'[d] = call[d]
    OBVIOUS
  <2>3. Applying' \subseteq Applying
    BY <2>1, <2>2 DEF Applying
  <2> QED
    BY <2>1, <2>2, <2>3 DEF OneApplies
<1>8. Patched'
  BY DEF Patched, OneApplies, Applying, Located, Rows
<1>9. Cleaned'
  BY DEF Cleaned, OneApplies, Applying, Located, Rows, CanTransition, GoalTerminal
<1> QED
  BY <1>3, <1>4, <1>5, <1>6, <1>7, <1>8, <1>9 DEF ApplyInv

\* The checks let a patch pass that is not applied.
LEMMA CheckKeeps ==
  ASSUME ApplyInv, NEW c \in Callers, Check(c)
  PROVE  ApplyInv'
<1> USE ApplyAssumption DEF Check, At, Goto, Refuse, Finishing, store, files, history, counts
<1>1. /\ TypeOK /\ call \in [Callers -> CallType] /\ call[c] \in CallType /\ Idle \in CallType
      /\ Located /\ Rows /\ OneApplies /\ Patched /\ Cleaned
  BY IdleTyped DEF ApplyInv
<1>2. {"apply", "check", "finish"} \subseteq Places
  BY DEF Places, Executing
<1>3. call' \in [Callers -> CallType]
  BY <1>1, <1>2 DEF CallType, Statuses
<1>4. TypeOK'
  BY <1>1, <1>3 DEF TypeOK, GoalStates, CallType
<1> USE <1>1, <1>3 DEF TypeOK, CallType, Executing, Idle
<1>5. Located'
  BY DEF Located
<1>6. Rows'
  BY DEF Rows, OneApplies, Applying, Located
<1>7. OneApplies'
  BY DEF OneApplies, Applying, Located, Rows
<1>8. Patched'
  BY DEF Patched, OneApplies, Applying, Located, Rows
<1>9. Cleaned'
  BY DEF Cleaned, OneApplies, Applying, Located, Rows, CanTransition, GoalTerminal
<1> QED
  BY <1>3, <1>4, <1>5, <1>6, <1>7, <1>8, <1>9 DEF ApplyInv

\* The patch is applied, or anything is left of it.
LEMMA ApplyKeeps ==
  ASSUME ApplyInv, NEW c \in Callers, Apply(c)
  PROVE  ApplyInv'
<1> USE ApplyAssumption DEF Apply, At, Goto, Finishing, store, counts, history
<1>1. /\ TypeOK /\ call \in [Callers -> CallType] /\ call[c] \in CallType /\ Idle \in CallType
      /\ Located /\ Rows /\ OneApplies /\ Patched /\ Cleaned
  BY IdleTyped DEF ApplyInv
<1>2. {"apply", "finish", "restore"} \subseteq Places
  BY DEF Places, Executing
<1>3. call' \in [Callers -> CallType]
  BY <1>1, <1>2 DEF CallType, Statuses
<1>4. TypeOK'
  BY <1>1, <1>3 DEF TypeOK, GoalStates, CallType
<1> USE <1>1, <1>3 DEF TypeOK, CallType, Executing, Idle
<1>5. Located'
  BY DEF Located
<1>6. Rows'
  BY DEF Rows, OneApplies, Applying, Located
<1>7. OneApplies'
  BY DEF OneApplies, Applying, Located, Rows
<1>8. Patched'
  BY DEF Patched, OneApplies, Applying, Located, Rows
<1>9. Cleaned'
  BY DEF Cleaned, OneApplies, Applying, Located, Rows, CanTransition, GoalTerminal
<1> QED
  BY <1>3, <1>4, <1>5, <1>6, <1>7, <1>8, <1>9 DEF ApplyInv

\* The rollback restores, or is cut off.
LEMMA RestoreKeeps ==
  ASSUME ApplyInv, NEW c \in Callers, Restore(c)
  PROVE  ApplyInv'
<1> USE ApplyAssumption DEF Restore, At, Incident, Finishing, store, counts, history
<1>1. /\ TypeOK /\ call \in [Callers -> CallType] /\ call[c] \in CallType /\ Idle \in CallType
      /\ Located /\ Rows /\ OneApplies /\ Patched /\ Cleaned
  BY IdleTyped DEF ApplyInv
<1>2. {"finish", "restore"} \subseteq Places
  BY DEF Places, Executing
<1>3. call' \in [Callers -> CallType]
  BY <1>1, <1>2 DEF CallType, Statuses
<1>4. TypeOK'
  <2>1. incidents' \in 0..MaxIncidents /\ moves' \in 0..MaxMoves
    BY <1>1 DEF TypeOK
  <2>2. \A d \in Callers : call'[d].path \in {None, "apply", "reconcile", "reject"}
    <3>1. \A d \in Callers : call'[d] \in CallType
      BY <1>3
    <3> QED
      BY <3>1, PathTyped
  <2>3. repo' \in {"before", "partial", "after"} /\ torn' \in BOOLEAN /\ unrestored' \in BOOLEAN /\ worktree' \in BOOLEAN
    BY <1>1 DEF TypeOK
  <2> QED
    BY <1>1, <2>1, <2>2, <2>3 DEF TypeOK
<1> USE <1>1, <1>3 DEF TypeOK, CallType, Executing, Idle
<1>5. Located'
  BY DEF Located
<1>6. Rows'
  BY DEF Rows, OneApplies, Applying, Located
<1>7. OneApplies'
  BY DEF OneApplies, Applying, Located, Rows
<1>8. Patched'
  BY DEF Patched, OneApplies, Applying, Located, Rows
<1>9. Cleaned'
  BY DEF Cleaned, OneApplies, Applying, Located, Rows, CanTransition, GoalTerminal
<1> QED
  BY <1>3, <1>4, <1>5, <1>6, <1>7, <1>8, <1>9 DEF ApplyInv

\* Approval, claim and receipt end together.
LEMMA FinishKeeps ==
  ASSUME ApplyInv, NEW c \in Callers, Finish(c)
  PROVE  ApplyInv'
<1> USE ApplyAssumption DEF Finish, At, Goto, Return, store, files, history, counts
<1>1. /\ TypeOK /\ call \in [Callers -> CallType] /\ call[c] \in CallType /\ Idle \in CallType
      /\ Located /\ Rows /\ OneApplies /\ Patched /\ Cleaned
  BY IdleTyped DEF ApplyInv
<1>2. {"end", "finish", "idle"} \subseteq Places
  BY DEF Places, Executing
<1>3. call' \in [Callers -> CallType]
  BY <1>1, <1>2 DEF CallType, Statuses
<1>4. TypeOK'
  BY <1>1, <1>3 DEF TypeOK, GoalStates, CallType
<1> USE <1>1, <1>3 DEF TypeOK, CallType, Executing, Idle
<1>5. Located'
  BY DEF Located
<1>6. Rows'
  BY DEF Rows, OneApplies, Applying, Located, Patched
<1>7. OneApplies'
  BY DEF OneApplies, Applying, Located, Rows
<1>8. Patched'
  BY DEF Patched, OneApplies, Applying, Located, Rows
<1>9. Cleaned'
  BY DEF Cleaned, OneApplies, Applying, Located, Rows, Patched
<1> QED
  BY <1>3, <1>4, <1>5, <1>6, <1>7, <1>8, <1>9 DEF ApplyInv

\* Without a receipt an application that left something of the patch counts as cut off.
LEMMA FinishFailsKeeps ==
  ASSUME ApplyInv, NEW c \in Callers, FinishFails(c)
  PROVE  ApplyInv'
<1> USE ApplyAssumption DEF FinishFails, At, Return, Incident, store, history
<1>1. /\ TypeOK /\ call \in [Callers -> CallType] /\ call[c] \in CallType /\ Idle \in CallType
      /\ Located /\ Rows /\ OneApplies /\ Patched /\ Cleaned
  BY IdleTyped DEF ApplyInv
<1>2. {"finish", "idle"} \subseteq Places
  BY DEF Places, Executing
<1>3. call' \in [Callers -> CallType]
  BY <1>1, <1>2 DEF CallType, Statuses
<1>4. TypeOK'
  BY <1>1, <1>3 DEF TypeOK, GoalStates, CallType
<1> USE <1>1, <1>3 DEF TypeOK, CallType, Executing, Idle
<1>5. Located'
  BY DEF Located
<1>6. Rows'
  BY DEF Rows, OneApplies, Applying, Located
<1>7. OneApplies'
  BY DEF OneApplies, Applying, Located, Rows
<1>8. Patched'
  <2>1. (torn' \/ repo' = "before") /\ UNCHANGED <<repo, receipt, approval>>
    OBVIOUS
  <2>2. \A d \in Callers : call'[d].at = "finish" => call'[d] = call[d]
    OBVIOUS
  <2> QED
    BY <2>1, <2>2 DEF Patched
<1>9. Cleaned'
  BY DEF Cleaned, OneApplies, Applying, Located, Rows, CanTransition, GoalTerminal
<1> QED
  BY <1>3, <1>4, <1>5, <1>6, <1>7, <1>8, <1>9 DEF ApplyInv

\* The operation ends after the receipt.
LEMMA EndOperationKeeps ==
  ASSUME ApplyInv, NEW c \in Callers, EndOperation(c)
  PROVE  ApplyInv'
<1> USE ApplyAssumption DEF EndOperation, At, Goto, Return, store, files, history, counts
<1>1. /\ TypeOK /\ call \in [Callers -> CallType] /\ call[c] \in CallType /\ Idle \in CallType
      /\ Located /\ Rows /\ OneApplies /\ Patched /\ Cleaned
  BY IdleTyped DEF ApplyInv
<1>2. {"end", "idle", "settle"} \subseteq Places
  BY DEF Places, Executing
<1>3. call' \in [Callers -> CallType]
  BY <1>1, <1>2 DEF CallType, Statuses
<1>4. TypeOK'
  BY <1>1, <1>3 DEF TypeOK, GoalStates, CallType
<1> USE <1>1, <1>3 DEF TypeOK, CallType, Executing, Idle
<1>5. Located'
  BY DEF Located
<1>6. Rows'
  BY DEF Rows, OneApplies, Applying, Located
<1>7. OneApplies'
  BY DEF OneApplies, Applying, Located, Rows
<1>8. Patched'
  BY DEF Patched, OneApplies, Applying, Located, Rows
<1>9. Cleaned'
  BY DEF Cleaned, OneApplies, Applying, Located, Rows, CanTransition, GoalTerminal
<1> QED
  BY <1>3, <1>4, <1>5, <1>6, <1>7, <1>8, <1>9 DEF ApplyInv

\* The goal is compared with the receipt.
LEMMA SettleKeeps ==
  ASSUME ApplyInv, NEW c \in Callers, Settle(c)
  PROVE  ApplyInv'
<1> USE ApplyAssumption DEF Settle, At, Goto, Snapshot, AfterSettle, Target, store, files, history,
        counts
<1>1. /\ TypeOK /\ call \in [Callers -> CallType] /\ call[c] \in CallType /\ Idle \in CallType
      /\ Located /\ Rows /\ OneApplies /\ Patched /\ Cleaned
  BY IdleTyped DEF ApplyInv
<1>2. {"clean", "reconcile", "settle", "settleMove", "summary"} \subseteq Places
  BY DEF Places, Executing
<1>3. call' \in [Callers -> CallType]
  BY <1>1, <1>2 DEF CallType, Statuses
<1>4. TypeOK'
  BY <1>1, <1>3 DEF TypeOK, GoalStates, CallType
<1> USE <1>1, <1>3 DEF TypeOK, CallType, Executing, Idle
<1>5. Located'
  BY DEF Located
<1>6. Rows'
  BY DEF Rows, OneApplies, Applying, Located
<1>7. OneApplies'
  BY DEF OneApplies, Applying, Located, Rows
<1>8. Patched'
  BY DEF Patched, OneApplies, Applying, Located, Rows
<1>9. Cleaned'
  BY DEF Cleaned, OneApplies, Applying, Located, Rows, CanTransition, GoalTerminal
<1> QED
  BY <1>3, <1>4, <1>5, <1>6, <1>7, <1>8, <1>9 DEF ApplyInv

\* The goal follows the receipt, or a conflict ends the caller.
LEMMA SettleMoveKeeps ==
  ASSUME ApplyInv, NEW c \in Callers, SettleMove(c)
  PROVE  ApplyInv'
<1> USE ApplyAssumption DEF SettleMove, At, Transition, Return, Release, AfterSettle,
        Target, store, files, history, counts
<1>1. /\ TypeOK /\ call \in [Callers -> CallType] /\ call[c] \in CallType /\ Idle \in CallType
      /\ Located /\ Rows /\ OneApplies /\ Patched /\ Cleaned
  BY IdleTyped DEF ApplyInv
<1>2. {"clean", "idle", "move", "reconcile", "settleMove", "summary"} \subseteq Places
  BY DEF Places, Executing
<1>3. call' \in [Callers -> CallType]
  BY <1>1, <1>2 DEF CallType, Statuses
<1>4. TypeOK'
  BY <1>1, <1>3 DEF TypeOK, GoalStates, CallType
<1> USE <1>1, <1>3 DEF TypeOK, CallType, Executing, Idle
<1>5. Located'
  BY DEF Located
<1>6. Rows'
  BY DEF Rows, OneApplies, Applying, Located
<1>7. OneApplies'
  BY DEF OneApplies, Applying, Located, Rows
<1>8. Patched'
  BY DEF Patched, OneApplies, Applying, Located, Rows
<1>9. Cleaned'
  BY DEF Cleaned, OneApplies, Applying, Located, Rows, CanTransition, GoalTerminal
<1> QED
  BY <1>3, <1>4, <1>5, <1>6, <1>7, <1>8, <1>9 DEF ApplyInv

\* A receipt that is found is followed.
LEMMA ReconcileKeeps ==
  ASSUME ApplyInv, NEW c \in Callers, Reconcile(c)
  PROVE  ApplyInv'
<1> USE ApplyAssumption DEF Reconcile, At, Goto, AfterSettle, Target, store, files, history, counts
<1>1. /\ TypeOK /\ call \in [Callers -> CallType] /\ call[c] \in CallType /\ Idle \in CallType
      /\ Located /\ Rows /\ OneApplies /\ Patched /\ Cleaned
  BY IdleTyped DEF ApplyInv
<1>2. {"clean", "ensure", "reconcile", "summary"} \subseteq Places
  BY DEF Places, Executing
<1>3. call' \in [Callers -> CallType]
  BY <1>1, <1>2 DEF CallType, Statuses
<1>4. TypeOK'
  BY <1>1, <1>3 DEF TypeOK, GoalStates, CallType
<1> USE <1>1, <1>3 DEF TypeOK, CallType, Executing, Idle
<1>5. Located'
  BY DEF Located
<1>6. Rows'
  BY DEF Rows, OneApplies, Applying, Located
<1>7. OneApplies'
  BY DEF OneApplies, Applying, Located, Rows
<1>8. Patched'
  BY DEF Patched, OneApplies, Applying, Located, Rows
<1>9. Cleaned'
  BY DEF Cleaned, OneApplies, Applying, Located, Rows, CanTransition, GoalTerminal
<1> QED
  BY <1>3, <1>4, <1>5, <1>6, <1>7, <1>8, <1>9 DEF ApplyInv

\* A rejection looks at the goal.
LEMMA RejectKeeps ==
  ASSUME ApplyInv, NEW c \in Callers, Reject(c)
  PROVE  ApplyInv'
<1> USE ApplyAssumption DEF Reject, At, Goto, Snapshot, RejectTarget, store, files, history, counts
<1>1. /\ TypeOK /\ call \in [Callers -> CallType] /\ call[c] \in CallType /\ Idle \in CallType
      /\ Located /\ Rows /\ OneApplies /\ Patched /\ Cleaned
  BY IdleTyped DEF ApplyInv
<1>2. {"reject", "rejectMove", "summary"} \subseteq Places
  BY DEF Places, Executing
<1>3. call' \in [Callers -> CallType]
  BY <1>1, <1>2 DEF CallType, Statuses
<1>4. TypeOK'
  BY <1>1, <1>3 DEF TypeOK, GoalStates, CallType
<1> USE <1>1, <1>3 DEF TypeOK, CallType, Executing, Idle
<1>5. Located'
  BY DEF Located
<1>6. Rows'
  BY DEF Rows, OneApplies, Applying, Located
<1>7. OneApplies'
  <2>1. \A d \in Callers : call'[d].at \in Executing \cup {"submit"} => call'[d] = call[d]
    OBVIOUS
  <2>2. Applying' \subseteq Applying
    BY <2>1 DEF Applying
  <2>3. UNCHANGED <<approval, claim, receipt, op>>
    OBVIOUS
  <2> HIDE DEF Reject, Applying, Executing
  <2> QED
    BY <2>1, <2>2, <2>3 DEF OneApplies
<1>8. Patched'
  <2>1. \A d \in Callers : call[d].at \in {"finish", "restore"} => call'[d] = call[d]
    OBVIOUS
  <2>2. \A d \in Callers : call'[d].at = "finish" => call'[d] = call[d]
    OBVIOUS
  <2>3. UNCHANGED <<repo, receipt, approval, torn, unrestored>>
    OBVIOUS
  <2> HIDE DEF Reject
  <2> QED
    BY <2>1, <2>2, <2>3 DEF Patched
<1>9. Cleaned'
  BY DEF Cleaned, OneApplies, Applying, Located, Rows, CanTransition, GoalTerminal
<1> QED
  BY <1>3, <1>4, <1>5, <1>6, <1>7, <1>8, <1>9 DEF ApplyInv

\* A rejection moves the goal.
LEMMA RejectMoveKeeps ==
  ASSUME ApplyInv, NEW c \in Callers, RejectMove(c)
  PROVE  ApplyInv'
<1> USE ApplyAssumption DEF RejectMove, At, Transition, Return, Release, RejectTarget,
        store, files, history, counts
<1>1. /\ TypeOK /\ call \in [Callers -> CallType] /\ call[c] \in CallType /\ Idle \in CallType
      /\ Located /\ Rows /\ OneApplies /\ Patched /\ Cleaned
  BY IdleTyped DEF ApplyInv
<1>2. {"idle", "move", "rejectMove", "summary"} \subseteq Places
  BY DEF Places, Executing
<1>3. call' \in [Callers -> CallType]
  BY <1>1, <1>2 DEF CallType, Statuses
<1>4. TypeOK'
  BY <1>1, <1>3 DEF TypeOK, GoalStates, CallType
<1> USE <1>1, <1>3 DEF TypeOK, CallType, Executing, Idle
<1>5. Located'
  BY DEF Located
<1>6. Rows'
  BY DEF Rows, OneApplies, Applying, Located
<1>7. OneApplies'
  <2>1. call'[c].at \in {"idle", "summary"} /\ \A d \in Callers : d # c => call'[d] = call[d]
    OBVIOUS
  <2>2. Applying' \subseteq Applying
    BY <2>1 DEF Applying, Located
  <2> QED
    BY <2>1, <2>2 DEF OneApplies
<1>8. Patched'
  BY DEF Patched, OneApplies, Applying, Located, Rows
<1>9. Cleaned'
  BY DEF Cleaned, OneApplies, Applying, Located, Rows, CanTransition, GoalTerminal
<1> QED
  BY <1>3, <1>4, <1>5, <1>6, <1>7, <1>8, <1>9 DEF ApplyInv

\* The summary is written.
LEMMA SummaryKeeps ==
  ASSUME ApplyInv, NEW c \in Callers, Summary(c)
  PROVE  ApplyInv'
<1> USE ApplyAssumption DEF Summary, At, Goto, Return, Incident, store, files, history, counts
<1>1. /\ TypeOK /\ call \in [Callers -> CallType] /\ call[c] \in CallType /\ Idle \in CallType
      /\ Located /\ Rows /\ OneApplies /\ Patched /\ Cleaned
  BY IdleTyped DEF ApplyInv
<1>2. {"apply", "clean", "idle", "summary"} \subseteq Places
  BY DEF Places, Executing
<1>3. call' \in [Callers -> CallType]
  BY <1>1, <1>2 DEF CallType, Statuses
<1>4. TypeOK'
  BY <1>1, <1>3 DEF TypeOK, GoalStates, CallType
<1> USE <1>1, <1>3 DEF TypeOK, CallType, Executing, Idle
<1>5. Located'
  BY DEF Located
<1>6. Rows'
  BY DEF Rows, OneApplies, Applying, Located
<1>7. OneApplies'
  BY DEF OneApplies, Applying, Located, Rows
<1>8. Patched'
  BY DEF Patched, OneApplies, Applying, Located, Rows
<1>9. Cleaned'
  BY DEF Cleaned, OneApplies, Applying, Located, Rows, CanTransition, GoalTerminal
<1> QED
  BY <1>3, <1>4, <1>5, <1>6, <1>7, <1>8, <1>9 DEF ApplyInv

\* The worktree is removed last.
LEMMA CleanKeeps ==
  ASSUME ApplyInv, NEW c \in Callers, Clean(c)
  PROVE  ApplyInv'
<1> USE ApplyAssumption DEF Clean, At, Goto, Return, Incident, store, counts, history
<1>1. /\ TypeOK /\ call \in [Callers -> CallType] /\ call[c] \in CallType /\ Idle \in CallType
      /\ Located /\ Rows /\ OneApplies /\ Patched /\ Cleaned
  BY IdleTyped DEF ApplyInv
<1>2. {"clean", "idle", "reconcile", "summary"} \subseteq Places
  BY DEF Places, Executing
<1>3. call' \in [Callers -> CallType]
  BY <1>1, <1>2 DEF CallType, Statuses
<1>4. TypeOK'
  <2>1. incidents' \in 0..MaxIncidents /\ moves' \in 0..MaxMoves
    BY <1>1 DEF TypeOK
  <2>2. \A d \in Callers : call'[d].path \in {None, "apply", "reconcile", "reject"}
    <3>1. \A d \in Callers : call'[d] \in CallType
      BY <1>3
    <3> QED
      BY <3>1, PathTyped
  <2>3. repo' \in {"before", "partial", "after"} /\ torn' \in BOOLEAN /\ unrestored' \in BOOLEAN /\ worktree' \in BOOLEAN
    BY <1>1 DEF TypeOK
  <2> QED
    BY <1>1, <2>1, <2>2, <2>3 DEF TypeOK
<1> USE <1>1, <1>3 DEF TypeOK, CallType, Executing, Idle
<1>5. Located'
  BY DEF Located
<1>6. Rows'
  BY DEF Rows, OneApplies, Applying, Located
<1>7. OneApplies'
  BY DEF OneApplies, Applying, Located, Rows
<1>8. Patched'
  BY DEF Patched, OneApplies, Applying, Located, Rows
<1>9. Cleaned'
  BY DEF Cleaned, OneApplies, Applying, Located, Rows, CanTransition, GoalTerminal
<1> QED
  BY <1>3, <1>4, <1>5, <1>6, <1>7, <1>8, <1>9 DEF ApplyInv

\* A dropped caller leaves what it was at.
LEMMA DropKeeps ==
  ASSUME ApplyInv, NEW c \in Callers, Drop(c)
  PROVE  ApplyInv'
<1> USE ApplyAssumption DEF Drop, Return, Incident, CutOff, store, Awaiting, history
<1>1. /\ TypeOK /\ call \in [Callers -> CallType] /\ call[c] \in CallType /\ Idle \in CallType
      /\ Located /\ Rows /\ OneApplies /\ Patched /\ Cleaned
  BY IdleTyped DEF ApplyInv
<1>2. {"apply", "check", "clean", "end", "finish", "idle", "look", "restore", "start",
        "submit", "summary"} \subseteq Places
  BY DEF Places, Executing
<1>3. call' \in [Callers -> CallType]
  BY <1>1, <1>2 DEF CallType, Statuses
<1>4. TypeOK'
  BY <1>1, <1>3 DEF TypeOK, GoalStates, CallType
<1> USE <1>1, <1>3 DEF TypeOK, CallType, Executing, Idle
<1>5. Located'
  BY DEF Located
<1>6. Rows'
  BY DEF Rows, OneApplies, Applying, Located
<1>7. OneApplies'
  BY DEF OneApplies, Applying, Located, Rows
<1>8. Patched'
  <2>1. CASE call[c].at \in {"apply", "restore"}
    <3>1. (torn' \/ repo' = "before") /\ c \in Applying
      BY <2>1 DEF Applying, Located
    <3>2. \A d \in Callers : call'[d].at # "finish"
      BY <3>1 DEF Applying, OneApplies, Located
    <3> QED
      BY <3>1, <3>2 DEF Patched, OneApplies
  <2>2. CASE call[c].at \notin {"apply", "restore"}
    BY <2>2 DEF Patched
  <2> QED
    BY <2>1, <2>2
<1>9. Cleaned'
  BY DEF Cleaned, OneApplies, Applying, Located, Rows, CanTransition, GoalTerminal
<1> QED
  BY <1>3, <1>4, <1>5, <1>6, <1>7, <1>8, <1>9 DEF ApplyInv

\* An approval that is due expires while it is Pending.
LEMMA ExpireKeeps ==
  ASSUME ApplyInv, Expire
  PROVE  ApplyInv'
<1> USE ApplyAssumption DEF Expire, files, history, counts
<1>1. /\ TypeOK /\ call \in [Callers -> CallType] /\ UNCHANGED call
      /\ Located /\ Rows /\ OneApplies /\ Patched /\ Cleaned
  BY DEF ApplyInv
<1>2. TypeOK' /\ call' \in [Callers -> CallType]
  BY <1>1 DEF TypeOK
<1> USE <1>1 DEF TypeOK, CallType, Executing, Idle
<1>3. Located'
  BY DEF Located
<1>4. Rows'
  BY DEF Rows, OneApplies, Applying, Located
<1>5. OneApplies'
  BY DEF OneApplies, Applying, Located, Rows
<1>6. Patched'
  BY DEF Patched, OneApplies, Applying, Located, Rows
<1>7. Cleaned'
  BY DEF Cleaned, OneApplies, Applying, Located, Rows, CanTransition, GoalTerminal
<1> QED
  BY <1>2, <1>3, <1>4, <1>5, <1>6, <1>7 DEF ApplyInv

\* Owner and worker move the goal along its edges, and Completed has none.
LEMMA MoveGoalKeeps ==
  ASSUME ApplyInv, MoveGoal
  PROVE  ApplyInv'
<1> USE ApplyAssumption DEF MoveGoal, store, files, history
<1>1. /\ TypeOK /\ call \in [Callers -> CallType] /\ Idle \in CallType
      /\ Located /\ Rows /\ OneApplies /\ Patched /\ Cleaned
  BY IdleTyped DEF ApplyInv
<1>2. call' \in [Callers -> CallType]
  <2>1. ASSUME NEW c \in Callers, call[c].goal # None
        PROVE  [call[c] EXCEPT !.goal.current = FALSE] \in CallType
    <3>1. call[c].goal \in SnapshotType /\ call[c] \in CallType
      BY <1>1, <2>1 DEF CallType
    <3>2. [call[c].goal EXCEPT !.current = FALSE] \in SnapshotType
      BY <3>1 DEF SnapshotType
    <3> QED
      BY <3>1, <3>2 DEF CallType
  <2> QED
    BY <1>1, <2>1
<1>3. TypeOK'
  BY <1>1, <1>2 DEF TypeOK, GoalStates, CallType
<1> USE <1>1, <1>2 DEF TypeOK, CallType, Executing, Idle
<1>4. Located'
  <2>1. ASSUME NEW c \in Callers
        PROVE  /\ call'[c].at = call[c].at /\ call'[c].path = call[c].path
               /\ call[c].goal \in SnapshotType => call'[c].goal \in SnapshotType
    BY DEF SnapshotType
  <2> QED
    BY <2>1 DEF Located
<1>5. Rows'
  BY DEF Rows, OneApplies, Applying, Located
<1>6. OneApplies'
  BY DEF OneApplies, Applying, Located, Rows
<1>7. Patched'
  BY DEF Patched, OneApplies, Applying, Located, Rows
<1>8. Cleaned'
  BY DEF Cleaned, OneApplies, Applying, Located, Rows, CanTransition, GoalTerminal
<1> QED
  BY <1>2, <1>3, <1>4, <1>5, <1>6, <1>7, <1>8 DEF ApplyInv

\* The operation is cancelled from outside.
LEMMA OwnerEndsKeeps ==
  ASSUME ApplyInv, OwnerEnds
  PROVE  ApplyInv'
<1> USE ApplyAssumption DEF OwnerEnds, Incident, store, files, history
<1>1. /\ TypeOK /\ call \in [Callers -> CallType] /\ UNCHANGED call
      /\ Located /\ Rows /\ OneApplies /\ Patched /\ Cleaned
  BY DEF ApplyInv
<1>2. TypeOK' /\ call' \in [Callers -> CallType]
  BY <1>1 DEF TypeOK
<1> USE <1>1 DEF TypeOK, CallType, Executing, Idle
<1>3. Located'
  BY DEF Located
<1>4. Rows'
  BY DEF Rows, OneApplies, Applying, Located
<1>5. OneApplies'
  BY DEF OneApplies, Applying, Located, Rows
<1>6. Patched'
  BY DEF Patched, OneApplies, Applying, Located, Rows
<1>7. Cleaned'
  BY DEF Cleaned, OneApplies, Applying, Located, Rows, CanTransition, GoalTerminal
<1> QED
  BY <1>2, <1>3, <1>4, <1>5, <1>6, <1>7 DEF ApplyInv

\* A restart ends every caller and every operation.
LEMMA RestartKeeps ==
  ASSUME ApplyInv, Restart
  PROVE  ApplyInv'
<1> USE ApplyAssumption DEF Restart, Incident, CutOff, store, history
<1>1. /\ TypeOK /\ call \in [Callers -> CallType] /\ Idle \in CallType
      /\ Located /\ Rows /\ OneApplies /\ Patched /\ Cleaned
  BY IdleTyped DEF ApplyInv
<1>2. call' \in [Callers -> CallType]
  BY <1>1 DEF CallType, Statuses
<1>3. TypeOK'
  BY <1>1, <1>2 DEF TypeOK, GoalStates, CallType
<1> USE <1>1, <1>2 DEF TypeOK, CallType, Executing, Idle
<1>4. Located'
  BY DEF Located
<1>5. Rows'
  BY DEF Rows, OneApplies, Applying, Located
<1>6. OneApplies'
  BY DEF OneApplies, Applying, Located, Rows
<1>7. Patched'
  <2>1. CASE \E c \in Callers : call[c].at \in {"apply", "restore"}
    <3>1. (torn' \/ repo' = "before") /\ Applying # {}
      BY <2>1 DEF Applying, Located
    <3> QED
      BY <3>1 DEF Patched, OneApplies
  <2>2. CASE ~\E c \in Callers : call[c].at \in {"apply", "restore"}
    <3>1. repo' = repo /\ \A c \in Callers : call'[c].at = "idle"
      BY <2>2
    <3>2. torn' \/ repo' = "before" \/ \A c \in Callers : call[c].at \notin {"apply", "restore", "finish"}
      BY <2>2
    <3> QED
      BY <3>1, <3>2 DEF Patched
  <2> QED
    BY <2>1, <2>2
<1>8. Cleaned'
  BY DEF Cleaned, OneApplies, Applying, Located, Rows, CanTransition, GoalTerminal
<1> QED
  BY <1>2, <1>3, <1>4, <1>5, <1>6, <1>7, <1>8 DEF ApplyInv

\* Every step keeps the invariant.
LEMMA NextApply == ApplyInv /\ [Next]_vars => ApplyInv'
<1> SUFFICES ASSUME ApplyInv, [Next]_vars
             PROVE  ApplyInv'
  OBVIOUS
<1>1. CASE UNCHANGED vars
  BY <1>1 DEF vars, store, files, history, counts, ApplyInv, TypeOK, Located, Rows, OneApplies, Applying,
              Patched, Cleaned
<1>2. ASSUME NEW c \in Callers, Step(c)
      PROVE  ApplyInv'
  BY <1>2, LookApprovalKeeps, LookReceiptKeeps, ClaimKeeps, SubmitKeeps, StartKeeps, EnsureKeeps,
     EnsureMoveKeeps, CheckKeeps, ApplyKeeps, RestoreKeeps, FinishKeeps, EndOperationKeeps,
     SettleKeeps, SettleMoveKeeps, ReconcileKeeps, RejectKeeps, RejectMoveKeeps, SummaryKeeps,
     CleanKeeps DEF Step
<1>3. ASSUME NEW c \in Callers,
             \/ \E d \in {"Approved", "Rejected", "Revision"} : Resolve(c, d)
             \/ SubmitFails(c) \/ FinishFails(c) \/ Drop(c)
      PROVE  ApplyInv'
  BY <1>3, ResolveKeeps, SubmitFailsKeeps, FinishFailsKeeps, DropKeeps
<1> QED
  BY <1>1, <1>2, <1>3, ExpireKeeps, MoveGoalKeeps, OwnerEndsKeeps, RestartKeeps DEF Next

\* The invariant holds in every state that decisions, applications and restarts reach.
THEOREM Applications == Spec => []ApplyInv
BY InitApply, NextApply, PTL DEF Spec

-----------------------------------------------------------------------------
(* The theorems.                                                           *)

\* For any number of callers, at most one applies the patch, under an open claim and an
\* approval that is not used, and only an approved patch touches the repository.
THEOREM PatchAppliedOnce == Spec => []AppliedOnce
<1>1. ASSUME ApplyInv
      PROVE  AppliedOnce
  <2>1. Cardinality(Applying) <= 1
    <3>1. CASE Applying = {}
      BY <3>1, FS_EmptySet
    <3>2. ASSUME NEW c \in Applying
          PROVE  Cardinality(Applying) <= 1
      <4>1. \A d \in Applying : d = c
        BY <1>1 DEF ApplyInv, OneApplies
      <4> QED
        <5>1. Applying = {c}
          BY <3>2, <4>1
        <5>2. Cardinality({c}) = 1
          BY FS_Singleton
        <5> QED
          BY <5>1, <5>2
    <3> QED
      BY <3>1, <3>2
  <2> QED
    BY <1>1, <2>1 DEF ApplyInv, OneApplies, Patched, AppliedOnce
<1> QED
  BY <1>1, Applications, PTL

\* The receipt says what happened to the repository, for ever, except for a failure after an
\* apply that was cut off or a rollback that failed; and the worktree goes after the receipt
\* of a success and with a completed goal only.
THEOREM ReceiptsAreTrue == Spec => []ReceiptIsTrue
<1>1. ASSUME ApplyInv
      PROVE  ReceiptIsTrue
  <2>1. receipt # None => Applying = {}
    BY <1>1 DEF ApplyInv, OneApplies
  <2>2. ASSUME NEW c \in Callers, call[c].at \in {"restore", "finish"}
        PROVE  c \in Applying
    BY <1>1, <2>2 DEF ApplyInv, Located, Applying, Executing
  <2>3. receipt = "failure" => repo = "before" \/ torn \/ unrestored
    BY <1>1, <2>1, <2>2, ApplyAssumption DEF ApplyInv, Patched
  <2> QED
    BY <1>1, <2>3 DEF ApplyInv, Patched, Cleaned, ReceiptIsTrue
<1> QED
  BY <1>1, Applications, PTL
=============================================================================
