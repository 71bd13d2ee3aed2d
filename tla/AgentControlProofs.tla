-------------------------- MODULE AgentControlProofs --------------------------
(***************************************************************************)
(* Proofs about AgentControl: for any tree of agents and any number of     *)
(* failing calls, dropped spawns and crashes, ended runs leave behind only *)
(* what a failure left, receipts are true, the recovery reclaims what it   *)
(* looks at, a resource moves only with its budget, and the stored         *)
(* statuses implement AgentLifecycle.                                      *)
(***************************************************************************)
EXTENDS AgentControl, TLAPS

\* The types of a row and of a run.
RowType == [status : {None} \cup Open \cup Ended,
            decision : {None, "Interrupt", "Finalize", "Resume"},
            leases : 0..Labels, budget : {"none", "open", "closed", "transferred"},
            receipts : SUBSET Outcomes]
RunType == [at : At, lease : BOOLEAN, proc : BOOLEAN, op : {None, "Created", "Running", "Ended"},
            live : BOOLEAN, token : BOOLEAN, res : {"none", "child", "parent", "ended"},
            covers : BOOLEAN, accepted : BOOLEAN,
            outcome : {None} \cup Outcomes, terminal : {None} \cup Outcomes]

\* Where an agent has nothing in memory, not yet or not any more.
Forgotten == Recovering \cup {"none", "lost", "gone"}

Blank(a) ==
  /\ ~run[a].lease /\ ~run[a].proc /\ run[a].op = None /\ ~run[a].live /\ ~run[a].token
  /\ run[a].res = "none" /\ ~run[a].covers /\ ~run[a].accepted
  /\ run[a].outcome = None /\ run[a].terminal = None

\* The places of a daemon that is up, and of one that recovers.
Awake(a) ==
  /\ up => run[a].at \notin Recovering \cup {"lost"}
  /\ ~up => run[a].at \in Forgotten
  /\ run[a].at \in Forgotten => Blank(a)

\* The agent has a thing only if something left it.
Gone(a, x) == Has(a, x) => x \in left[a]

\* The stored status follows the task.
Recorded(a) ==
  /\ run[a].at = "none" => row[a] = NoRow
  /\ run[a].at \in {"reserved", "vault"} \cup Undoing => row[a].status = None
  /\ run[a].at \in {"rowed", "live", "start", "startfailed", "mark"} => row[a].status = "Queued"
  /\ run[a].at \in {"marked", "run", "finish", "record"} => row[a].status = "Running"
  /\ run[a].at \in (Settling \ {"finish", "record"}) \cup {"teardown", "revoke", "dropped", "over"} =>
       Gone(a, "row")
  /\ run[a].at \in {"decide", "interrupt"} => row[a].status \in Open
  /\ run[a].at \in {"reclaim", "reclaimLeases", "reclaimReceipt", "gone"} =>
       row[a].status \notin Open
  /\ run[a].at = "decide" => row[a].decision = None
  /\ run[a].at \in {"finish", "record"} => run[a].outcome \in Outcomes
  /\ run[a].at \in Settling \ {"remove"} => run[a].terminal \in Outcomes
  /\ row[a].decision \in {None, "Interrupt"}

\* The process and the operation end before the task does, and the live run with it.
Ending(a) ==
  /\ run[a].at \in {"reserved", "vault", "rowed"} \cup Undoing => ~run[a].live
  /\ run[a].at \in (Settling \ {"finish", "record", "terminate"})
                     \cup {"undone", "revoke", "dropped", "over"} =>
       Gone(a, "process") /\ Gone(a, "operation")
  /\ run[a].at \in {"dropped", "over"} => Gone(a, "live")

\* The resource ends or moves before the leases are released.
Resourced(a) ==
  /\ run[a].at \in {"quiesce", "unquiet", "transfer", "flush"} => hardened
  /\ run[a].at = "giveup" \/ (run[a].at = "admission" /\ ~hardened) => run[a].res # "child"
  /\ run[a].at \in {"leases", "plain", "receipt", "remove", "dropped", "over"} => Gone(a, "resource")
  /\ run[a].at \in Spawning \cup Undoing \cup Failing \cup {"start", "mark", "marked"} =>
       run[a].res = "none"
  /\ run[a].covers => Parent[a] # None
  /\ run[a].res = "parent" \/ run[a].accepted =>
       a \in Survivors /\ Parent[a] # None /\ row[a].budget = "transferred"

\* An open reservation is in the admission lease, or a failing revoke took it out.
Reserved(a) ==
  /\ run[a].at \notin Forgotten /\ row[a].budget = "open" => run[a].lease \/ "budget" \in left[a]
  /\ run[a].at = "over" => ~run[a].lease
  /\ run[a].at \in {"reclaimLeases", "reclaimReceipt"} => row[a].budget # "open"
  /\ run[a].at = "lost" /\ Unlisted(a) => a \in late
  /\ run[a].at = "gone" /\ hardened /\ row[a].budget = "open" => a \in late

\* While the terminal is not a failure, what the settlement has passed is done; a receipt
\* comes last, and what it vouches for stays.
Vouched(a) ==
  /\ run[a].at \in {"resources", "leases", "receipt"} /\ run[a].terminal # "Failed" =>
       row[a].budget # "open"
  /\ run[a].at \in {"leases", "receipt"} /\ run[a].terminal # "Failed" => run[a].res # "child"
  /\ run[a].at = "receipt" /\ run[a].terminal # "Failed" => row[a].leases = 0
  /\ row[a].receipts # {} =>
       run[a].at \in Recovering \cup {"remove", "dropped", "over", "lost", "gone"}
  /\ row[a].receipts \ {"Failed"} # {} =>
       row[a].leases = 0 /\ row[a].budget # "open" /\ run[a].res # "child"

\* The leases are put last and released, or left, before the task ends.
Leased(a) ==
  /\ run[a].at \in {"reserved", "vault"} \cup Undoing => row[a].leases = 0
  /\ run[a].at \in {"teardown", "revoke", "receipt", "remove", "dropped", "over",
                    "reclaimReceipt"} => Gone(a, "leases")
  /\ row[a].receipts # {} => Gone(a, "leases")

AgentInv(a) ==
  Awake(a) /\ Recorded(a) /\ Ending(a) /\ Resourced(a) /\ Reserved(a) /\ Vouched(a) /\ Leased(a)

\* The inductive invariant.
ControlInv == TypeOK /\ \A a \in Agents : AgentInv(a)

-----------------------------------------------------------------------------
(* Types, and the agents that a step does not touch.                       *)

\* Rows and runs have their types.
LEMMA Types ==
  ASSUME TypeOK
  PROVE  row \in [Agents -> RowType] /\ run \in [Agents -> RunType]
BY DEF TypeOK, RowType, RunType

\* Revoking a reservation changes no type, and no other field of the row.
LEMMA RevokedType ==
  ASSUME row \in [Agents -> RowType], NEW a \in Agents
  PROVE  /\ Revoked(a) \in [Agents -> RowType]
         /\ \A b \in Agents : b # a => Revoked(a)[b] = row[b]
         /\ Revoked(a)[a].status = row[a].status /\ Revoked(a)[a].decision = row[a].decision
         /\ Revoked(a)[a].leases = row[a].leases /\ Revoked(a)[a].receipts = row[a].receipts
         /\ Revoked(a)[a].budget # "open"
         /\ row[a].budget # "open" => Revoked(a)[a].budget = row[a].budget
BY DEF Revoked, RowType

\* What the invariant says of an agent is about its own row and run, and what is left of it.
LEMMA OthersKeep ==
  ASSUME ControlInv, NEW b \in Agents, run'[b] = run[b], row'[b] = row[b],
         UNCHANGED <<hardened, up, late>>, left[b] \subseteq left'[b]
  PROVE  AgentInv(b)'
<1>1. AgentInv(b)
  BY DEF ControlInv
<1>2. \A x \in Things : Gone(b, x) => Gone(b, x)'
  BY DEF Gone, Has
<1>3. Awake(b)' /\ Recorded(b)' /\ Ending(b)'
  BY <1>1, <1>2 DEF AgentInv, Awake, Blank, Recorded, Ending, Things, NoRow
<1>4. Resourced(b)' /\ Reserved(b)' /\ Vouched(b)' /\ Leased(b)'
  BY <1>1, <1>2 DEF AgentInv, Resourced, Reserved, Vouched, Leased, Things, Unlisted
<1> QED
  BY <1>3, <1>4 DEF AgentInv

\* The step is one of agent a alone.
Alone(a) ==
  /\ \A b \in Agents : b # a => run'[b] = run[b] /\ row'[b] = row[b]
  /\ UNCHANGED <<hardened, up, crashes, late>> /\ faults' \in 0..MaxFaults
  /\ left' \in [Agents -> SUBSET Things] /\ \A b \in Agents : left[b] \subseteq left'[b]

\* What is left only grows, and holds what is said to be left.
LEMMA LeavingGrows ==
  ASSUME TypeOK, NEW a \in Agents, NEW things \in SUBSET Things, Leaving(a, things)
  PROVE  /\ left' \in [Agents -> SUBSET Things] /\ \A b \in Agents : left[b] \subseteq left'[b]
         /\ \A x \in things : Gone(a, x)'
<1>1. left \in [Agents -> SUBSET Things]
  BY DEF TypeOK
<1> DEFINE S == {x \in things : Has(a, x)'}
<1>2. S \subseteq Things /\ \A x \in things : Has(a, x)' => x \in S
  OBVIOUS
<1>3. left' = [left EXCEPT ![a] = @ \cup S]
  BY DEF Leaving
<1> HIDE DEF S
<1>4. left' \in [Agents -> SUBSET Things] /\ (\A b \in Agents : left[b] \subseteq left'[b])
        /\ S \subseteq left'[a]
  BY <1>1, <1>2, <1>3
<1>5. \A x \in things : Gone(a, x)'
  BY <1>2, <1>4 DEF Gone
<1> QED
  BY <1>4, <1>5

\* A step of one agent: its types and what the invariant says of it are all there is to show.
LEMMA OneAgent ==
  ASSUME ControlInv, NEW a \in Agents, row' \in [Agents -> RowType], run' \in [Agents -> RunType],
         Alone(a), AgentInv(a)'
  PROVE  ControlInv'
<1> USE DEF Alone
<1>1. TypeOK'
  BY DEF ControlInv, TypeOK, RowType, RunType
<1>2. ASSUME NEW b \in Agents
      PROVE  AgentInv(b)'
  BY OthersKeep
<1> QED
  BY <1>1, <1>2 DEF ControlInv

\* The invariant holds initially.
LEMMA InitControl == Init => ControlInv
<1> SUFFICES ASSUME Init
             PROVE  ControlInv
  OBVIOUS
<1>1. NoRow \in RowType /\ NoRun("none") \in RunType
  BY ControlAssumption DEF NoRow, NoRun, RowType, RunType, At
<1>2. TypeOK
  BY <1>1, ControlAssumption DEF Init, TypeOK, RowType, RunType
<1>3. ASSUME NEW a \in Agents
      PROVE  AgentInv(a)
  BY ControlAssumption
     DEF Init, AgentInv, Awake, Blank, Recorded, Ending, Resourced, Reserved, Vouched, Leased,
         NoRow, NoRun, Forgotten, Recovering, Spawning, Undoing, Failing, Settling
<1> QED
  BY <1>2, <1>3 DEF ControlInv

-----------------------------------------------------------------------------
(* One lemma per action.                                                   *)

\* What a spawn has begun of its process and operation is typed.
LEMMA BegunType ==
  ASSUME run \in [Agents -> RunType], NEW a \in Agents, NEW begun \in Begun(a)
  PROVE  begun[1] \in BOOLEAN /\ begun[2] \in {None, "Created", "Running", "Ended"}
<1>1. CASE run[a].at = "reserved"
  <2>1. begun = <<FALSE, None>> \/ begun = <<TRUE, None>> \/ begun = <<TRUE, "Created">>
    BY <1>1 DEF Begun
  <2>2. CASE begun = <<FALSE, None>>
    <3>1. begun[1] = FALSE /\ begun[2] = None
      BY <2>2
    <3> QED
      BY <3>1
  <2>3. CASE begun = <<TRUE, None>>
    <3>1. begun[1] = TRUE /\ begun[2] = None
      BY <2>3
    <3> QED
      BY <3>1
  <2>4. CASE begun = <<TRUE, "Created">>
    <3>1. begun[1] = TRUE /\ begun[2] = "Created"
      BY <2>4
    <3> QED
      BY <3>1
  <2> QED
    BY <2>1, <2>2, <2>3, <2>4
<1>2. CASE run[a].at # "reserved"
  <2>1. begun = <<run[a].proc, run[a].op>>
    BY <1>2 DEF Begun
  <2>2. begun[1] = run[a].proc /\ begun[2] = run[a].op
    BY <2>1
  <2>3. run[a] \in RunType
    OBVIOUS
  <2> QED
    BY <2>2, <2>3 DEF RunType
<1> QED
  BY <1>1, <1>2

\* A spawn opens the reservation of an agent that has none.
LEMMA ReserveKeeps ==
  ASSUME ControlInv, NEW a \in Agents, Reserve(a)
  PROVE  ControlInv'
<1> USE ControlAssumption
<1>1. /\ TypeOK /\ row \in [Agents -> RowType] /\ run \in [Agents -> RunType]
      /\ run[a] \in RunType /\ row[a] \in RowType /\ AgentInv(a)
  BY Types DEF ControlInv
<1>2. {"none", "reserved"} \subseteq At
  BY DEF At, Settling, Spawning, Undoing, Failing, Recovering
<1>3. run' \in [Agents -> RunType]
  BY <1>1, <1>2 DEF RunType, Outcomes, Reserve, history
<1>4. row' \in [Agents -> RowType]
  BY <1>1 DEF RowType, Reserve, history
<1>5. Alone(a)
  BY <1>1 DEF Alone, TypeOK, Reserve, history
<1>6. /\ up /\ run[a].at = "none" /\ row[a] = NoRow /\ Blank(a)
      /\ UNCHANGED <<hardened, up, late>> /\ run'[a].at = "reserved" /\ run'[a].lease = TRUE
      /\ row'[a].budget = "open" /\ run'[a].proc = run[a].proc /\ run'[a].op = run[a].op
      /\ run'[a].live = run[a].live /\ run'[a].token = run[a].token /\ run'[a].res = run[a].res
      /\ run'[a].covers = run[a].covers /\ run'[a].accepted = run[a].accepted
      /\ run'[a].outcome = run[a].outcome /\ run'[a].terminal = run[a].terminal
      /\ row'[a].status = row[a].status /\ row'[a].decision = row[a].decision
      /\ row'[a].leases = row[a].leases /\ row'[a].receipts = row[a].receipts
  BY <1>1 DEF RunType, RowType, AgentInv, Awake, Recorded, Forgotten, Reserve, history
<1> USE <1>1, <1>6 DEF AgentInv, RunType, RowType, Open, Ended, Outcomes, Settling, Spawning,
        Undoing, Failing, Recovering, Forgotten, NoRow, Blank
<1>7. Awake(a)'
  BY DEF Awake, Blank
<1>8. Recorded(a)'
  BY DEF Recorded, Gone, Has, NoRow
<1>9. Ending(a)'
  BY DEF Ending, Gone, Has, Recorded
<1>10. Resourced(a)'
  BY DEF Resourced, Gone, Has
<1>11. Reserved(a)'
  BY DEF Reserved, Unlisted, Gone, Has, Recorded
<1>12. Vouched(a)'
  BY DEF Vouched, Recorded, NoRow
<1>13. Leased(a)'
  BY DEF Leased, Gone, Has, Recorded, NoRow
<1> QED
  BY <1>3, <1>4, <1>5, <1>7, <1>8, <1>9, <1>10, <1>11, <1>12, <1>13,
     OneAgent DEF AgentInv

\* The kernel's side of a spawn.
LEMMA SetUpKeeps ==
  ASSUME ControlInv, NEW a \in Agents, SetUp(a)
  PROVE  ControlInv'
<1> USE ControlAssumption DEF SetUp, history
<1>1. /\ TypeOK /\ row \in [Agents -> RowType] /\ run \in [Agents -> RunType]
      /\ run[a] \in RunType /\ row[a] \in RowType /\ AgentInv(a)
  BY Types DEF ControlInv
<1>2. {"reserved", "vault"} \subseteq At
  BY DEF At, Settling, Spawning, Undoing, Failing, Recovering
<1>3. run' \in [Agents -> RunType]
  BY <1>1, <1>2 DEF RunType, Outcomes
<1>4. row' \in [Agents -> RowType]
  BY <1>1
<1>5. Alone(a)
  BY <1>1 DEF Alone, TypeOK
<1> USE <1>1 DEF AgentInv, RunType, RowType, Open, Ended, Outcomes, Settling, Spawning, Undoing,
        Failing, Recovering, Forgotten
<1>6. Awake(a)'
  BY DEF Awake, Blank
<1>7. Recorded(a)'
  BY DEF Recorded, Gone, Has, NoRow
<1>8. Ending(a)'
  BY DEF Ending, Gone, Has, Recorded
<1>9. Resourced(a)'
  BY DEF Resourced, Gone, Has
<1>10. Reserved(a)'
  BY DEF Reserved, Unlisted, Gone, Has, Recorded
<1>11. Vouched(a)'
  BY DEF Vouched, Recorded, NoRow
<1>12. Leased(a)'
  BY DEF Leased, Gone, Has, Recorded, NoRow
<1> QED
  BY <1>3, <1>4, <1>5, <1>6, <1>7, <1>8, <1>9, <1>10, <1>11, <1>12,
     OneAgent DEF AgentInv

\* A spawn that fails early has something to undo.
LEMMA SetUpFailsKeeps ==
  ASSUME ControlInv, NEW a \in Agents, SetUpFails(a)
  PROVE  ControlInv'
<1> USE ControlAssumption
<1>1. /\ TypeOK /\ row \in [Agents -> RowType] /\ run \in [Agents -> RunType]
      /\ run[a] \in RunType /\ row[a] \in RowType /\ AgentInv(a)
  BY Types DEF ControlInv
<1>2. {"reserved", "vault", "undo"} \subseteq At
  BY DEF At, Settling, Spawning, Undoing, Failing, Recovering
<1>3. run' \in [Agents -> RunType]
  <2>1. PICK begun \in Begun(a) : run' = [run EXCEPT ![a].at = "undo", ![a].proc = begun[1],
                                                ![a].op = begun[2]]
    BY <1>1 DEF SetUpFails, Begun, Fault, Stays
  <2>2. begun[1] \in BOOLEAN /\ begun[2] \in {None, "Created", "Running", "Ended"}
    BY <1>1, <2>1, BegunType
  <2> QED
    BY <1>1, <1>2, <2>1, <2>2 DEF RunType
<1>4. row' \in [Agents -> RowType]
  BY <1>1 DEF SetUpFails, Begun, Fault, Stays
<1>5. Alone(a)
  BY <1>1 DEF Alone, TypeOK, SetUpFails, Begun, Fault, Stays
<1>6. /\ run[a].at \in {"reserved", "vault"} /\ left' = left /\ UNCHANGED <<hardened, up, late>>
      /\ run'[a].at = "undo" /\ run'[a].proc \in BOOLEAN
      /\ run'[a].op \in {None, "Created", "Running", "Ended"} /\ run'[a].lease = run[a].lease
      /\ run'[a].live = run[a].live /\ run'[a].token = run[a].token /\ run'[a].res = run[a].res
      /\ run'[a].covers = run[a].covers /\ run'[a].accepted = run[a].accepted
      /\ run'[a].outcome = run[a].outcome /\ run'[a].terminal = run[a].terminal
      /\ row'[a].status = row[a].status /\ row'[a].decision = row[a].decision
      /\ row'[a].leases = row[a].leases /\ row'[a].budget = row[a].budget
      /\ row'[a].receipts = row[a].receipts
  <2>1. run'[a] \in RunType
    BY <1>3
  <2> QED
    BY <1>1, <2>1 DEF RunType, RowType, SetUpFails, Begun, Fault, Stays
<1> USE <1>1, <1>6 DEF AgentInv, RunType, RowType, Open, Ended, Outcomes, Settling, Spawning,
        Undoing, Failing, Recovering, Forgotten
<1>7. Awake(a)'
  BY DEF Awake, Blank
<1>8. Recorded(a)'
  BY DEF Recorded, Gone, Has, NoRow
<1>9. Ending(a)'
  BY DEF Ending, Gone, Has, Recorded
<1>10. Resourced(a)'
  BY DEF Resourced, Gone, Has
<1>11. Reserved(a)'
  BY DEF Reserved, Unlisted, Gone, Has, Recorded
<1>12. Vouched(a)'
  BY DEF Vouched, Recorded, NoRow
<1>13. Leased(a)'
  BY DEF Leased, Gone, Has, Recorded, NoRow
<1> QED
  BY <1>3, <1>4, <1>5, <1>7, <1>8, <1>9, <1>10, <1>11, <1>12, <1>13,
     OneAgent DEF AgentInv

\* The process of a failed spawn ends, or the failing call leaves it.
LEMMA UndoKeeps ==
  ASSUME ControlInv, NEW a \in Agents, Undo(a)
  PROVE  ControlInv'
<1> USE ControlAssumption DEF Undo, EndProcess, Unended, Cancelled, Fault, Stays
<1>1. /\ TypeOK /\ row \in [Agents -> RowType] /\ run \in [Agents -> RunType]
      /\ run[a] \in RunType /\ row[a] \in RowType /\ AgentInv(a)
  BY Types DEF ControlInv
<1>2. {"undo", "undone"} \subseteq At
  BY DEF At, Settling, Spawning, Undoing, Failing, Recovering
<1>3. run' \in [Agents -> RunType]
  BY <1>1, <1>2 DEF RunType, Outcomes
<1>4. row' \in [Agents -> RowType]
  BY <1>1
<1>5. /\ left' \in [Agents -> SUBSET Things] /\ \A b \in Agents : left[b] \subseteq left'[b]
      /\ Leaving(a, {"process", "operation"}) => \A x \in {"process", "operation"} : Gone(a, x)'
  BY <1>1, LeavingGrows DEF TypeOK, Things
<1>6. Alone(a)
  BY <1>1, <1>5 DEF Alone, TypeOK
<1> USE <1>1, <1>5 DEF AgentInv, RunType, RowType, Open, Ended, Outcomes, Settling, Spawning,
        Undoing, Failing, Recovering, Forgotten
<1>7. Awake(a)'
  BY DEF Awake, Blank
<1>8. Recorded(a)'
  BY DEF Recorded, Gone, Has, NoRow
<1>9. Ending(a)'
  BY DEF Ending, Gone, Has, Recorded
<1>10. Resourced(a)'
  BY DEF Resourced, Gone, Has
<1>11. Reserved(a)'
  BY DEF Reserved, Unlisted, Gone, Has, Recorded
<1>12. Vouched(a)'
  BY DEF Vouched, Recorded, NoRow
<1>13. Leased(a)'
  BY DEF Leased, Gone, Has, Recorded, NoRow
<1> QED
  BY <1>3, <1>4, <1>6, <1>7, <1>8, <1>9, <1>10, <1>11, <1>12, <1>13,
     OneAgent DEF AgentInv

\* A failed spawn gives its reservation back.
LEMMA UndoRevokeKeeps ==
  ASSUME ControlInv, NEW a \in Agents, UndoRevoke(a)
  PROVE  ControlInv'
<1> USE ControlAssumption DEF UndoRevoke, RevokeLease, Fault, Stays
<1>1. /\ TypeOK /\ row \in [Agents -> RowType] /\ run \in [Agents -> RunType]
      /\ run[a] \in RunType /\ row[a] \in RowType /\ AgentInv(a)
  BY Types DEF ControlInv
<1>2. {"undone", "over"} \subseteq At
  BY DEF At, Settling, Spawning, Undoing, Failing, Recovering
<1>3. run' \in [Agents -> RunType]
  BY <1>1, <1>2 DEF RunType, Outcomes
<1>4. row' \in [Agents -> RowType]
  BY <1>1, RevokedType
<1>5. /\ left' \in [Agents -> SUBSET Things] /\ \A b \in Agents : left[b] \subseteq left'[b]
      /\ Leaving(a, {"budget"}) => \A x \in {"budget"} : Gone(a, x)'
  BY <1>1, LeavingGrows DEF TypeOK, Things
<1>6. Alone(a)
  BY <1>1, <1>5, RevokedType DEF Alone, TypeOK
<1> USE <1>1, <1>5, RevokedType DEF AgentInv, RunType, RowType, Open, Ended, Outcomes, Settling,
        Spawning, Undoing, Failing, Recovering, Forgotten
<1>7. Awake(a)'
  BY DEF Awake, Blank
<1>8. Recorded(a)'
  BY DEF Recorded, Gone, Has, NoRow
<1>9. Ending(a)'
  BY DEF Ending, Gone, Has, Recorded
<1>10. Resourced(a)'
  BY DEF Resourced, Gone, Has
<1>11. Reserved(a)'
  BY DEF Reserved, Unlisted, Gone, Has, Recorded
<1>12. Vouched(a)'
  BY DEF Vouched, Recorded, NoRow
<1>13. Leased(a)'
  BY DEF Leased, Gone, Has, Recorded, NoRow
<1> QED
  BY <1>3, <1>4, <1>6, <1>7, <1>8, <1>9, <1>10, <1>11, <1>12, <1>13,
     OneAgent DEF AgentInv

\* A spawn whose registration fails is left to its lease.
LEMMA RegisterFailsKeeps ==
  ASSUME ControlInv, NEW a \in Agents, RegisterFails(a)
  PROVE  ControlInv'
<1> USE ControlAssumption DEF RegisterFails, Fault, Stays
<1>1. /\ TypeOK /\ row \in [Agents -> RowType] /\ run \in [Agents -> RunType]
      /\ run[a] \in RunType /\ row[a] \in RowType /\ AgentInv(a)
  BY Types DEF ControlInv
<1>2. {"reserved", "dropped"} \subseteq At
  BY DEF At, Settling, Spawning, Undoing, Failing, Recovering
<1>3. run' \in [Agents -> RunType]
  BY <1>1, <1>2 DEF RunType, Outcomes
<1>4. row' \in [Agents -> RowType]
  BY <1>1
<1>5. /\ left' \in [Agents -> SUBSET Things] /\ \A b \in Agents : left[b] \subseteq left'[b]
      /\ Leaving(a, {"process", "operation"}) => \A x \in {"process", "operation"} : Gone(a, x)'
  BY <1>1, LeavingGrows DEF TypeOK, Things
<1>6. Alone(a)
  BY <1>1, <1>5 DEF Alone, TypeOK
<1> USE <1>1, <1>5 DEF AgentInv, RunType, RowType, Open, Ended, Outcomes, Settling, Spawning,
        Undoing, Failing, Recovering, Forgotten
<1>7. Awake(a)'
  BY DEF Awake, Blank
<1>8. Recorded(a)'
  BY DEF Recorded, Gone, Has, NoRow
<1>9. Ending(a)'
  BY DEF Ending, Gone, Has, Recorded
<1>10. Resourced(a)'
  BY DEF Resourced, Gone, Has
<1>11. Reserved(a)'
  BY DEF Reserved, Unlisted, Gone, Has, Recorded
<1>12. Vouched(a)'
  BY DEF Vouched, Recorded, NoRow
<1>13. Leased(a)'
  BY DEF Leased, Gone, Has, Recorded, NoRow
<1> QED
  BY <1>3, <1>4, <1>6, <1>7, <1>8, <1>9, <1>10, <1>11, <1>12, <1>13,
     OneAgent DEF AgentInv

\* The row is created once.
LEMMA CreateRowKeeps ==
  ASSUME ControlInv, NEW a \in Agents, CreateRow(a)
  PROVE  ControlInv'
<1> USE ControlAssumption DEF CreateRow, Step, Goto, history
<1>1. /\ TypeOK /\ row \in [Agents -> RowType] /\ run \in [Agents -> RunType]
      /\ run[a] \in RunType /\ row[a] \in RowType /\ AgentInv(a)
  BY Types DEF ControlInv
<1>2. {"vault", "rowed"} \subseteq At
  BY DEF At, Settling, Spawning, Undoing, Failing, Recovering
<1>3. run' \in [Agents -> RunType]
  BY <1>1, <1>2 DEF RunType, Outcomes
<1>4. row' \in [Agents -> RowType]
  BY <1>1 DEF RowType, Open
<1>5. Alone(a)
  BY <1>1 DEF Alone, TypeOK
<1> USE <1>1 DEF AgentInv, RunType, RowType, Open, Ended, Outcomes, Settling, Spawning, Undoing,
        Failing, Recovering, Forgotten
<1>6. Awake(a)'
  BY DEF Awake, Blank
<1>7. Recorded(a)'
  BY DEF Recorded, Gone, Has, NoRow
<1>8. Ending(a)'
  BY DEF Ending, Gone, Has, Recorded
<1>9. Resourced(a)'
  BY DEF Resourced, Gone, Has
<1>10. Reserved(a)'
  BY DEF Reserved, Unlisted, Gone, Has, Recorded
<1>11. Vouched(a)'
  BY DEF Vouched, Recorded, NoRow
<1>12. Leased(a)'
  BY DEF Leased, Gone, Has, Recorded, NoRow
<1> QED
  BY <1>3, <1>4, <1>5, <1>6, <1>7, <1>8, <1>9, <1>10, <1>11, <1>12,
     OneAgent DEF AgentInv

\* A resource lease is stored, or the spawn is given up.
LEMMA PutLeaseKeeps ==
  ASSUME ControlInv, NEW a \in Agents, PutLease(a)
  PROVE  ControlInv'
<1> USE ControlAssumption
<1>1. /\ TypeOK /\ row \in [Agents -> RowType] /\ run \in [Agents -> RunType]
      /\ run[a] \in RunType /\ row[a] \in RowType /\ AgentInv(a)
  BY Types DEF ControlInv
<1>2. {"rowed", "dropped"} \subseteq At
  BY DEF At, Settling, Spawning, Undoing, Failing, Recovering
<1>3. run' \in [Agents -> RunType]
  BY <1>1, <1>2 DEF RunType, Outcomes, PutLease, Step, Goto, Fault, Stays, history
<1>4. row' \in [Agents -> RowType]
  <2>1. row[a].leases < Labels => [row[a] EXCEPT !.leases = row[a].leases + 1] \in RowType
    BY <1>1 DEF RowType, PutLease, Step, Goto, Fault, Stays, history
  <2> QED
    BY <1>1, <2>1 DEF PutLease, Step, Goto, Fault, Stays, history
<1>5. /\ left' \in [Agents -> SUBSET Things] /\ \A b \in Agents : left[b] \subseteq left'[b]
      /\ Leaving(a, Things \ {"budget"}) => \A x \in Things \ {"budget"} : Gone(a, x)'
  BY <1>1, LeavingGrows DEF TypeOK, Things, PutLease, Step, Goto, Fault, Stays, history
<1>6. Alone(a)
  BY <1>1, <1>5 DEF Alone, TypeOK, PutLease, Step, Goto, Fault, Stays, history
<1>7. /\ run[a].at = "rowed" /\ UNCHANGED <<hardened, up, late>> /\ run'[a].lease = run[a].lease
      /\ run'[a].proc = run[a].proc /\ run'[a].op = run[a].op /\ run'[a].live = run[a].live
      /\ run'[a].token = run[a].token /\ run'[a].res = run[a].res
      /\ run'[a].covers = run[a].covers /\ run'[a].accepted = run[a].accepted
      /\ run'[a].outcome = run[a].outcome /\ run'[a].terminal = run[a].terminal
      /\ row'[a].status = row[a].status /\ row'[a].decision = row[a].decision
      /\ row'[a].budget = row[a].budget /\ row'[a].receipts = row[a].receipts
      /\ \/ /\ run'[a].at = "rowed" /\ row'[a].leases = row[a].leases + 1
         \/ /\ run'[a].at = "dropped" /\ row'[a].leases = row[a].leases
            /\ Leaving(a, Things \ {"budget"})
  BY <1>1 DEF RunType, RowType, PutLease, Step, Goto, Fault, Stays, history
<1> USE <1>1, <1>5, <1>7 DEF AgentInv, RunType, RowType, Open, Ended, Outcomes, Settling,
        Spawning, Undoing, Failing, Recovering, Forgotten, Things
<1>8. Awake(a)'
  BY DEF Awake, Blank
<1>9. Recorded(a)'
  BY DEF Recorded, Gone, Has, NoRow
<1>10. Ending(a)'
  BY DEF Ending, Gone, Has, Recorded
<1>11. Resourced(a)'
  BY DEF Resourced, Gone, Has
<1>12. Reserved(a)'
  BY DEF Reserved, Unlisted, Gone, Has, Recorded
<1>13. Vouched(a)'
  BY DEF Vouched, Recorded, NoRow
<1>14. Leased(a)'
  BY DEF Leased, Vouched, Gone, Has
<1> QED
  BY <1>3, <1>4, <1>6, <1>8, <1>9, <1>10, <1>11, <1>12, <1>13, <1>14,
     OneAgent DEF AgentInv

\* The run is registered.
LEMMA GoLiveKeeps ==
  ASSUME ControlInv, NEW a \in Agents, GoLive(a)
  PROVE  ControlInv'
<1> USE ControlAssumption DEF GoLive, history
<1>1. /\ TypeOK /\ row \in [Agents -> RowType] /\ run \in [Agents -> RunType]
      /\ run[a] \in RunType /\ row[a] \in RowType /\ AgentInv(a)
  BY Types DEF ControlInv
<1>2. {"rowed", "live"} \subseteq At
  BY DEF At, Settling, Spawning, Undoing, Failing, Recovering
<1>3. run' \in [Agents -> RunType]
  BY <1>1, <1>2 DEF RunType, Outcomes
<1>4. row' \in [Agents -> RowType]
  BY <1>1
<1>5. Alone(a)
  BY <1>1 DEF Alone, TypeOK
<1> USE <1>1 DEF AgentInv, RunType, RowType, Open, Ended, Outcomes, Settling, Spawning, Undoing,
        Failing, Recovering, Forgotten
<1>6. Awake(a)'
  BY DEF Awake, Blank
<1>7. Recorded(a)'
  BY DEF Recorded, Gone, Has, NoRow
<1>8. Ending(a)'
  BY DEF Ending, Gone, Has, Recorded
<1>9. Resourced(a)'
  BY DEF Resourced, Gone, Has
<1>10. Reserved(a)'
  BY DEF Reserved, Unlisted, Gone, Has, Recorded
<1>11. Vouched(a)'
  BY DEF Vouched, Recorded, NoRow
<1>12. Leased(a)'
  BY DEF Leased, Gone, Has, Recorded, NoRow
<1> QED
  BY <1>3, <1>4, <1>5, <1>6, <1>7, <1>8, <1>9, <1>10, <1>11, <1>12,
     OneAgent DEF AgentInv

\* A refused handoff leaves the row to a restart.
LEMMA BindFailsKeeps ==
  ASSUME ControlInv, NEW a \in Agents, BindFails(a)
  PROVE  ControlInv'
<1> USE ControlAssumption DEF BindFails, Cancelled, Unended, Fault, Stays
<1>1. /\ TypeOK /\ row \in [Agents -> RowType] /\ run \in [Agents -> RunType]
      /\ run[a] \in RunType /\ row[a] \in RowType /\ AgentInv(a)
  BY Types DEF ControlInv
<1>2. {"live", "dropped"} \subseteq At
  BY DEF At, Settling, Spawning, Undoing, Failing, Recovering
<1>3. run' \in [Agents -> RunType]
  BY <1>1, <1>2 DEF RunType, Outcomes
<1>4. row' \in [Agents -> RowType]
  BY <1>1
<1>5. /\ left' \in [Agents -> SUBSET Things] /\ \A b \in Agents : left[b] \subseteq left'[b]
      /\ Leaving(a, Things \ {"budget"}) => \A x \in Things \ {"budget"} : Gone(a, x)'
  BY <1>1, LeavingGrows DEF TypeOK, Things
<1>6. Alone(a)
  BY <1>1, <1>5 DEF Alone, TypeOK
<1> USE <1>1, <1>5 DEF AgentInv, RunType, RowType, Open, Ended, Outcomes, Settling, Spawning,
        Undoing, Failing, Recovering, Forgotten, Things
<1>7. Awake(a)'
  BY DEF Awake, Blank
<1>8. Recorded(a)'
  BY DEF Recorded, Gone, Has, NoRow
<1>9. Ending(a)'
  BY DEF Ending, Gone, Has, Recorded
<1>10. Resourced(a)'
  BY DEF Resourced, Gone, Has
<1>11. Reserved(a)'
  BY DEF Reserved, Unlisted, Gone, Has, Recorded
<1>12. Vouched(a)'
  BY DEF Vouched, Recorded, NoRow
<1>13. Leased(a)'
  BY DEF Leased, Gone, Has, Recorded, NoRow
<1> QED
  BY <1>3, <1>4, <1>6, <1>7, <1>8, <1>9, <1>10, <1>11, <1>12, <1>13,
     OneAgent DEF AgentInv

\* The task starts.
LEMMA LaunchKeeps ==
  ASSUME ControlInv, NEW a \in Agents, Launch(a)
  PROVE  ControlInv'
<1> USE ControlAssumption DEF Launch, Step, Goto, history
<1>1. /\ TypeOK /\ row \in [Agents -> RowType] /\ run \in [Agents -> RunType]
      /\ run[a] \in RunType /\ row[a] \in RowType /\ AgentInv(a)
  BY Types DEF ControlInv
<1>2. {"live", "start"} \subseteq At
  BY DEF At, Settling, Spawning, Undoing, Failing, Recovering
<1>3. run' \in [Agents -> RunType]
  BY <1>1, <1>2 DEF RunType, Outcomes
<1>4. row' \in [Agents -> RowType]
  BY <1>1
<1>5. Alone(a)
  BY <1>1 DEF Alone, TypeOK
<1> USE <1>1 DEF AgentInv, RunType, RowType, Open, Ended, Outcomes, Settling, Spawning, Undoing,
        Failing, Recovering, Forgotten
<1>6. Awake(a)'
  BY DEF Awake, Blank
<1>7. Recorded(a)'
  BY DEF Recorded, Gone, Has, NoRow
<1>8. Ending(a)'
  BY DEF Ending, Gone, Has, Recorded
<1>9. Resourced(a)'
  BY DEF Resourced, Gone, Has
<1>10. Reserved(a)'
  BY DEF Reserved, Unlisted, Gone, Has, Recorded
<1>11. Vouched(a)'
  BY DEF Vouched, Recorded, NoRow
<1>12. Leased(a)'
  BY DEF Leased, Gone, Has, Recorded, NoRow
<1> QED
  BY <1>3, <1>4, <1>5, <1>6, <1>7, <1>8, <1>9, <1>10, <1>11, <1>12,
     OneAgent DEF AgentInv

\* A dropped spawn leaves what it has, and its reservation to its lease.
LEMMA DropSpawnKeeps ==
  ASSUME ControlInv, NEW a \in Agents, DropSpawn(a)
  PROVE  ControlInv'
<1> USE ControlAssumption
<1>1. /\ TypeOK /\ row \in [Agents -> RowType] /\ run \in [Agents -> RunType]
      /\ run[a] \in RunType /\ row[a] \in RowType /\ AgentInv(a)
  BY Types DEF ControlInv
<1>2. {"reserved", "vault", "rowed", "live", "undo", "undone", "dropped", "over"} \subseteq At
  BY DEF At, Settling, Spawning, Undoing, Failing, Recovering
<1>3. run' \in [Agents -> RunType]
  <2>1. PICK begun \in Begun(a) : run' = [run EXCEPT 
          ![a].at = IF @ = "undone" THEN "over" ELSE "dropped", ![a].lease = run[a].at # "undone",
          ![a].proc = begun[1], ![a].op = begun[2]]
    BY <1>1 DEF DropSpawn, Begun, Fault, Stays
  <2>2. begun[1] \in BOOLEAN /\ begun[2] \in {None, "Created", "Running", "Ended"}
    BY <1>1, <2>1, BegunType
  <2>3. CASE run[a].at = "undone"
    <3>1. run' = [run EXCEPT ![a].at = "over", ![a].lease = FALSE,
                             ![a].proc = begun[1], ![a].op = begun[2]]
      BY <1>1, <2>1, <2>3
    <3> QED
      BY <1>1, <1>2, <2>2, <3>1 DEF RunType
  <2>4. CASE run[a].at # "undone"
    <3>1. run' = [run EXCEPT ![a].at = "dropped", ![a].lease = TRUE,
                             ![a].proc = begun[1], ![a].op = begun[2]]
      BY <1>1, <2>1, <2>4
    <3> QED
      BY <1>1, <1>2, <2>2, <3>1 DEF RunType
  <2> QED
    BY <2>3, <2>4
<1>4. row' \in [Agents -> RowType]
  BY <1>1 DEF DropSpawn, Begun, Fault, Stays
<1>5. /\ left' \in [Agents -> SUBSET Things] /\ \A b \in Agents : left[b] \subseteq left'[b]
      /\ Leaving(a, Things) => \A x \in Things : Gone(a, x)'
      /\ Leaving(a, Things \ {"budget"}) => \A x \in Things \ {"budget"} : Gone(a, x)'
  <2>1. Leaving(a, Things) \/ Leaving(a, Things \ {"budget"})
    <3>1. CASE run[a].at = "undone"
      BY <3>1 DEF DropSpawn, Begun, Fault, Stays
    <3>2. CASE run[a].at # "undone"
      BY <3>2 DEF DropSpawn, Begun, Fault, Stays
    <3> QED
      BY <3>1, <3>2
  <2> QED
    BY <1>1, <2>1, LeavingGrows
<1>6. Alone(a)
  BY <1>1, <1>5 DEF Alone, TypeOK, DropSpawn, Begun, Fault, Stays
<1>7. /\ run[a].at \in {"reserved", "vault", "rowed", "live", "undo", "undone"}
      /\ UNCHANGED <<hardened, up, late>> /\ run'[a].proc \in BOOLEAN
      /\ run'[a].op \in {None, "Created", "Running", "Ended"} /\ run'[a].live = run[a].live
      /\ run'[a].token = run[a].token /\ run'[a].res = run[a].res
      /\ run'[a].covers = run[a].covers /\ run'[a].accepted = run[a].accepted
      /\ run'[a].outcome = run[a].outcome /\ run'[a].terminal = run[a].terminal
      /\ row'[a].status = row[a].status /\ row'[a].decision = row[a].decision
      /\ row'[a].leases = row[a].leases /\ row'[a].budget = row[a].budget
      /\ row'[a].receipts = row[a].receipts
      /\ \/ /\ run[a].at # "undone" /\ run'[a].at = "dropped" /\ run'[a].lease = TRUE
            /\ Leaving(a, Things \ {"budget"})
         \/ /\ run[a].at = "undone" /\ run'[a].at = "over" /\ run'[a].lease = FALSE
            /\ Leaving(a, Things)
  <2>1. run'[a] \in RunType
    BY <1>3 DEF DropSpawn, Begun, Fault, Stays
  <2> QED
    BY <1>1, <2>1 DEF RunType, RowType, Spawning, Undoing, DropSpawn, Begun, Fault, Stays
<1> USE <1>1, <1>5, <1>7 DEF AgentInv, RunType, RowType, Open, Ended, Outcomes, Settling,
        Spawning, Undoing, Failing, Recovering, Forgotten, Things
<1>8. Awake(a)'
  BY DEF Awake, Blank
<1>9. Recorded(a)'
  BY DEF Recorded, Gone, Has, NoRow
<1>10. Ending(a)'
  BY DEF Ending, Gone, Has, Recorded
<1>11. Resourced(a)'
  BY DEF Resourced, Gone, Has
<1>12. Reserved(a)'
  BY DEF Reserved, Unlisted, Gone, Has, Recorded
<1>13. Vouched(a)'
  BY DEF Vouched, Recorded, NoRow
<1>14. Leased(a)'
  BY DEF Leased, Gone, Has, Recorded, NoRow
<1> QED
  BY <1>3, <1>4, <1>6, <1>8, <1>9, <1>10, <1>11, <1>12, <1>13, <1>14,
     OneAgent DEF AgentInv

\* The task of a dropped lease gives the reservation back.
LEMMA DroppedRevokeKeeps ==
  ASSUME ControlInv, NEW a \in Agents, DroppedRevoke(a)
  PROVE  ControlInv'
<1> USE ControlAssumption DEF DroppedRevoke, RevokeLease, Fault, Stays
<1>1. /\ TypeOK /\ row \in [Agents -> RowType] /\ run \in [Agents -> RunType]
      /\ run[a] \in RunType /\ row[a] \in RowType /\ AgentInv(a)
  BY Types DEF ControlInv
<1>2. {"dropped", "over"} \subseteq At
  BY DEF At, Settling, Spawning, Undoing, Failing, Recovering
<1>3. run' \in [Agents -> RunType]
  BY <1>1, <1>2 DEF RunType, Outcomes
<1>4. row' \in [Agents -> RowType]
  BY <1>1, RevokedType
<1>5. /\ left' \in [Agents -> SUBSET Things] /\ \A b \in Agents : left[b] \subseteq left'[b]
      /\ Leaving(a, {"budget"}) => \A x \in {"budget"} : Gone(a, x)'
  BY <1>1, LeavingGrows DEF TypeOK, Things
<1>6. Alone(a)
  BY <1>1, <1>5, RevokedType DEF Alone, TypeOK
<1> USE <1>1, <1>5, RevokedType DEF AgentInv, RunType, RowType, Open, Ended, Outcomes, Settling,
        Spawning, Undoing, Failing, Recovering, Forgotten
<1>7. Awake(a)'
  BY DEF Awake, Blank
<1>8. Recorded(a)'
  BY DEF Recorded, Gone, Has, NoRow
<1>9. Ending(a)'
  BY DEF Ending, Gone, Has, Recorded
<1>10. Resourced(a)'
  BY DEF Resourced, Gone, Has
<1>11. Reserved(a)'
  BY DEF Reserved, Unlisted, Gone, Has, Recorded
<1>12. Vouched(a)'
  BY DEF Vouched, Recorded, NoRow
<1>13. Leased(a)'
  BY DEF Leased, Gone, Has, Recorded, NoRow
<1> QED
  BY <1>3, <1>4, <1>6, <1>7, <1>8, <1>9, <1>10, <1>11, <1>12, <1>13,
     OneAgent DEF AgentInv

\* A start meets a cancellation, fails, or succeeds.
LEMMA StartKeeps ==
  ASSUME ControlInv, NEW a \in Agents, Start(a)
  PROVE  ControlInv'
<1> USE ControlAssumption DEF Start, Step, Goto, Fault, Stays
<1>1. /\ TypeOK /\ row \in [Agents -> RowType] /\ run \in [Agents -> RunType]
      /\ run[a] \in RunType /\ row[a] \in RowType /\ AgentInv(a)
  BY Types DEF ControlInv
<1>2. {"start", "mark", "startfailed"} \subseteq At
  BY DEF At, Settling, Spawning, Undoing, Failing, Recovering
<1>3. run' \in [Agents -> RunType]
  BY <1>1, <1>2 DEF RunType, Outcomes
<1>4. row' \in [Agents -> RowType]
  BY <1>1
<1>5. Alone(a)
  BY <1>1 DEF Alone, TypeOK
<1> USE <1>1 DEF AgentInv, RunType, RowType, Open, Ended, Outcomes, Settling, Spawning, Undoing,
        Failing, Recovering, Forgotten
<1>6. Awake(a)'
  BY DEF Awake, Blank
<1>7. Recorded(a)'
  BY DEF Recorded, Gone, Has, NoRow
<1>8. Ending(a)'
  BY DEF Ending, Gone, Has, Recorded
<1>9. Resourced(a)'
  BY DEF Resourced, Gone, Has
<1>10. Reserved(a)'
  BY DEF Reserved, Unlisted, Gone, Has, Recorded
<1>11. Vouched(a)'
  BY DEF Vouched, Recorded, NoRow
<1>12. Leased(a)'
  BY DEF Leased, Gone, Has, Recorded, NoRow
<1> QED
  BY <1>3, <1>4, <1>5, <1>6, <1>7, <1>8, <1>9, <1>10, <1>11, <1>12,
     OneAgent DEF AgentInv

\* A failed start is written down, or its row is left.
LEMMA StartFailedKeeps ==
  ASSUME ControlInv, NEW a \in Agents, StartFailed(a)
  PROVE  ControlInv'
<1> USE ControlAssumption
<1>1. /\ TypeOK /\ row \in [Agents -> RowType] /\ run \in [Agents -> RunType]
      /\ run[a] \in RunType /\ row[a] \in RowType /\ AgentInv(a)
  BY Types DEF ControlInv
<1>2. {"startfailed", "teardown"} \subseteq At
  BY DEF At, Settling, Spawning, Undoing, Failing, Recovering
<1>3. run' \in [Agents -> RunType]
  BY <1>1, <1>2 DEF RunType, Outcomes, StartFailed, Step, Goto, Fault, Stays
<1>4. row' \in [Agents -> RowType]
  BY <1>1 DEF RowType, Ended, StartFailed, Step, Goto, Fault, Stays
<1>5. /\ left' \in [Agents -> SUBSET Things] /\ \A b \in Agents : left[b] \subseteq left'[b]
      /\ Leaving(a, {"leases"}) => \A x \in {"leases"} : Gone(a, x)'
      /\ Leaving(a, {"leases", "row"}) => \A x \in {"leases", "row"} : Gone(a, x)'
  BY <1>1, LeavingGrows DEF TypeOK, Things, StartFailed, Step, Goto, Fault, Stays
<1>6. Alone(a)
  BY <1>1, <1>5 DEF Alone, TypeOK, StartFailed, Step, Goto, Fault, Stays
<1>7. /\ run[a].at = "startfailed" /\ UNCHANGED <<hardened, up, late>>
      /\ run'[a].at = "teardown" /\ run'[a].lease = run[a].lease /\ run'[a].proc = run[a].proc
      /\ run'[a].op = run[a].op /\ run'[a].live = run[a].live /\ run'[a].token = run[a].token
      /\ run'[a].res = run[a].res /\ run'[a].covers = run[a].covers
      /\ run'[a].accepted = run[a].accepted /\ run'[a].outcome = run[a].outcome
      /\ run'[a].terminal = run[a].terminal /\ row'[a].decision = row[a].decision
      /\ row'[a].leases = row[a].leases /\ row'[a].budget = row[a].budget
      /\ row'[a].receipts = row[a].receipts
      /\ \/ /\ row'[a].status = "Failed" /\ Leaving(a, {"leases"})
         \/ /\ row'[a].status = row[a].status /\ Leaving(a, {"leases", "row"})
  BY <1>1 DEF RunType, RowType, StartFailed, Step, Goto, Fault, Stays
<1> USE <1>1, <1>5, <1>7 DEF AgentInv, RunType, RowType, Open, Ended, Outcomes, Settling,
        Spawning, Undoing, Failing, Recovering, Forgotten
<1>8. Awake(a)'
  BY DEF Awake, Blank
<1>9. Recorded(a)'
  BY DEF Recorded, Gone, Has, NoRow
<1>10. Ending(a)'
  BY DEF Ending, Gone, Has, Recorded
<1>11. Resourced(a)'
  BY DEF Resourced, Gone, Has
<1>12. Reserved(a)'
  BY DEF Reserved, Unlisted, Gone, Has, Recorded
<1>13. Vouched(a)'
  BY DEF Vouched, Recorded, NoRow
<1>14. Leased(a)'
  BY DEF Leased, Gone, Has, Recorded, NoRow
<1> QED
  BY <1>3, <1>4, <1>6, <1>8, <1>9, <1>10, <1>11, <1>12, <1>13, <1>14,
     OneAgent DEF AgentInv

\* A run that did not start ends its process, or the failing call leaves it.
LEMMA TeardownKeeps ==
  ASSUME ControlInv, NEW a \in Agents, Teardown(a)
  PROVE  ControlInv'
<1> USE ControlAssumption DEF Teardown, EndProcess, Unended, Cancelled, Fault, Stays
<1>1. /\ TypeOK /\ row \in [Agents -> RowType] /\ run \in [Agents -> RunType]
      /\ run[a] \in RunType /\ row[a] \in RowType /\ AgentInv(a)
  BY Types DEF ControlInv
<1>2. {"teardown", "revoke"} \subseteq At
  BY DEF At, Settling, Spawning, Undoing, Failing, Recovering
<1>3. run' \in [Agents -> RunType]
  BY <1>1, <1>2 DEF RunType, Outcomes
<1>4. row' \in [Agents -> RowType]
  BY <1>1
<1>5. /\ left' \in [Agents -> SUBSET Things] /\ \A b \in Agents : left[b] \subseteq left'[b]
      /\ Leaving(a, {"process", "operation"}) => \A x \in {"process", "operation"} : Gone(a, x)'
  BY <1>1, LeavingGrows DEF TypeOK, Things
<1>6. Alone(a)
  BY <1>1, <1>5 DEF Alone, TypeOK
<1> USE <1>1, <1>5 DEF AgentInv, RunType, RowType, Open, Ended, Outcomes, Settling, Spawning,
        Undoing, Failing, Recovering, Forgotten
<1>7. Awake(a)'
  BY DEF Awake, Blank
<1>8. Recorded(a)'
  BY DEF Recorded, Gone, Has, NoRow
<1>9. Ending(a)'
  BY DEF Ending, Gone, Has, Recorded
<1>10. Resourced(a)'
  BY DEF Resourced, Gone, Has
<1>11. Reserved(a)'
  BY DEF Reserved, Unlisted, Gone, Has, Recorded
<1>12. Vouched(a)'
  BY DEF Vouched, Recorded, NoRow
<1>13. Leased(a)'
  BY DEF Leased, Gone, Has, Recorded, NoRow
<1> QED
  BY <1>3, <1>4, <1>6, <1>7, <1>8, <1>9, <1>10, <1>11, <1>12, <1>13,
     OneAgent DEF AgentInv

\* A run that did not start gives its reservation back.
LEMMA TeardownRevokeKeeps ==
  ASSUME ControlInv, NEW a \in Agents, TeardownRevoke(a)
  PROVE  ControlInv'
<1> USE ControlAssumption DEF TeardownRevoke, RevokeLease, Fault, Stays
<1>1. /\ TypeOK /\ row \in [Agents -> RowType] /\ run \in [Agents -> RunType]
      /\ run[a] \in RunType /\ row[a] \in RowType /\ AgentInv(a)
  BY Types DEF ControlInv
<1>2. {"revoke", "remove"} \subseteq At
  BY DEF At, Settling, Spawning, Undoing, Failing, Recovering
<1>3. run' \in [Agents -> RunType]
  BY <1>1, <1>2 DEF RunType, Outcomes
<1>4. row' \in [Agents -> RowType]
  BY <1>1, RevokedType
<1>5. /\ left' \in [Agents -> SUBSET Things] /\ \A b \in Agents : left[b] \subseteq left'[b]
      /\ Leaving(a, {"budget"}) => \A x \in {"budget"} : Gone(a, x)'
  BY <1>1, LeavingGrows DEF TypeOK, Things
<1>6. Alone(a)
  BY <1>1, <1>5, RevokedType DEF Alone, TypeOK
<1> USE <1>1, <1>5, RevokedType DEF AgentInv, RunType, RowType, Open, Ended, Outcomes, Settling,
        Spawning, Undoing, Failing, Recovering, Forgotten
<1>7. Awake(a)'
  BY DEF Awake, Blank
<1>8. Recorded(a)'
  BY DEF Recorded, Gone, Has, NoRow
<1>9. Ending(a)'
  BY DEF Ending, Gone, Has, Recorded
<1>10. Resourced(a)'
  BY DEF Resourced, Gone, Has
<1>11. Reserved(a)'
  BY DEF Reserved, Unlisted, Gone, Has, Recorded
<1>12. Vouched(a)'
  BY DEF Vouched, Recorded, NoRow
<1>13. Leased(a)'
  BY DEF Leased, Gone, Has, Recorded, NoRow
<1> QED
  BY <1>3, <1>4, <1>6, <1>7, <1>8, <1>9, <1>10, <1>11, <1>12, <1>13,
     OneAgent DEF AgentInv

\* The row is told that the run begins, or is left Queued.
LEMMA MarkKeeps ==
  ASSUME ControlInv, NEW a \in Agents, Mark(a)
  PROVE  ControlInv'
<1> USE ControlAssumption
<1>1. /\ TypeOK /\ row \in [Agents -> RowType] /\ run \in [Agents -> RunType]
      /\ run[a] \in RunType /\ row[a] \in RowType /\ AgentInv(a)
  BY Types DEF ControlInv
<1>2. {"mark", "marked", "teardown"} \subseteq At
  BY DEF At, Settling, Spawning, Undoing, Failing, Recovering
<1>3. run' \in [Agents -> RunType]
  <2>1. \A l \in {"marked", "teardown"} : [run EXCEPT ![a].at = l] \in [Agents -> RunType]
    BY <1>1, <1>2 DEF RunType, Mark, Step, Goto, Fault, Stays, history
  <2> QED
    BY <2>1 DEF Mark, Step, Goto, Fault, Stays, history
<1>4. row' \in [Agents -> RowType]
  BY <1>1 DEF RowType, Open, Mark, Step, Goto, Fault, Stays, history
<1>5. /\ left' \in [Agents -> SUBSET Things] /\ \A b \in Agents : left[b] \subseteq left'[b]
      /\ Leaving(a, {"leases", "row"}) => \A x \in {"leases", "row"} : Gone(a, x)'
  BY <1>1, LeavingGrows DEF TypeOK, Things, Mark, Step, Goto, Fault, Stays, history
<1>6. Alone(a)
  BY <1>1, <1>5 DEF Alone, TypeOK, Mark, Step, Goto, Fault, Stays, history
<1>7. /\ run[a].at = "mark" /\ UNCHANGED <<hardened, up, late>> /\ run'[a].lease = run[a].lease
      /\ run'[a].proc = run[a].proc /\ run'[a].op = run[a].op /\ run'[a].live = run[a].live
      /\ run'[a].token = run[a].token /\ run'[a].res = run[a].res
      /\ run'[a].covers = run[a].covers /\ run'[a].accepted = run[a].accepted
      /\ run'[a].outcome = run[a].outcome /\ run'[a].terminal = run[a].terminal
      /\ row'[a].decision = row[a].decision /\ row'[a].leases = row[a].leases
      /\ row'[a].budget = row[a].budget /\ row'[a].receipts = row[a].receipts
      /\ \/ /\ run'[a].at = "marked" /\ row'[a].status = "Running"
         \/ /\ run'[a].at = "teardown" /\ row'[a].status = row[a].status
            /\ Leaving(a, {"leases", "row"})
  BY <1>1 DEF RunType, RowType, Mark, Step, Goto, Fault, Stays, history
<1> USE <1>1, <1>5, <1>7 DEF AgentInv, RunType, RowType, Open, Ended, Outcomes, Settling,
        Spawning, Undoing, Failing, Recovering, Forgotten
<1>8. Awake(a)'
  BY DEF Awake, Blank
<1>9. Recorded(a)'
  BY DEF Recorded, Gone, Has, NoRow
<1>10. Ending(a)'
  BY DEF Ending, Gone, Has, Recorded
<1>11. Resourced(a)'
  BY DEF Resourced, Gone, Has
<1>12. Reserved(a)'
  BY DEF Reserved, Unlisted, Gone, Has, Recorded
<1>13. Vouched(a)'
  BY DEF Vouched, Recorded, NoRow
<1>14. Leased(a)'
  BY DEF Leased, Gone, Has, Recorded, NoRow
<1> QED
  BY <1>3, <1>4, <1>6, <1>8, <1>9, <1>10, <1>11, <1>12, <1>13, <1>14,
     OneAgent DEF AgentInv

\* The lease is told that the run begins, or the row is left Running.
LEMMA MarkRunningKeeps ==
  ASSUME ControlInv, NEW a \in Agents, MarkRunning(a)
  PROVE  ControlInv'
<1> USE ControlAssumption DEF MarkRunning, Step, Goto, Fault, Stays, history
<1>1. /\ TypeOK /\ row \in [Agents -> RowType] /\ run \in [Agents -> RunType]
      /\ run[a] \in RunType /\ row[a] \in RowType /\ AgentInv(a)
  BY Types DEF ControlInv
<1>2. {"marked", "run", "teardown"} \subseteq At
  BY DEF At, Settling, Spawning, Undoing, Failing, Recovering
<1>3. run' \in [Agents -> RunType]
  BY <1>1, <1>2 DEF RunType, Outcomes
<1>4. row' \in [Agents -> RowType]
  BY <1>1
<1>5. /\ left' \in [Agents -> SUBSET Things] /\ \A b \in Agents : left[b] \subseteq left'[b]
      /\ Leaving(a, {"leases", "row"}) => \A x \in {"leases", "row"} : Gone(a, x)'
  BY <1>1, LeavingGrows DEF TypeOK, Things
<1>6. Alone(a)
  BY <1>1, <1>5 DEF Alone, TypeOK
<1> USE <1>1, <1>5 DEF AgentInv, RunType, RowType, Open, Ended, Outcomes, Settling, Spawning,
        Undoing, Failing, Recovering, Forgotten
<1>7. Awake(a)'
  BY DEF Awake, Blank
<1>8. Recorded(a)'
  BY DEF Recorded, Gone, Has, NoRow
<1>9. Ending(a)'
  BY DEF Ending, Gone, Has, Recorded
<1>10. Resourced(a)'
  BY DEF Resourced, Gone, Has
<1>11. Reserved(a)'
  BY DEF Reserved, Unlisted, Gone, Has, Recorded
<1>12. Vouched(a)'
  BY DEF Vouched, Recorded, NoRow
<1>13. Leased(a)'
  BY DEF Leased, Gone, Has, Recorded, NoRow
<1> QED
  BY <1>3, <1>4, <1>6, <1>7, <1>8, <1>9, <1>10, <1>11, <1>12, <1>13,
     OneAgent DEF AgentInv

\* The run ends.
LEMMA OutcomeKeeps ==
  ASSUME ControlInv, NEW a \in Agents, Outcome(a)
  PROVE  ControlInv'
<1> USE ControlAssumption
<1>1. /\ TypeOK /\ row \in [Agents -> RowType] /\ run \in [Agents -> RunType]
      /\ run[a] \in RunType /\ row[a] \in RowType /\ AgentInv(a)
  BY Types DEF ControlInv
<1>2. {"run", "finish"} \subseteq At
  BY DEF At, Settling, Spawning, Undoing, Failing, Recovering
<1>3. run' \in [Agents -> RunType]
  <2>1. PICK o \in Outcomes : run' = [run EXCEPT ![a].at = "finish", ![a].outcome = o, ![a].terminal = o]
    BY <1>1 DEF Outcome, history
  <2>2. [run[a] EXCEPT !.at = "finish", !.outcome = o, !.terminal = o] \in RunType
    BY <1>1, <1>2, <2>1 DEF RunType, Outcomes
  <2> QED
    BY <1>1, <2>1, <2>2
<1>4. row' \in [Agents -> RowType]
  BY <1>1 DEF Outcome, history
<1>5. Alone(a)
  BY <1>1 DEF Alone, TypeOK, Outcome, history
<1>6. /\ run[a].at = "run" /\ left' = left /\ UNCHANGED <<hardened, up, late>>
      /\ run'[a].at = "finish" /\ run'[a].outcome \in Outcomes /\ run'[a].terminal \in Outcomes
      /\ run'[a].lease = run[a].lease /\ run'[a].proc = run[a].proc /\ run'[a].op = run[a].op
      /\ run'[a].live = run[a].live /\ run'[a].token = run[a].token /\ run'[a].res = run[a].res
      /\ run'[a].covers = run[a].covers /\ run'[a].accepted = run[a].accepted
      /\ row'[a].status = row[a].status /\ row'[a].decision = row[a].decision
      /\ row'[a].leases = row[a].leases /\ row'[a].budget = row[a].budget
      /\ row'[a].receipts = row[a].receipts
  BY <1>1 DEF RunType, RowType, Outcome, history
<1> USE <1>1, <1>6 DEF AgentInv, RunType, RowType, Open, Ended, Outcomes, Settling, Spawning,
        Undoing, Failing, Recovering, Forgotten
<1>7. Awake(a)'
  BY DEF Awake, Blank
<1>8. Recorded(a)'
  BY DEF Recorded, Gone, Has, NoRow
<1>9. Ending(a)'
  BY DEF Ending, Gone, Has, Recorded
<1>10. Resourced(a)'
  BY DEF Resourced, Gone, Has
<1>11. Reserved(a)'
  BY DEF Reserved, Unlisted, Gone, Has, Recorded
<1>12. Vouched(a)'
  BY DEF Vouched, Recorded, NoRow
<1>13. Leased(a)'
  BY DEF Leased, Gone, Has, Recorded, NoRow
<1> QED
  BY <1>3, <1>4, <1>5, <1>7, <1>8, <1>9, <1>10, <1>11, <1>12, <1>13,
     OneAgent DEF AgentInv

\* The operation follows the outcome.
LEMMA FinishKeeps ==
  ASSUME ControlInv, NEW a \in Agents, Finish(a)
  PROVE  ControlInv'
<1> USE ControlAssumption DEF Finish, Step, Goto, Fault, Stays
<1>1. /\ TypeOK /\ row \in [Agents -> RowType] /\ run \in [Agents -> RunType]
      /\ run[a] \in RunType /\ row[a] \in RowType /\ AgentInv(a)
  BY Types DEF ControlInv
<1>2. {"finish", "record"} \subseteq At
  BY DEF At, Settling, Spawning, Undoing, Failing, Recovering
<1>3. run' \in [Agents -> RunType]
  <2>1. [run EXCEPT ![a].at = "record"] \in [Agents -> RunType]
    BY <1>1, <1>2 DEF RunType
  <2>2. [run EXCEPT ![a].at = "record", ![a].op = "Ended"] \in [Agents -> RunType]
    BY <1>1, <1>2 DEF RunType
  <2> QED
    BY <2>1, <2>2
<1>4. row' \in [Agents -> RowType]
  BY <1>1
<1>5. Alone(a)
  BY <1>1 DEF Alone, TypeOK
<1> USE <1>1 DEF AgentInv, RunType, RowType, Open, Ended, Outcomes, Settling, Spawning, Undoing,
        Failing, Recovering, Forgotten
<1>6. Awake(a)'
  BY DEF Awake, Blank
<1>7. Recorded(a)'
  BY DEF Recorded, Gone, Has, NoRow
<1>8. Ending(a)'
  BY DEF Ending, Gone, Has, Recorded
<1>9. Resourced(a)'
  BY DEF Resourced, Gone, Has
<1>10. Reserved(a)'
  BY DEF Reserved, Unlisted, Gone, Has, Recorded
<1>11. Vouched(a)'
  BY DEF Vouched, Recorded, NoRow
<1>12. Leased(a)'
  BY DEF Leased, Gone, Has, Recorded, NoRow
<1> QED
  BY <1>3, <1>4, <1>5, <1>6, <1>7, <1>8, <1>9, <1>10, <1>11, <1>12,
     OneAgent DEF AgentInv

\* The end is written down, or its row is left.
LEMMA RecordOutcomeKeeps ==
  ASSUME ControlInv, NEW a \in Agents, RecordOutcome(a)
  PROVE  ControlInv'
<1> USE ControlAssumption
<1>1. /\ TypeOK /\ row \in [Agents -> RowType] /\ run \in [Agents -> RunType]
      /\ run[a] \in RunType /\ row[a] \in RowType /\ AgentInv(a)
  BY Types DEF ControlInv
<1>2. {"record", "terminate"} \subseteq At
  BY DEF At, Settling, Spawning, Undoing, Failing, Recovering
<1>3. run' \in [Agents -> RunType]
  BY <1>1, <1>2 DEF RunType, Outcomes, RecordOutcome, Step, Goto, Fault, Stays
<1>4. row' \in [Agents -> RowType]
  <2>1. run[a].outcome \in Outcomes
    BY <1>1 DEF AgentInv, Recorded, RecordOutcome, Step, Goto, Fault, Stays
  <2> QED
    BY <1>1, <2>1 DEF RowType, Ended, Outcomes, RecordOutcome, Step, Goto, Fault, Stays
<1>5. /\ left' \in [Agents -> SUBSET Things] /\ \A b \in Agents : left[b] \subseteq left'[b]
      /\ Leaving(a, {"row"}) => \A x \in {"row"} : Gone(a, x)'
  BY <1>1, LeavingGrows DEF TypeOK, Things, RecordOutcome, Step, Goto, Fault, Stays
<1>6. Alone(a)
  BY <1>1, <1>5 DEF Alone, TypeOK, RecordOutcome, Step, Goto, Fault, Stays
<1>7. /\ run[a].at = "record" /\ UNCHANGED <<hardened, up, late>> /\ run'[a].at = "terminate"
      /\ run'[a].lease = run[a].lease /\ run'[a].proc = run[a].proc /\ run'[a].op = run[a].op
      /\ run'[a].live = run[a].live /\ run'[a].token = run[a].token /\ run'[a].res = run[a].res
      /\ run'[a].covers = run[a].covers /\ run'[a].accepted = run[a].accepted
      /\ run'[a].outcome = run[a].outcome /\ run'[a].terminal = run[a].terminal
      /\ row'[a].decision = row[a].decision /\ row'[a].leases = row[a].leases
      /\ row'[a].budget = row[a].budget /\ row'[a].receipts = row[a].receipts
      /\ \/ /\ row'[a].status = run[a].outcome
         \/ /\ row'[a].status = row[a].status /\ Leaving(a, {"row"})
  BY <1>1 DEF RunType, RowType, RecordOutcome, Step, Goto, Fault, Stays
<1> USE <1>1, <1>5, <1>7 DEF AgentInv, RunType, RowType, Open, Ended, Outcomes, Settling,
        Spawning, Undoing, Failing, Recovering, Forgotten
<1>8. Awake(a)'
  BY DEF Awake, Blank
<1>9. Recorded(a)'
  BY DEF Recorded, Gone, Has, NoRow
<1>10. Ending(a)'
  BY DEF Ending, Gone, Has, Recorded
<1>11. Resourced(a)'
  BY DEF Resourced, Gone, Has
<1>12. Reserved(a)'
  BY DEF Reserved, Unlisted, Gone, Has, Recorded
<1>13. Vouched(a)'
  BY DEF Vouched, Recorded, NoRow
<1>14. Leased(a)'
  BY DEF Leased, Gone, Has, Recorded, NoRow
<1> QED
  BY <1>3, <1>4, <1>6, <1>8, <1>9, <1>10, <1>11, <1>12, <1>13, <1>14,
     OneAgent DEF AgentInv

\* The process of a run ends, or the failing call leaves it.
LEMMA TerminateKeeps ==
  ASSUME ControlInv, NEW a \in Agents, Terminate(a)
  PROVE  ControlInv'
<1> USE ControlAssumption DEF Terminate, EndProcess, Unended, Cancelled, Fault, Stays
<1>1. /\ TypeOK /\ row \in [Agents -> RowType] /\ run \in [Agents -> RunType]
      /\ run[a] \in RunType /\ row[a] \in RowType /\ AgentInv(a)
  BY Types DEF ControlInv
<1>2. {"terminate", "quiesce", "stop"} \subseteq At
  BY DEF At, Settling, Spawning, Undoing, Failing, Recovering
<1>3. run' \in [Agents -> RunType]
  BY <1>1, <1>2 DEF RunType, Outcomes
<1>4. row' \in [Agents -> RowType]
  BY <1>1
<1>5. /\ left' \in [Agents -> SUBSET Things] /\ \A b \in Agents : left[b] \subseteq left'[b]
      /\ Leaving(a, {"process", "operation"}) => \A x \in {"process", "operation"} : Gone(a, x)'
  BY <1>1, LeavingGrows DEF TypeOK, Things
<1>6. Alone(a)
  BY <1>1, <1>5 DEF Alone, TypeOK
<1> USE <1>1, <1>5 DEF AgentInv, RunType, RowType, Open, Ended, Outcomes, Settling, Spawning,
        Undoing, Failing, Recovering, Forgotten
<1>7. Awake(a)'
  BY DEF Awake, Blank
<1>8. Recorded(a)'
  BY DEF Recorded, Gone, Has, NoRow
<1>9. Ending(a)'
  BY DEF Ending, Gone, Has, Recorded
<1>10. Resourced(a)'
  BY DEF Resourced, Gone, Has
<1>11. Reserved(a)'
  BY DEF Reserved, Unlisted, Gone, Has, Recorded
<1>12. Vouched(a)'
  BY DEF Vouched, Recorded, NoRow
<1>13. Leased(a)'
  BY DEF Leased, Gone, Has, Recorded, NoRow
<1> QED
  BY <1>3, <1>4, <1>6, <1>7, <1>8, <1>9, <1>10, <1>11, <1>12, <1>13,
     OneAgent DEF AgentInv

\* The parent is looked up, or quiescing fails.
LEMMA QuiesceKeeps ==
  ASSUME ControlInv, NEW a \in Agents, Quiesce(a)
  PROVE  ControlInv'
<1> USE ControlAssumption
<1>1. /\ TypeOK /\ row \in [Agents -> RowType] /\ run \in [Agents -> RunType]
      /\ run[a] \in RunType /\ row[a] \in RowType /\ AgentInv(a)
  BY Types DEF ControlInv
<1>2. {"quiesce", "transfer", "unquiet"} \subseteq At
  BY DEF At, Settling, Spawning, Undoing, Failing, Recovering
<1>3. run' \in [Agents -> RunType]
  BY <1>1, <1>2 DEF RunType, Outcomes, Quiesce, Step, Goto, Fault, Stays, history
<1>4. row' \in [Agents -> RowType]
  BY <1>1 DEF Quiesce, Step, Goto, Fault, Stays, history
<1>5. Alone(a)
  BY <1>1 DEF Alone, TypeOK, Quiesce, Step, Goto, Fault, Stays, history
<1>6. /\ run[a].at = "quiesce" /\ left' = left /\ UNCHANGED <<hardened, up, late>>
      /\ run'[a].lease = run[a].lease /\ run'[a].proc = run[a].proc /\ run'[a].op = run[a].op
      /\ run'[a].live = run[a].live /\ run'[a].token = run[a].token /\ run'[a].res = run[a].res
      /\ run'[a].accepted = run[a].accepted /\ run'[a].outcome = run[a].outcome
      /\ run'[a].terminal = run[a].terminal /\ row'[a].status = row[a].status
      /\ row'[a].decision = row[a].decision /\ row'[a].leases = row[a].leases
      /\ row'[a].budget = row[a].budget /\ row'[a].receipts = row[a].receipts
      /\ \/ /\ run'[a].at = "transfer" /\ run'[a].covers \in BOOLEAN
            /\ run'[a].covers => Parent[a] # None
         \/ /\ run'[a].at = "unquiet" /\ run'[a].covers = run[a].covers
  <2>1. run'[a] \in RunType
    BY <1>3 DEF Quiesce, Step, Goto, Fault, Stays, history
  <2> QED
    BY <1>1, <2>1 DEF RunType, RowType, Quiesce, Step, Goto, Fault, Stays, history
<1> USE <1>1, <1>6 DEF AgentInv, RunType, RowType, Open, Ended, Outcomes, Settling, Spawning,
        Undoing, Failing, Recovering, Forgotten
<1>7. Awake(a)'
  BY DEF Awake, Blank
<1>8. Recorded(a)'
  BY DEF Recorded, Gone, Has, NoRow
<1>9. Ending(a)'
  BY DEF Ending, Gone, Has, Recorded
<1>10. Resourced(a)'
  BY DEF Resourced, Gone, Has
<1>11. Reserved(a)'
  BY DEF Reserved, Unlisted, Gone, Has, Recorded
<1>12. Vouched(a)'
  BY DEF Vouched, Recorded, NoRow
<1>13. Leased(a)'
  BY DEF Leased, Gone, Has, Recorded, NoRow
<1> QED
  BY <1>3, <1>4, <1>5, <1>7, <1>8, <1>9, <1>10, <1>11, <1>12, <1>13,
     OneAgent DEF AgentInv

\* Every resource is cancelled and awaited.
LEMMA StopResourcesKeeps ==
  ASSUME ControlInv, NEW a \in Agents, StopResources(a)
  PROVE  ControlInv'
<1> USE ControlAssumption DEF StopResources, history
<1>1. /\ TypeOK /\ row \in [Agents -> RowType] /\ run \in [Agents -> RunType]
      /\ run[a] \in RunType /\ row[a] \in RowType /\ AgentInv(a)
  BY Types DEF ControlInv
<1>2. {"unquiet", "stop", "giveup", "admission"} \subseteq At
  BY DEF At, Settling, Spawning, Undoing, Failing, Recovering
<1>3. run' \in [Agents -> RunType]
  BY <1>1, <1>2 DEF RunType, Outcomes
<1>4. row' \in [Agents -> RowType]
  BY <1>1
<1>5. Alone(a)
  BY <1>1 DEF Alone, TypeOK
<1> USE <1>1 DEF AgentInv, RunType, RowType, Open, Ended, Outcomes, Settling, Spawning, Undoing,
        Failing, Recovering, Forgotten
<1>6. Awake(a)'
  BY DEF Awake, Blank
<1>7. Recorded(a)'
  BY DEF Recorded, Gone, Has, NoRow
<1>8. Ending(a)'
  BY DEF Ending, Gone, Has, Recorded
<1>9. Resourced(a)'
  BY DEF Resourced, Gone, Has
<1>10. Reserved(a)'
  BY DEF Reserved, Unlisted, Gone, Has, Recorded
<1>11. Vouched(a)'
  BY DEF Vouched, Recorded, NoRow
<1>12. Leased(a)'
  BY DEF Leased, Gone, Has, Recorded, NoRow
<1> QED
  BY <1>3, <1>4, <1>5, <1>6, <1>7, <1>8, <1>9, <1>10, <1>11, <1>12,
     OneAgent DEF AgentInv

\* A run that could not be quiesced gives its reservation back.
LEMMA GiveUpKeeps ==
  ASSUME ControlInv, NEW a \in Agents, GiveUp(a)
  PROVE  ControlInv'
<1> USE ControlAssumption
<1>1. /\ TypeOK /\ row \in [Agents -> RowType] /\ run \in [Agents -> RunType]
      /\ run[a] \in RunType /\ row[a] \in RowType /\ AgentInv(a)
  BY Types DEF ControlInv
<1>2. {"giveup", "plain"} \subseteq At
  BY DEF At, Settling, Spawning, Undoing, Failing, Recovering
<1>3. run' \in [Agents -> RunType]
  BY <1>1, <1>2 DEF RunType, Outcomes, GiveUp, RevokeLease, Fault, Stays
<1>4. row' \in [Agents -> RowType]
  BY <1>1, RevokedType DEF GiveUp, RevokeLease, Fault, Stays
<1>5. /\ left' \in [Agents -> SUBSET Things] /\ \A b \in Agents : left[b] \subseteq left'[b]
      /\ Leaving(a, {"budget"}) => \A x \in {"budget"} : Gone(a, x)'
  BY <1>1, LeavingGrows DEF TypeOK, Things, GiveUp, RevokeLease, Fault, Stays
<1>6. Alone(a)
  BY <1>1, <1>5, RevokedType DEF Alone, TypeOK, GiveUp, RevokeLease, Fault, Stays
<1>7. /\ run[a].at = "giveup" /\ UNCHANGED <<hardened, up, late>> /\ run'[a].at = "plain"
      /\ run'[a].lease = FALSE /\ run'[a].proc = run[a].proc /\ run'[a].op = run[a].op
      /\ run'[a].live = run[a].live /\ run'[a].token = run[a].token /\ run'[a].res = run[a].res
      /\ run'[a].covers = run[a].covers /\ run'[a].accepted = run[a].accepted
      /\ run'[a].outcome = run[a].outcome /\ run'[a].terminal = run[a].terminal
      /\ row'[a].status = row[a].status /\ row'[a].decision = row[a].decision
      /\ row'[a].leases = row[a].leases /\ row'[a].receipts = row[a].receipts
      /\ \/ /\ row'[a].budget # "open"
            /\ (row[a].budget # "open" => row'[a].budget = row[a].budget)
         \/ /\ row'[a].budget = row[a].budget /\ Leaving(a, {"budget"})
  BY <1>1, RevokedType DEF RunType, RowType, GiveUp, RevokeLease, Fault, Stays
<1> USE <1>1, <1>5, <1>7, RevokedType DEF AgentInv, RunType, RowType, Open, Ended, Outcomes,
        Settling, Spawning, Undoing, Failing, Recovering, Forgotten
<1>8. Awake(a)'
  BY DEF Awake, Blank
<1>9. Recorded(a)'
  BY DEF Recorded, Gone, Has, NoRow
<1>10. Ending(a)'
  BY DEF Ending, Gone, Has, Recorded
<1>11. Resourced(a)'
  BY DEF Resourced, Gone, Has
<1>12. Reserved(a)'
  BY DEF Reserved, Unlisted, Gone, Has, Recorded
<1>13. Vouched(a)'
  BY DEF Vouched, Recorded, NoRow
<1>14. Leased(a)'
  BY DEF Leased, Gone, Has, Recorded, NoRow
<1> QED
  BY <1>3, <1>4, <1>6, <1>8, <1>9, <1>10, <1>11, <1>12, <1>13, <1>14,
     OneAgent DEF AgentInv

\* The rest of the reservation goes to the parent, or stays.
LEMMA TransferKeeps ==
  ASSUME ControlInv, NEW a \in Agents, Transfer(a)
  PROVE  ControlInv'
<1> USE ControlAssumption
<1>1. /\ TypeOK /\ row \in [Agents -> RowType] /\ run \in [Agents -> RunType]
      /\ run[a] \in RunType /\ row[a] \in RowType /\ AgentInv(a)
  BY Types DEF ControlInv
<1>2. {"transfer", "flush"} \subseteq At
  BY DEF At, Settling, Spawning, Undoing, Failing, Recovering
<1>3. run' \in [Agents -> RunType]
  BY <1>1, <1>2 DEF RunType, Outcomes, Transfer, MayTransfer, Goto, Fault, Stays
<1>4. row' \in [Agents -> RowType]
  BY <1>1 DEF RowType, Transfer, MayTransfer, Goto, Fault, Stays
<1>5. Alone(a)
  BY <1>1 DEF Alone, TypeOK, Transfer, MayTransfer, Goto, Fault, Stays
<1>6. /\ run[a].at = "transfer" /\ left' = left /\ UNCHANGED <<hardened, up, late>>
      /\ run'[a].at = "flush" /\ run'[a].proc = run[a].proc /\ run'[a].op = run[a].op
      /\ run'[a].live = run[a].live /\ run'[a].token = run[a].token /\ run'[a].res = run[a].res
      /\ run'[a].covers = run[a].covers /\ run'[a].outcome = run[a].outcome
      /\ run'[a].terminal = run[a].terminal /\ row'[a].status = row[a].status
      /\ row'[a].decision = row[a].decision /\ row'[a].leases = row[a].leases
      /\ row'[a].receipts = row[a].receipts
      /\ \/ /\ run[a].covers /\ a \in Survivors /\ run'[a].lease = FALSE
            /\ run'[a].accepted = TRUE /\ row'[a].budget = "transferred"
         \/ /\ run'[a].lease = run[a].lease /\ run'[a].accepted = run[a].accepted
            /\ row'[a].budget = row[a].budget
  BY <1>1 DEF RunType, RowType, Transfer, MayTransfer, Goto, Fault, Stays
<1> USE <1>1, <1>6 DEF AgentInv, RunType, RowType, Open, Ended, Outcomes, Settling, Spawning,
        Undoing, Failing, Recovering, Forgotten
<1>7. Awake(a)'
  BY DEF Awake, Blank
<1>8. Recorded(a)'
  BY DEF Recorded, Gone, Has, NoRow
<1>9. Ending(a)'
  BY DEF Ending, Gone, Has, Recorded
<1>10. Resourced(a)'
  BY DEF Resourced, Gone, Has
<1>11. Reserved(a)'
  BY DEF Reserved, Unlisted, Gone, Has, Recorded
<1>12. Vouched(a)'
  BY DEF Vouched, Recorded, NoRow
<1>13. Leased(a)'
  BY DEF Leased, Gone, Has, Recorded, NoRow
<1> QED
  BY <1>3, <1>4, <1>5, <1>7, <1>8, <1>9, <1>10, <1>11, <1>12, <1>13,
     OneAgent DEF AgentInv

\* The memory sink may turn the terminal into a failure.
LEMMA FlushKeeps ==
  ASSUME ControlInv, NEW a \in Agents, Flush(a)
  PROVE  ControlInv'
<1> USE ControlAssumption
<1>1. /\ TypeOK /\ row \in [Agents -> RowType] /\ run \in [Agents -> RunType]
      /\ run[a] \in RunType /\ row[a] \in RowType /\ AgentInv(a)
  BY Types DEF ControlInv
<1>2. {"flush", "resources", "admission"} \subseteq At
  BY DEF At, Settling, Spawning, Undoing, Failing, Recovering
<1>3. run' \in [Agents -> RunType]
  <2> DEFINE l == IF run[a].accepted THEN "resources" ELSE "admission"
             new(t) == [run EXCEPT ![a].at = l, ![a].terminal = t]
  <2>1. run' = new(run[a].terminal) \/ run' = new("Failed")
    BY <1>1 DEF Flush, Fault, Stays
  <2>2. l \in At
    BY <1>2
  <2> HIDE DEF l
  <2>3. new(run[a].terminal) \in [Agents -> RunType] /\ new("Failed") \in [Agents -> RunType]
    BY <1>1, <2>2 DEF RunType, Outcomes
  <2> HIDE DEF new
  <2> QED
    BY <2>1, <2>3
<1>4. row' \in [Agents -> RowType]
  BY <1>1 DEF Flush, Fault, Stays
<1>5. Alone(a)
  BY <1>1 DEF Alone, TypeOK, Flush, Fault, Stays
<1>6. /\ run[a].at = "flush" /\ left' = left /\ UNCHANGED <<hardened, up, late>>
      /\ run'[a].at = (IF run[a].accepted THEN "resources" ELSE "admission")
      /\ run'[a].terminal \in {"Failed", run[a].terminal} /\ run'[a].lease = run[a].lease
      /\ run'[a].proc = run[a].proc /\ run'[a].op = run[a].op /\ run'[a].live = run[a].live
      /\ run'[a].token = run[a].token /\ run'[a].res = run[a].res
      /\ run'[a].covers = run[a].covers /\ run'[a].accepted = run[a].accepted
      /\ run'[a].outcome = run[a].outcome /\ row'[a].status = row[a].status
      /\ row'[a].decision = row[a].decision /\ row'[a].leases = row[a].leases
      /\ row'[a].budget = row[a].budget /\ row'[a].receipts = row[a].receipts
  BY <1>1 DEF RunType, RowType, Flush, Fault, Stays
<1> USE <1>1, <1>6 DEF AgentInv, RunType, RowType, Open, Ended, Outcomes, Settling, Spawning,
        Undoing, Failing, Recovering, Forgotten
<1>7. Awake(a)'
  BY DEF Awake, Blank
<1>8. Recorded(a)'
  BY DEF Recorded, Gone, Has, NoRow
<1>9. Ending(a)'
  BY DEF Ending, Gone, Has, Recorded
<1>10. Resourced(a)'
  BY DEF Resourced, Gone, Has
<1>11. Reserved(a)'
  BY DEF Reserved, Unlisted, Gone, Has, Recorded
<1>12. Vouched(a)'
  BY DEF Vouched, Resourced
<1>13. Leased(a)'
  BY DEF Leased, Gone, Has, Recorded, NoRow
<1> QED
  BY <1>3, <1>4, <1>5, <1>7, <1>8, <1>9, <1>10, <1>11, <1>12, <1>13,
     OneAgent DEF AgentInv

\* The reservation is closed, or the terminal is a failure.
LEMMA SettleAdmissionKeeps ==
  ASSUME ControlInv, NEW a \in Agents, SettleAdmission(a)
  PROVE  ControlInv'
<1> USE ControlAssumption
<1>1. /\ TypeOK /\ row \in [Agents -> RowType] /\ run \in [Agents -> RunType]
      /\ run[a] \in RunType /\ row[a] \in RowType /\ AgentInv(a)
  BY Types DEF ControlInv
<1>2. {"admission", "resources", "plain"} \subseteq At
  BY DEF At, Settling, Spawning, Undoing, Failing, Recovering
<1>3. run' \in [Agents -> RunType]
  <2> DEFINE l == IF hardened THEN "resources" ELSE "plain"
             new(b) == [run EXCEPT ![a].at = l, ![a].lease = b, ![a].terminal = "Failed"]
  <2>1. \/ run' = [run EXCEPT ![a].at = l, ![a].lease = FALSE]
        \/ Settles(a) /\ run' = new(TRUE)
        \/ ~Settles(a) /\ run' = new(FALSE)
    BY <1>1 DEF SettleAdmission, Settles, Fault, Stays
  <2>2. l \in At
    BY <1>2
  <2> HIDE DEF l
  <2>3. [run EXCEPT ![a].at = l, ![a].lease = FALSE] \in [Agents -> RunType]
    BY <1>1, <2>2 DEF RunType
  <2>4. new(TRUE) \in [Agents -> RunType] /\ new(FALSE) \in [Agents -> RunType]
    BY <1>1, <2>2 DEF RunType, Outcomes
  <2> HIDE DEF new
  <2> QED
    BY <2>1, <2>3, <2>4
<1>4. row' \in [Agents -> RowType]
  BY <1>1, RevokedType DEF SettleAdmission, Settles, Fault, Stays
<1>5. /\ left' \in [Agents -> SUBSET Things] /\ \A b \in Agents : left[b] \subseteq left'[b]
      /\ Leaving(a, {"budget"}) => \A x \in {"budget"} : Gone(a, x)'
  BY <1>1, LeavingGrows DEF TypeOK, Things, SettleAdmission, Settles, Fault, Stays
<1>6. Alone(a)
  BY <1>1, <1>5, RevokedType DEF Alone, TypeOK, SettleAdmission, Settles, Fault, Stays
<1>7. /\ run[a].at = "admission" /\ UNCHANGED <<hardened, up, late>>
      /\ run'[a].at = (IF hardened THEN "resources" ELSE "plain") /\ run'[a].proc = run[a].proc
      /\ run'[a].op = run[a].op /\ run'[a].live = run[a].live /\ run'[a].token = run[a].token
      /\ run'[a].res = run[a].res /\ run'[a].covers = run[a].covers
      /\ run'[a].accepted = run[a].accepted /\ run'[a].outcome = run[a].outcome
      /\ row'[a].status = row[a].status /\ row'[a].decision = row[a].decision
      /\ row'[a].leases = row[a].leases /\ row'[a].receipts = row[a].receipts
      /\ \/ /\ run'[a].lease = FALSE /\ run'[a].terminal = run[a].terminal
            /\ row'[a].budget # "open"
            /\ (row[a].budget # "open" => row'[a].budget = row[a].budget) /\ left' = left
         \/ /\ run'[a].lease = TRUE /\ run'[a].terminal = "Failed"
            /\ row'[a].budget = row[a].budget
         \/ /\ run'[a].lease = FALSE /\ run'[a].terminal = "Failed"
            /\ row'[a].budget = row[a].budget /\ Leaving(a, {"budget"})
  BY <1>1, RevokedType DEF RunType, RowType, SettleAdmission, Settles, Fault, Stays
<1> USE <1>1, <1>5, <1>7, RevokedType DEF AgentInv, RunType, RowType, Open, Ended, Outcomes,
        Settling, Spawning, Undoing, Failing, Recovering, Forgotten
<1>8. Awake(a)'
  BY DEF Awake, Blank
<1>9. Recorded(a)'
  BY DEF Recorded, Gone, Has, NoRow
<1>10. Ending(a)'
  BY DEF Ending, Gone, Has, Recorded
<1>11. Resourced(a)'
  BY DEF Resourced, Gone, Has
<1>12. Reserved(a)'
  BY DEF Reserved, Unlisted, Gone, Has, Recorded
<1>13. Vouched(a)'
  BY DEF Vouched, Recorded, NoRow
<1>14. Leased(a)'
  BY DEF Leased, Gone, Has, Recorded, NoRow
<1> QED
  BY <1>3, <1>4, <1>6, <1>8, <1>9, <1>10, <1>11, <1>12, <1>13, <1>14,
     OneAgent DEF AgentInv

\* The resource moves or ends, or the terminal is a failure.
LEMMA ResourcesKeeps ==
  ASSUME ControlInv, NEW a \in Agents, Resources(a)
  PROVE  ControlInv'
<1> USE ControlAssumption
<1>1. /\ TypeOK /\ row \in [Agents -> RowType] /\ run \in [Agents -> RunType]
      /\ run[a] \in RunType /\ row[a] \in RowType /\ AgentInv(a)
  BY Types DEF ControlInv
<1>2. {"resources", "leases"} \subseteq At
  BY DEF At, Settling, Spawning, Undoing, Failing, Recovering
<1>3. run' \in [Agents -> RunType]
  BY <1>1, <1>2 DEF RunType, Outcomes, Resources, Fault, Stays
<1>4. row' \in [Agents -> RowType]
  BY <1>1 DEF Resources, Fault, Stays
<1>5. /\ left' \in [Agents -> SUBSET Things] /\ \A b \in Agents : left[b] \subseteq left'[b]
      /\ Leaving(a, {"resource"}) => \A x \in {"resource"} : Gone(a, x)'
  BY <1>1, LeavingGrows DEF TypeOK, Things, Resources, Fault, Stays
<1>6. Alone(a)
  BY <1>1, <1>5 DEF Alone, TypeOK, Resources, Fault, Stays
<1>7. /\ run[a].at = "resources" /\ UNCHANGED <<hardened, up, late>> /\ run'[a].at = "leases"
      /\ run'[a].lease = run[a].lease /\ run'[a].proc = run[a].proc /\ run'[a].op = run[a].op
      /\ run'[a].live = run[a].live /\ run'[a].token = run[a].token
      /\ run'[a].covers = run[a].covers /\ run'[a].accepted = run[a].accepted
      /\ run'[a].outcome = run[a].outcome /\ row'[a].status = row[a].status
      /\ row'[a].decision = row[a].decision /\ row'[a].leases = row[a].leases
      /\ row'[a].budget = row[a].budget /\ row'[a].receipts = row[a].receipts
      /\ \/ /\ run'[a].res \in {"none", "parent", "ended"} /\ run'[a].terminal = run[a].terminal
            /\ (run'[a].res = "parent" => run[a].res = "parent" \/ run[a].accepted)
         \/ /\ run'[a].res \in {"child", "ended"} /\ run'[a].terminal = "Failed"
            /\ Leaving(a, {"resource"})
  BY <1>1 DEF RunType, RowType, Resources, Fault, Stays
<1> USE <1>1, <1>5, <1>7 DEF AgentInv, RunType, RowType, Open, Ended, Outcomes, Settling,
        Spawning, Undoing, Failing, Recovering, Forgotten
<1>8. Awake(a)'
  BY DEF Awake, Blank
<1>9. Recorded(a)'
  BY DEF Recorded, Gone, Has, NoRow
<1>10. Ending(a)'
  BY DEF Ending, Gone, Has, Recorded
<1>11. Resourced(a)'
  BY DEF Resourced, Gone, Has
<1>12. Reserved(a)'
  BY DEF Reserved, Unlisted, Gone, Has, Recorded
<1>13. Vouched(a)'
  BY DEF Vouched, Recorded, NoRow
<1>14. Leased(a)'
  BY DEF Leased, Gone, Has, Recorded, NoRow
<1> QED
  BY <1>3, <1>4, <1>6, <1>8, <1>9, <1>10, <1>11, <1>12, <1>13, <1>14,
     OneAgent DEF AgentInv

\* A settlement that stops leaves what it has not reached.
LEMMA SettleFailsKeeps ==
  ASSUME ControlInv, NEW a \in Agents, SettleFails(a)
  PROVE  ControlInv'
<1> USE ControlAssumption DEF SettleFails, Goto, Fault, Stays
<1>1. /\ TypeOK /\ row \in [Agents -> RowType] /\ run \in [Agents -> RunType]
      /\ run[a] \in RunType /\ row[a] \in RowType /\ AgentInv(a)
  BY Types DEF ControlInv
<1>2. {"resources", "leases", "receipt", "remove"} \subseteq At
  BY DEF At, Settling, Spawning, Undoing, Failing, Recovering
<1>3. run' \in [Agents -> RunType]
  BY <1>1, <1>2 DEF RunType, Outcomes
<1>4. row' \in [Agents -> RowType]
  BY <1>1
<1>5. /\ left' \in [Agents -> SUBSET Things] /\ \A b \in Agents : left[b] \subseteq left'[b]
      /\ Leaving(a, {"resource", "leases"}) => \A x \in {"resource", "leases"} : Gone(a, x)'
  BY <1>1, LeavingGrows DEF TypeOK, Things
<1>6. Alone(a)
  BY <1>1, <1>5 DEF Alone, TypeOK
<1> USE <1>1, <1>5 DEF AgentInv, RunType, RowType, Open, Ended, Outcomes, Settling, Spawning,
        Undoing, Failing, Recovering, Forgotten
<1>7. Awake(a)'
  BY DEF Awake, Blank
<1>8. Recorded(a)'
  BY DEF Recorded, Gone, Has, NoRow
<1>9. Ending(a)'
  BY DEF Ending, Gone, Has, Recorded
<1>10. Resourced(a)'
  BY DEF Resourced, Gone, Has
<1>11. Reserved(a)'
  BY DEF Reserved, Unlisted, Gone, Has, Recorded
<1>12. Vouched(a)'
  BY DEF Vouched, Recorded, NoRow
<1>13. Leased(a)'
  BY DEF Leased, Gone, Has, Recorded, NoRow
<1> QED
  BY <1>3, <1>4, <1>6, <1>7, <1>8, <1>9, <1>10, <1>11, <1>12, <1>13,
     OneAgent DEF AgentInv

\* The leases are released, or the terminal is a failure.
LEMMA ReleaseLeasesKeeps ==
  ASSUME ControlInv, NEW a \in Agents, ReleaseLeases(a)
  PROVE  ControlInv'
<1> USE ControlAssumption
<1>1. /\ TypeOK /\ row \in [Agents -> RowType] /\ run \in [Agents -> RunType]
      /\ run[a] \in RunType /\ row[a] \in RowType /\ AgentInv(a)
  BY Types DEF ControlInv
<1>2. {"leases", "receipt"} \subseteq At
  BY DEF At, Settling, Spawning, Undoing, Failing, Recovering
<1>3. run' \in [Agents -> RunType]
  <2>1. [run EXCEPT ![a].at = "receipt"] \in [Agents -> RunType]
    BY <1>1, <1>2 DEF RunType, ReleaseLeases, Goto, Fault, Stays
  <2>2. [run EXCEPT ![a].at = "receipt", ![a].terminal = "Failed"] \in [Agents -> RunType]
    BY <1>1, <1>2 DEF RunType, Outcomes, ReleaseLeases, Goto, Fault, Stays
  <2> QED
    BY <2>1, <2>2 DEF ReleaseLeases, Goto, Fault, Stays
<1>4. row' \in [Agents -> RowType]
  <2>1. \A n \in 0..Labels : [row EXCEPT ![a].leases = n] \in [Agents -> RowType]
    BY <1>1 DEF RowType, ReleaseLeases, Goto, Fault, Stays
  <2>2. 1..row[a].leases \subseteq 0..Labels /\ 0 \in 0..Labels
    BY <1>1 DEF RowType, ReleaseLeases, Goto, Fault, Stays
  <2>3. \E n \in 0..Labels : row' = [row EXCEPT ![a].leases = n]
    BY <2>2 DEF ReleaseLeases, Goto, Fault, Stays
  <2> QED
    BY <2>1, <2>3 DEF ReleaseLeases, Goto, Fault, Stays
<1>5. /\ left' \in [Agents -> SUBSET Things] /\ \A b \in Agents : left[b] \subseteq left'[b]
      /\ Leaving(a, {"leases"}) => \A x \in {"leases"} : Gone(a, x)'
  BY <1>1, LeavingGrows DEF TypeOK, Things, ReleaseLeases, Goto, Fault, Stays
<1>6. Alone(a)
  BY <1>1, <1>5 DEF Alone, TypeOK, ReleaseLeases, Goto, Fault, Stays
<1>7. /\ run[a].at = "leases" /\ UNCHANGED <<hardened, up, late>> /\ run'[a].at = "receipt"
      /\ run'[a].lease = run[a].lease /\ run'[a].proc = run[a].proc /\ run'[a].op = run[a].op
      /\ run'[a].live = run[a].live /\ run'[a].token = run[a].token /\ run'[a].res = run[a].res
      /\ run'[a].covers = run[a].covers /\ run'[a].accepted = run[a].accepted
      /\ run'[a].outcome = run[a].outcome /\ row'[a].status = row[a].status
      /\ row'[a].decision = row[a].decision /\ row'[a].budget = row[a].budget
      /\ row'[a].receipts = row[a].receipts
      /\ \/ /\ run'[a].terminal = run[a].terminal /\ row'[a].leases = 0
         \/ /\ run'[a].terminal = "Failed" /\ row'[a].leases \in 0..Labels
            /\ Leaving(a, {"leases"})
  <2>1. row'[a] \in RowType
    BY <1>4 DEF ReleaseLeases, Goto, Fault, Stays
  <2> QED
    BY <1>1, <2>1 DEF RunType, RowType, ReleaseLeases, Goto, Fault, Stays
<1> USE <1>1, <1>5, <1>7 DEF AgentInv, RunType, RowType, Open, Ended, Outcomes, Settling,
        Spawning, Undoing, Failing, Recovering, Forgotten
<1>8. Awake(a)'
  BY DEF Awake, Blank
<1>9. Recorded(a)'
  BY DEF Recorded, Gone, Has, NoRow
<1>10. Ending(a)'
  BY DEF Ending, Gone, Has, Recorded
<1>11. Resourced(a)'
  BY DEF Resourced, Gone, Has
<1>12. Reserved(a)'
  BY DEF Reserved, Unlisted, Gone, Has, Recorded
<1>13. Vouched(a)'
  BY DEF Vouched, Recorded, NoRow
<1>14. Leased(a)'
  BY DEF Leased, Gone, Has, Recorded, NoRow
<1> QED
  BY <1>3, <1>4, <1>6, <1>8, <1>9, <1>10, <1>11, <1>12, <1>13, <1>14,
     OneAgent DEF AgentInv

\* The leases are deleted, or the failing call leaves them.
LEMMA DeleteLeasesKeeps ==
  ASSUME ControlInv, NEW a \in Agents, DeleteLeases(a)
  PROVE  ControlInv'
<1> USE ControlAssumption DEF DeleteLeases, Step, Goto, Fault, Stays
<1>1. /\ TypeOK /\ row \in [Agents -> RowType] /\ run \in [Agents -> RunType]
      /\ run[a] \in RunType /\ row[a] \in RowType /\ AgentInv(a)
  BY Types DEF ControlInv
<1>2. {"plain", "remove"} \subseteq At
  BY DEF At, Settling, Spawning, Undoing, Failing, Recovering
<1>3. run' \in [Agents -> RunType]
  BY <1>1, <1>2 DEF RunType, Outcomes
<1>4. row' \in [Agents -> RowType]
  <2>1. \A n \in 0..Labels : [row EXCEPT ![a].leases = n] \in [Agents -> RowType]
    BY <1>1 DEF RowType
  <2>2. 1..row[a].leases \subseteq 0..Labels /\ 0 \in 0..Labels
    BY <1>1 DEF RowType
  <2>3. \E n \in 0..Labels : row' = [row EXCEPT ![a].leases = n]
    BY <2>2
  <2> QED
    BY <2>1, <2>3
<1>5. /\ left' \in [Agents -> SUBSET Things] /\ \A b \in Agents : left[b] \subseteq left'[b]
      /\ Leaving(a, {"leases"}) => \A x \in {"leases"} : Gone(a, x)'
  BY <1>1, LeavingGrows DEF TypeOK, Things
<1>6. Alone(a)
  BY <1>1, <1>5 DEF Alone, TypeOK
<1> USE <1>1, <1>5 DEF AgentInv, RunType, RowType, Open, Ended, Outcomes, Settling, Spawning,
        Undoing, Failing, Recovering, Forgotten
<1>7. Awake(a)'
  BY DEF Awake, Blank
<1>8. Recorded(a)'
  BY DEF Recorded, Gone, Has, NoRow
<1>9. Ending(a)'
  BY DEF Ending, Gone, Has, Recorded
<1>10. Resourced(a)'
  BY DEF Resourced, Gone, Has
<1>11. Reserved(a)'
  BY DEF Reserved, Unlisted, Gone, Has, Recorded
<1>12. Vouched(a)'
  BY DEF Vouched, Recorded, NoRow
<1>13. Leased(a)'
  BY DEF Leased, Gone, Has, Recorded, NoRow
<1> QED
  BY <1>3, <1>4, <1>6, <1>7, <1>8, <1>9, <1>10, <1>11, <1>12, <1>13,
     OneAgent DEF AgentInv

\* The receipt says what the settlement has found.
LEMMA PutReceiptKeeps ==
  ASSUME ControlInv, NEW a \in Agents, PutReceipt(a)
  PROVE  ControlInv'
<1> USE ControlAssumption DEF PutReceipt, Step, Goto, history
<1>1. /\ TypeOK /\ row \in [Agents -> RowType] /\ run \in [Agents -> RunType]
      /\ run[a] \in RunType /\ row[a] \in RowType /\ AgentInv(a)
  BY Types DEF ControlInv
<1>2. {"receipt", "remove"} \subseteq At
  BY DEF At, Settling, Spawning, Undoing, Failing, Recovering
<1>3. run' \in [Agents -> RunType]
  BY <1>1, <1>2 DEF RunType, Outcomes
<1>4. row' \in [Agents -> RowType]
  <2>1. run[a].terminal \in Outcomes
    BY <1>1 DEF AgentInv, Recorded, Settling
  <2> QED
    BY <1>1, <2>1 DEF RowType
<1>5. Alone(a)
  BY <1>1 DEF Alone, TypeOK
<1> USE <1>1 DEF AgentInv, RunType, RowType, Open, Ended, Outcomes, Settling, Spawning, Undoing,
        Failing, Recovering, Forgotten
<1>6. Awake(a)'
  BY DEF Awake, Blank
<1>7. Recorded(a)'
  BY DEF Recorded, Gone, Has, NoRow
<1>8. Ending(a)'
  BY DEF Ending, Gone, Has, Recorded
<1>9. Resourced(a)'
  BY DEF Resourced, Gone, Has
<1>10. Reserved(a)'
  BY DEF Reserved, Unlisted, Gone, Has, Recorded
<1>11. Vouched(a)'
  BY DEF Vouched, Recorded, NoRow
<1>12. Leased(a)'
  BY DEF Leased, Gone, Has, Recorded, NoRow
<1> QED
  BY <1>3, <1>4, <1>5, <1>6, <1>7, <1>8, <1>9, <1>10, <1>11, <1>12,
     OneAgent DEF AgentInv

\* The task ends.
LEMMA RemoveKeeps ==
  ASSUME ControlInv, NEW a \in Agents, Remove(a)
  PROVE  ControlInv'
<1> USE ControlAssumption
<1>1. /\ TypeOK /\ row \in [Agents -> RowType] /\ run \in [Agents -> RunType]
      /\ run[a] \in RunType /\ row[a] \in RowType /\ AgentInv(a)
  BY Types DEF ControlInv
<1>2. {"remove", "dropped", "over"} \subseteq At
  BY DEF At, Settling, Spawning, Undoing, Failing, Recovering
<1>3. run' \in [Agents -> RunType]
  <2> DEFINE l == IF run[a].lease THEN "dropped" ELSE "over"
  <2>1. run' = [run EXCEPT ![a].at = l, ![a].live = FALSE, ![a].covers = FALSE,
                           ![a].accepted = FALSE, ![a].outcome = None, ![a].terminal = None]
    BY <1>1 DEF Remove, history
  <2>2. l \in At
    BY <1>2
  <2> HIDE DEF l
  <2>3. [run[a] EXCEPT !.at = l, !.live = FALSE, !.covers = FALSE, !.accepted = FALSE,
                       !.outcome = None, !.terminal = None] \in RunType
    BY <1>1, <2>2 DEF RunType
  <2> QED
    BY <1>1, <2>1, <2>3
<1>4. row' \in [Agents -> RowType]
  BY <1>1 DEF Remove, history
<1>5. Alone(a)
  BY <1>1 DEF Alone, TypeOK, Remove, history
<1>6. /\ run[a].at = "remove" /\ left' = left /\ UNCHANGED <<hardened, up, late>>
      /\ run'[a].at = (IF run[a].lease THEN "dropped" ELSE "over") /\ run'[a].live = FALSE
      /\ run'[a].covers = FALSE /\ run'[a].accepted = FALSE /\ run'[a].outcome = None
      /\ run'[a].terminal = None /\ run'[a].lease = run[a].lease /\ run'[a].proc = run[a].proc
      /\ run'[a].op = run[a].op /\ run'[a].token = run[a].token /\ run'[a].res = run[a].res
      /\ row'[a].status = row[a].status /\ row'[a].decision = row[a].decision
      /\ row'[a].leases = row[a].leases /\ row'[a].budget = row[a].budget
      /\ row'[a].receipts = row[a].receipts
  BY <1>1 DEF RunType, RowType, Remove, history
<1> USE <1>1, <1>6 DEF AgentInv, RunType, RowType, Open, Ended, Outcomes, Settling, Spawning,
        Undoing, Failing, Recovering, Forgotten
<1>7. Awake(a)'
  BY DEF Awake, Blank
<1>8. Recorded(a)'
  BY DEF Recorded, Gone, Has, NoRow
<1>9. Ending(a)'
  BY DEF Ending, Gone, Has, Recorded
<1>10. Resourced(a)'
  BY DEF Resourced, Gone, Has
<1>11. Reserved(a)'
  BY DEF Reserved, Unlisted, Gone, Has, Recorded
<1>12. Vouched(a)'
  BY DEF Vouched, Recorded, NoRow
<1>13. Leased(a)'
  BY DEF Leased, Gone, Has, Recorded, NoRow
<1> QED
  BY <1>3, <1>4, <1>5, <1>7, <1>8, <1>9, <1>10, <1>11, <1>12, <1>13,
     OneAgent DEF AgentInv

\* A cancelled parent ends what it took over.
LEMMA ParentCancelledKeeps ==
  ASSUME ControlInv, NEW a \in Agents, ParentCancelled(a)
  PROVE  ControlInv'
<1> USE ControlAssumption DEF ParentCancelled, history
<1>1. /\ TypeOK /\ row \in [Agents -> RowType] /\ run \in [Agents -> RunType]
      /\ run[a] \in RunType /\ row[a] \in RowType /\ AgentInv(a)
  BY Types DEF ControlInv
<1>2. {"over"} \subseteq At
  BY DEF At, Settling, Spawning, Undoing, Failing, Recovering
<1>3. run' \in [Agents -> RunType]
  BY <1>1, <1>2 DEF RunType, Outcomes
<1>4. row' \in [Agents -> RowType]
  BY <1>1
<1>5. Alone(a)
  BY <1>1 DEF Alone, TypeOK
<1> USE <1>1 DEF AgentInv, RunType, RowType, Open, Ended, Outcomes, Settling, Spawning, Undoing,
        Failing, Recovering, Forgotten
<1>6. Awake(a)'
  BY DEF Awake, Blank
<1>7. Recorded(a)'
  BY DEF Recorded, Gone, Has, NoRow
<1>8. Ending(a)'
  BY DEF Ending, Gone, Has, Recorded
<1>9. Resourced(a)'
  BY DEF Resourced, Gone, Has
<1>10. Reserved(a)'
  BY DEF Reserved, Unlisted, Gone, Has, Recorded
<1>11. Vouched(a)'
  BY DEF Vouched, Recorded, NoRow
<1>12. Leased(a)'
  BY DEF Leased, Gone, Has, Recorded, NoRow
<1> QED
  BY <1>3, <1>4, <1>5, <1>6, <1>7, <1>8, <1>9, <1>10, <1>11, <1>12,
     OneAgent DEF AgentInv

\* The recovery takes an open row.
LEMMA PickKeeps ==
  ASSUME ControlInv, NEW a \in Agents, Pick(a)
  PROVE  ControlInv'
<1> USE ControlAssumption DEF Pick, Goto, history
<1>1. /\ TypeOK /\ row \in [Agents -> RowType] /\ run \in [Agents -> RunType]
      /\ run[a] \in RunType /\ row[a] \in RowType /\ AgentInv(a)
  BY Types DEF ControlInv
<1>2. {"decide", "interrupt"} \subseteq At
  BY DEF At, Settling, Spawning, Undoing, Failing, Recovering
<1>3. run' \in [Agents -> RunType]
  BY <1>1, <1>2 DEF RunType, Outcomes
<1>4. row' \in [Agents -> RowType]
  BY <1>1
<1>5. Alone(a)
  BY <1>1 DEF Alone, TypeOK
<1> USE <1>1 DEF AgentInv, RunType, RowType, Open, Ended, Outcomes, Settling, Spawning, Undoing,
        Failing, Recovering, Forgotten
<1>6. Awake(a)'
  BY DEF Awake, Blank
<1>7. Recorded(a)'
  BY DEF Recorded, Gone, Has, NoRow
<1>8. Ending(a)'
  BY DEF Ending, Gone, Has, Recorded
<1>9. Resourced(a)'
  BY DEF Resourced, Gone, Has
<1>10. Reserved(a)'
  BY DEF Reserved, Unlisted, Gone, Has, Recorded
<1>11. Vouched(a)'
  BY DEF Vouched, Recorded, NoRow
<1>12. Leased(a)'
  BY DEF Leased, Gone, Has, Recorded, NoRow
<1> QED
  BY <1>3, <1>4, <1>5, <1>6, <1>7, <1>8, <1>9, <1>10, <1>11, <1>12,
     OneAgent DEF AgentInv

\* The recovery decides once.
LEMMA DecideKeeps ==
  ASSUME ControlInv, NEW a \in Agents, Decide(a)
  PROVE  ControlInv'
<1> USE ControlAssumption
<1>1. /\ TypeOK /\ row \in [Agents -> RowType] /\ run \in [Agents -> RunType]
      /\ run[a] \in RunType /\ row[a] \in RowType /\ AgentInv(a)
  BY Types DEF ControlInv
<1>2. {"decide", "interrupt"} \subseteq At
  BY DEF At, Settling, Spawning, Undoing, Failing, Recovering
<1>3. run' \in [Agents -> RunType]
  BY <1>1, <1>2 DEF RunType, Outcomes, Decide, Decision, Step, Goto, history
<1>4. row' \in [Agents -> RowType]
  BY <1>1 DEF RowType, Decide, Decision, Step, Goto, history
<1>5. Alone(a)
  BY <1>1 DEF Alone, TypeOK, Decide, Decision, Step, Goto, history
<1>6. /\ run[a].at = "decide" /\ left' = left /\ UNCHANGED <<hardened, up, late>>
      /\ run'[a].at = "interrupt" /\ row'[a].decision = "Interrupt"
      /\ run'[a].lease = run[a].lease /\ run'[a].proc = run[a].proc /\ run'[a].op = run[a].op
      /\ run'[a].live = run[a].live /\ run'[a].token = run[a].token /\ run'[a].res = run[a].res
      /\ run'[a].covers = run[a].covers /\ run'[a].accepted = run[a].accepted
      /\ run'[a].outcome = run[a].outcome /\ run'[a].terminal = run[a].terminal
      /\ row'[a].status = row[a].status /\ row'[a].leases = row[a].leases
      /\ row'[a].budget = row[a].budget /\ row'[a].receipts = row[a].receipts
  BY <1>1 DEF RunType, RowType, AgentInv, Awake, Blank, Forgotten, Recovering, Decide, Decision,
     Step, Goto, history
<1> USE <1>1, <1>6 DEF AgentInv, RunType, RowType, Open, Ended, Outcomes, Settling, Spawning,
        Undoing, Failing, Recovering, Forgotten
<1>7. Awake(a)'
  BY DEF Awake, Blank
<1>8. Recorded(a)'
  BY DEF Recorded, Gone, Has, NoRow
<1>9. Ending(a)'
  BY DEF Ending, Gone, Has, Recorded
<1>10. Resourced(a)'
  BY DEF Resourced, Gone, Has
<1>11. Reserved(a)'
  BY DEF Reserved, Unlisted, Gone, Has, Recorded
<1>12. Vouched(a)'
  BY DEF Vouched, Recorded, NoRow
<1>13. Leased(a)'
  BY DEF Leased, Gone, Has, Recorded, NoRow
<1> QED
  BY <1>3, <1>4, <1>5, <1>7, <1>8, <1>9, <1>10, <1>11, <1>12, <1>13,
     OneAgent DEF AgentInv

\* The row of a lost run is closed.
LEMMA InterruptKeeps ==
  ASSUME ControlInv, NEW a \in Agents, Interrupt(a)
  PROVE  ControlInv'
<1> USE ControlAssumption DEF Interrupt, Step, Goto, history
<1>1. /\ TypeOK /\ row \in [Agents -> RowType] /\ run \in [Agents -> RunType]
      /\ run[a] \in RunType /\ row[a] \in RowType /\ AgentInv(a)
  BY Types DEF ControlInv
<1>2. {"interrupt", "reclaim", "gone"} \subseteq At
  BY DEF At, Settling, Spawning, Undoing, Failing, Recovering
<1>3. run' \in [Agents -> RunType]
  BY <1>1, <1>2 DEF RunType, Outcomes
<1>4. row' \in [Agents -> RowType]
  BY <1>1 DEF RowType, Ended
<1>5. Alone(a)
  BY <1>1 DEF Alone, TypeOK
<1> USE <1>1 DEF AgentInv, RunType, RowType, Open, Ended, Outcomes, Settling, Spawning, Undoing,
        Failing, Recovering, Forgotten
<1>6. Awake(a)'
  BY DEF Awake, Blank
<1>7. Recorded(a)'
  BY DEF Recorded, Gone, Has, NoRow
<1>8. Ending(a)'
  BY DEF Ending, Gone, Has, Recorded
<1>9. Resourced(a)'
  BY DEF Resourced, Gone, Has
<1>10. Reserved(a)'
  BY DEF Reserved, Unlisted, Gone, Has, Recorded
<1>11. Vouched(a)'
  BY DEF Vouched, Recorded, NoRow
<1>12. Leased(a)'
  BY DEF Leased, Gone, Has, Recorded, NoRow
<1> QED
  BY <1>3, <1>4, <1>5, <1>6, <1>7, <1>8, <1>9, <1>10, <1>11, <1>12,
     OneAgent DEF AgentInv

\* Its reservation is closed unless it was transferred.
LEMMA ReclaimKeeps ==
  ASSUME ControlInv, NEW a \in Agents, Reclaim(a)
  PROVE  ControlInv'
<1> USE ControlAssumption
<1>1. /\ TypeOK /\ row \in [Agents -> RowType] /\ run \in [Agents -> RunType]
      /\ run[a] \in RunType /\ row[a] \in RowType /\ AgentInv(a)
  BY Types DEF ControlInv
<1>2. {"reclaim", "reclaimLeases"} \subseteq At
  BY DEF At, Settling, Spawning, Undoing, Failing, Recovering
<1>3. run' \in [Agents -> RunType]
  BY <1>1, <1>2 DEF RunType, Outcomes, Reclaim, Step, Goto, history
<1>4. row' \in [Agents -> RowType]
  BY <1>1, RevokedType DEF Reclaim, Step, Goto, history
<1>5. Alone(a)
  BY <1>1, RevokedType DEF Alone, TypeOK, Reclaim, Step, Goto, history
<1>6. /\ run[a].at = "reclaim" /\ left' = left /\ UNCHANGED <<hardened, up, late>>
      /\ run'[a].at = "reclaimLeases" /\ row'[a].budget # "open" /\ run'[a].lease = run[a].lease
      /\ run'[a].proc = run[a].proc /\ run'[a].op = run[a].op /\ run'[a].live = run[a].live
      /\ run'[a].token = run[a].token /\ run'[a].res = run[a].res
      /\ run'[a].covers = run[a].covers /\ run'[a].accepted = run[a].accepted
      /\ run'[a].outcome = run[a].outcome /\ run'[a].terminal = run[a].terminal
      /\ row'[a].status = row[a].status /\ row'[a].decision = row[a].decision
      /\ row'[a].leases = row[a].leases /\ row'[a].receipts = row[a].receipts
  BY <1>1, RevokedType DEF RunType, RowType, Reclaim, Step, Goto, history
<1>7. row[a].budget # "open" => row'[a].budget = row[a].budget
  BY <1>1, RevokedType DEF Reclaim
<1> USE <1>1, <1>6, <1>7, RevokedType DEF AgentInv, RunType, RowType, Open, Ended, Outcomes,
        Settling, Spawning, Undoing, Failing, Recovering, Forgotten
<1>8. Awake(a)'
  BY DEF Awake, Blank
<1>9. Recorded(a)'
  BY DEF Recorded, Gone, Has, NoRow
<1>10. Ending(a)'
  BY DEF Ending, Gone, Has, Recorded
<1>11. Resourced(a)'
  BY DEF Resourced, Gone, Has
<1>12. Reserved(a)'
  BY DEF Reserved, Unlisted, Gone, Has, Recorded
<1>13. Vouched(a)'
  BY DEF Vouched, Recorded, NoRow
<1>14. Leased(a)'
  BY DEF Leased, Gone, Has, Recorded, NoRow
<1> QED
  BY <1>3, <1>4, <1>5, <1>8, <1>9, <1>10, <1>11, <1>12, <1>13, <1>14,
     OneAgent DEF AgentInv

\* Its leases are released, or the failing call leaves them.
LEMMA ReclaimLeasesKeeps ==
  ASSUME ControlInv, NEW a \in Agents, ReclaimLeases(a)
  PROVE  ControlInv'
<1> USE ControlAssumption DEF ReclaimLeases, Step, Goto, Fault, Stays
<1>1. /\ TypeOK /\ row \in [Agents -> RowType] /\ run \in [Agents -> RunType]
      /\ run[a] \in RunType /\ row[a] \in RowType /\ AgentInv(a)
  BY Types DEF ControlInv
<1>2. {"reclaimLeases", "reclaimReceipt"} \subseteq At
  BY DEF At, Settling, Spawning, Undoing, Failing, Recovering
<1>3. run' \in [Agents -> RunType]
  BY <1>1, <1>2 DEF RunType, Outcomes
<1>4. row' \in [Agents -> RowType]
  <2>1. \A n \in 0..Labels : [row EXCEPT ![a].leases = n] \in [Agents -> RowType]
    BY <1>1 DEF RowType
  <2>2. 1..row[a].leases \subseteq 0..Labels /\ 0 \in 0..Labels
    BY <1>1 DEF RowType
  <2>3. \E n \in 0..Labels : row' = [row EXCEPT ![a].leases = n]
    BY <2>2
  <2> QED
    BY <2>1, <2>3
<1>5. /\ left' \in [Agents -> SUBSET Things] /\ \A b \in Agents : left[b] \subseteq left'[b]
      /\ Leaving(a, {"leases"}) => \A x \in {"leases"} : Gone(a, x)'
  BY <1>1, LeavingGrows DEF TypeOK, Things
<1>6. Alone(a)
  BY <1>1, <1>5 DEF Alone, TypeOK
<1> USE <1>1, <1>5 DEF AgentInv, RunType, RowType, Open, Ended, Outcomes, Settling, Spawning,
        Undoing, Failing, Recovering, Forgotten
<1>7. Awake(a)'
  BY DEF Awake, Blank
<1>8. Recorded(a)'
  BY DEF Recorded, Gone, Has, NoRow
<1>9. Ending(a)'
  BY DEF Ending, Gone, Has, Recorded
<1>10. Resourced(a)'
  BY DEF Resourced, Gone, Has
<1>11. Reserved(a)'
  BY DEF Reserved, Unlisted, Gone, Has, Recorded
<1>12. Vouched(a)'
  BY DEF Vouched, Recorded, NoRow
<1>13. Leased(a)'
  BY DEF Leased, Gone, Has, Recorded, NoRow
<1> QED
  BY <1>3, <1>4, <1>6, <1>7, <1>8, <1>9, <1>10, <1>11, <1>12, <1>13,
     OneAgent DEF AgentInv

\* Its receipt says Failed.
LEMMA ReclaimReceiptKeeps ==
  ASSUME ControlInv, NEW a \in Agents, ReclaimReceipt(a)
  PROVE  ControlInv'
<1> USE ControlAssumption DEF ReclaimReceipt, Step, Goto, history
<1>1. /\ TypeOK /\ row \in [Agents -> RowType] /\ run \in [Agents -> RunType]
      /\ run[a] \in RunType /\ row[a] \in RowType /\ AgentInv(a)
  BY Types DEF ControlInv
<1>2. {"reclaimReceipt", "gone"} \subseteq At
  BY DEF At, Settling, Spawning, Undoing, Failing, Recovering
<1>3. run' \in [Agents -> RunType]
  BY <1>1, <1>2 DEF RunType, Outcomes
<1>4. row' \in [Agents -> RowType]
  BY <1>1 DEF RowType, Outcomes
<1>5. Alone(a)
  BY <1>1 DEF Alone, TypeOK
<1> USE <1>1 DEF AgentInv, RunType, RowType, Open, Ended, Outcomes, Settling, Spawning, Undoing,
        Failing, Recovering, Forgotten
<1>6. Awake(a)'
  BY DEF Awake, Blank
<1>7. Recorded(a)'
  BY DEF Recorded, Gone, Has, NoRow
<1>8. Ending(a)'
  BY DEF Ending, Gone, Has, Recorded
<1>9. Resourced(a)'
  BY DEF Resourced, Gone, Has
<1>10. Reserved(a)'
  BY DEF Reserved, Unlisted, Gone, Has, Recorded
<1>11. Vouched(a)'
  BY DEF Vouched, Recorded, NoRow
<1>12. Leased(a)'
  BY DEF Leased, Gone, Has, Recorded, NoRow
<1> QED
  BY <1>3, <1>4, <1>5, <1>6, <1>7, <1>8, <1>9, <1>10, <1>11, <1>12,
     OneAgent DEF AgentInv

\* A cancellation reaches live runs only, and ends operations that have not ended.
LEMMA CancelKeeps ==
  ASSUME ControlInv, NEW a \in Agents, Cancel(a)
  PROVE  ControlInv'
<1>1. TypeOK /\ row \in [Agents -> RowType] /\ run \in [Agents -> RunType]
  BY Types DEF ControlInv
<1>2. /\ row' = row /\ left' = left /\ UNCHANGED <<hardened, up, crashes, late>>
      /\ faults' \in 0..MaxFaults
  BY <1>1, ControlAssumption DEF Cancel, Fault, Stays, TypeOK
<1>3. ASSUME NEW b \in Agents
      PROVE  /\ run'[b] \in RunType
             /\ run'[b] # run[b] => run[b].live
             /\ run'[b].at = run[b].at /\ run'[b].lease = run[b].lease
             /\ run'[b].proc = run[b].proc /\ run'[b].live = run[b].live
             /\ run'[b].res = run[b].res /\ run'[b].covers = run[b].covers
             /\ run'[b].accepted = run[b].accepted /\ run'[b].outcome = run[b].outcome
             /\ run'[b].terminal = run[b].terminal
             /\ Unended(run'[b].op) => Unended(run[b].op)
  <2> DEFINE told == [run[b] EXCEPT !.token = TRUE]
             ended == [run[b] EXCEPT !.token = TRUE, !.op = Cancelled(@)]
  <2>1. /\ run[b] \in RunType
        /\ run'[b] = run[b] \/ (run[b].live /\ (run'[b] = told \/ run'[b] = ended))
    <3>1. run[b] \in RunType
      BY <1>1
    <3>2. PICK reached \in BOOLEAN : run' = [c \in Agents |->
            IF c = a THEN [run[a] EXCEPT !.token = TRUE, !.op = IF reached THEN Cancelled(@) ELSE @]
            ELSE IF run[c].live /\ c \in Subtree(a) THEN [run[c] EXCEPT !.token = TRUE]
            ELSE run[c]]
      BY DEF Cancel
    <3>3. CASE b # a
      BY <3>1, <3>2, <3>3
    <3>4. CASE b = a /\ reached
      <4>1. run'[b] = ended
        BY <3>2, <3>4
      <4> QED
        BY <3>1, <3>4, <4>1 DEF Cancel
    <3>5. CASE b = a /\ ~reached
      <4>1. run'[b] = [run[b] EXCEPT !.token = TRUE, !.op = @]
        BY <3>2, <3>5
      <4>2. run'[b] = told
        BY <3>1, <4>1 DEF RunType
      <4> QED
        BY <3>1, <3>5, <4>2 DEF Cancel
    <3> QED
      BY <3>3, <3>4, <3>5, <3>1
  <2>2. Cancelled(run[b].op) \in {None, "Created", "Running", "Ended"}
    BY <2>1 DEF Cancelled, RunType
  <2>3. told \in RunType /\ ended \in RunType
    BY <2>1, <2>2 DEF RunType
  <2>4. CASE run'[b] = told
    BY <2>1, <2>3, <2>4 DEF RunType
  <2>5. CASE run'[b] = ended
    BY <2>1, <2>3, <2>5 DEF RunType, Cancelled, Unended
  <2> QED
    BY <2>1, <2>4, <2>5
<1>4. TypeOK'
  <2>1. run' \in [Agents -> RunType]
    BY <1>3 DEF Cancel
  <2> QED
    BY <1>1, <1>2, <2>1 DEF TypeOK, RunType
<1>5. ASSUME NEW b \in Agents
      PROVE  AgentInv(b)'
  <2>1. AgentInv(b)
    BY DEF ControlInv
  <2>2. \A x \in Things : Gone(b, x) => Gone(b, x)'
    BY <1>2, <1>3 DEF Gone, Has
  <2>3. Awake(b)'
    <3>1. CASE run'[b] = run[b]
      BY <1>2, <2>1, <3>1 DEF AgentInv, Awake, Blank
    <3>2. CASE run'[b] # run[b]
      BY <1>2, <1>3, <2>1, <3>2 DEF AgentInv, Awake, Blank
    <3> QED
      BY <3>1, <3>2
  <2>4. Recorded(b)' /\ Ending(b)'
    BY <1>2, <1>3, <2>1, <2>2 DEF AgentInv, Recorded, Ending, Things
  <2>5. Resourced(b)' /\ Reserved(b)'
    BY <1>2, <1>3, <2>1, <2>2 DEF AgentInv, Resourced, Reserved, Unlisted, Things
  <2>6. Vouched(b)' /\ Leased(b)'
    BY <1>2, <1>3, <2>1, <2>2 DEF AgentInv, Vouched, Leased, Things
  <2> QED
    BY <2>3, <2>4, <2>5, <2>6 DEF AgentInv
<1> QED
  BY <1>4, <1>5 DEF ControlInv

\* A crash forgets the runs and notes the reservations that no recovery will look at.
LEMMA CrashKeeps ==
  ASSUME ControlInv, Crash
  PROVE  ControlInv'
<1> USE ControlAssumption DEF Crash
<1>1. TypeOK /\ row \in [Agents -> RowType] /\ run \in [Agents -> RunType]
  BY Types DEF ControlInv
<1>2. NoRun("none") \in RunType /\ NoRun("lost") \in RunType
  BY DEF NoRun, RunType, At
<1>3. run' \in [Agents -> RunType]
  BY <1>2
<1>4. TypeOK'
  <2>1. crashes' \in 0..MaxCrashes /\ late' \subseteq Agents
    BY <1>1 DEF TypeOK
  <2> QED
    BY <1>1, <1>3, <2>1 DEF TypeOK, RowType, RunType
<1>5. ASSUME NEW b \in Agents
      PROVE  AgentInv(b)'
  <2> DEFINE l == IF run[b].at = "none" THEN "none" ELSE "lost"
  <2>1. run'[b] = NoRun(l) /\ AgentInv(b)
    BY DEF ControlInv
  <2>2. run'[b].at = l /\ Blank(b)'
    BY <2>1 DEF NoRun, Blank
  <2>3. Awake(b)'
    BY <2>2 DEF Awake, Forgotten, Recovering
  <2>4. Recorded(b)'
    BY <2>1, <2>2 DEF AgentInv, Recorded, Settling, Undoing
  <2>5. Ending(b)' /\ Resourced(b)'
    BY <2>2 DEF Ending, Resourced, Blank, Settling, Spawning, Undoing, Failing
  <2>6. Reserved(b)'
    BY <2>2 DEF Reserved, Unlisted, Forgotten
  <2>7. Vouched(b)' /\ Leased(b)'
    <3>1. CASE run[b].at = "none"
      BY <2>1, <2>2, <3>1 DEF AgentInv, Recorded, Vouched, Leased, NoRow, Undoing
    <3>2. CASE run[b].at # "none"
      BY <2>1, <2>2, <3>2 DEF AgentInv, Vouched, Leased, Blank, Gone, Has, Undoing
    <3> QED
      BY <3>1, <3>2
  <2> QED
    BY <2>3, <2>4, <2>5, <2>6, <2>7 DEF AgentInv
<1> QED
  BY <1>4, <1>5 DEF ControlInv

\* The recovery ends with no open row, and deletes leases of ended runs only.
LEMMA ReadyKeeps ==
  ASSUME ControlInv, Ready
  PROVE  ControlInv'
<1> USE ControlAssumption DEF Ready, history
<1>1. TypeOK /\ row \in [Agents -> RowType] /\ run \in [Agents -> RunType]
  BY Types DEF ControlInv
<1>2. NoRun("gone") \in RunType
  BY DEF NoRun, RunType, At
<1>3. run' \in [Agents -> RunType]
  BY <1>1, <1>2
<1>4. ASSUME NEW b \in Agents
      PROVE  /\ row'[b] \in RowType
             /\ row'[b].status = row[b].status /\ row'[b].decision = row[b].decision
             /\ row'[b].budget = row[b].budget /\ row'[b].receipts = row[b].receipts
             /\ row'[b].leases \in {0, row[b].leases}
             /\ row[b].status \notin Ended => row'[b] = row[b]
  <2>1. PICK expired \in SUBSET {c \in Agents : row[c].status \in Ended} :
          row' = [c \in Agents |-> IF c \in expired THEN [row[c] EXCEPT !.leases = 0] ELSE row[c]]
    OBVIOUS
  <2>2. row[b] \in RowType /\ 0 \in 0..Labels
    BY <1>1
  <2>3. CASE b \in expired
    <3>1. row'[b] = [row[b] EXCEPT !.leases = 0] /\ row[b].status \in Ended
      BY <2>1, <2>3
    <3> QED
      BY <2>2, <3>1 DEF RowType
  <2>4. CASE b \notin expired
    BY <2>1, <2>2, <2>4
  <2> QED
    BY <2>3, <2>4
<1>5. row' \in [Agents -> RowType]
  BY <1>4
<1>6. TypeOK'
  BY <1>1, <1>3, <1>5 DEF TypeOK, RowType, RunType
<1>7. ASSUME NEW b \in Agents
      PROVE  AgentInv(b)'
  <2>1. /\ AgentInv(b) /\ row[b].status \notin Open /\ run[b].at \notin Recovering
        /\ run[b].at \in Forgotten
    BY DEF ControlInv, Between, AgentInv, Awake
  <2>2. /\ run'[b].at = IF run[b].at = "lost" THEN "gone" ELSE run[b].at
        /\ Blank(b)'
    BY <2>1 DEF AgentInv, Awake, NoRun, Blank
  <2>3. Awake(b)'
    BY <2>1, <2>2 DEF Awake, Forgotten, Recovering
  <2>4. Recorded(b)'
    BY <1>4, <2>1, <2>2 DEF AgentInv, Recorded, Forgotten, Recovering, Settling, Undoing, Open,
                            Ended, NoRow
  <2>5. Ending(b)' /\ Resourced(b)'
    BY <2>1, <2>2 DEF Ending, Resourced, Blank, Forgotten, Recovering, Settling, Spawning, Undoing,
                      Failing
  <2>6. Reserved(b)'
    BY <1>4, <2>1, <2>2 DEF AgentInv, Reserved, Unlisted, Forgotten, Recovering
  <2>7. Vouched(b)'
    BY <1>4, <2>1, <2>2 DEF AgentInv, Blank, Vouched, Forgotten, Recovering
  <2>8. Leased(b)'
    BY <1>4, <2>1, <2>2 DEF AgentInv, Leased, Gone, Has, Forgotten, Recovering, Undoing
  <2> QED
    BY <2>3, <2>4, <2>5, <2>6, <2>7, <2>8 DEF AgentInv
<1> QED
  BY <1>6, <1>7 DEF ControlInv

\* Every step keeps the invariant.
LEMMA NextControl == ControlInv /\ [Next]_vars => ControlInv'
<1> SUFFICES ASSUME ControlInv, [Next]_vars
             PROVE  ControlInv'
  OBVIOUS
<1>1. CASE UNCHANGED vars
  <2>1. TypeOK'
    BY <1>1 DEF vars, ControlInv, TypeOK
  <2>2. \A b \in Agents : AgentInv(b)'
    BY <1>1, OthersKeep DEF vars
  <2> QED
    BY <2>1, <2>2 DEF ControlInv
<1>2. ASSUME NEW a \in Agents, Spawns(a)
      PROVE  ControlInv'
  BY <1>2, ReserveKeeps, SetUpKeeps, SetUpFailsKeeps, UndoKeeps, UndoRevokeKeeps,
     RegisterFailsKeeps, CreateRowKeeps, PutLeaseKeeps, GoLiveKeeps, BindFailsKeeps, LaunchKeeps,
     DroppedRevokeKeeps DEF Spawns
<1>3. ASSUME NEW a \in Agents, Runs(a)
      PROVE  ControlInv'
  BY <1>3, StartKeeps, StartFailedKeeps, TeardownKeeps, TeardownRevokeKeeps, MarkKeeps,
     MarkRunningKeeps, OutcomeKeeps DEF Runs
<1>4. ASSUME NEW a \in Agents, Finishes(a)
      PROVE  ControlInv'
  BY <1>4, FinishKeeps, RecordOutcomeKeeps, TerminateKeeps, QuiesceKeeps, StopResourcesKeeps,
     GiveUpKeeps, TransferKeeps, FlushKeeps, SettleAdmissionKeeps, ResourcesKeeps,
     SettleFailsKeeps, ReleaseLeasesKeeps, DeleteLeasesKeeps, PutReceiptKeeps, RemoveKeeps
     DEF Finishes
<1>5. ASSUME NEW a \in Agents, Recovers(a)
      PROVE  ControlInv'
  BY <1>5, PickKeeps, DecideKeeps, InterruptKeeps, ReclaimKeeps, ReclaimLeasesKeeps,
     ReclaimReceiptKeeps DEF Recovers
<1>6. ASSUME NEW a \in Agents, DropSpawn(a) \/ Cancel(a) \/ ParentCancelled(a)
      PROVE  ControlInv'
  BY <1>6, DropSpawnKeeps, CancelKeeps, ParentCancelledKeeps
<1> QED
  BY <1>1, <1>2, <1>3, <1>4, <1>5, <1>6, CrashKeeps, ReadyKeeps DEF Next, Acts

\* The invariant holds in every state that spawns, runs, settlements, failing calls, dropped
\* spawns, crashes and recoveries reach.
THEOREM Control == Spec => []ControlInv
BY InitControl, NextControl, PTL DEF Spec

-----------------------------------------------------------------------------
(* The safety invariants.                                                  *)

\* Whichever way a spawn or a run ended, the agent has only what a failing call or the
\* dropped future left, and a settlement receipt that does not say Failed is true.
THEOREM NothingIsLeft == Spec => []NothingLeft
<1>1. ASSUME ControlInv
      PROVE  NothingLeft
  <2>1. TypeOK
    BY <1>1 DEF ControlInv
  <2>2. ASSUME NEW a \in Agents, run[a].at = "over"
        PROVE  \A x \in Things : Has(a, x) => x \in left[a]
    <3>1. AgentInv(a)
      BY <1>1 DEF ControlInv
    <3>2. Gone(a, "row") /\ Gone(a, "process") /\ Gone(a, "operation") /\ Gone(a, "live")
      BY <2>2, <3>1 DEF AgentInv, Recorded, Ending
    <3>3. Gone(a, "resource") /\ Gone(a, "leases")
      BY <2>2, <3>1 DEF AgentInv, Resourced, Leased
    <3>4. Gone(a, "budget")
      BY <2>2, <3>1 DEF AgentInv, Reserved, Gone, Has, Forgotten, Recovering
    <3> QED
      BY <3>2, <3>3, <3>4 DEF Gone, Things
  <2>3. ASSUME NEW a \in Agents
        PROVE  /\ row[a].receipts \ {"Failed"} # {} =>
                    \A x \in {"resource", "leases", "budget"} : ~Has(a, x)
               /\ row[a].receipts # {} /\ Has(a, "leases") => "leases" \in left[a]
    <3>1. AgentInv(a)
      BY <1>1 DEF ControlInv
    <3>2. row[a].receipts \ {"Failed"} # {} =>
            row[a].leases = 0 /\ row[a].budget # "open" /\ run[a].res # "child"
      BY <3>1 DEF AgentInv, Vouched
    <3>3. row[a].receipts # {} => Gone(a, "leases")
      BY <3>1 DEF AgentInv, Leased
    <3> QED
      BY <3>2, <3>3 DEF Gone, Has
  <2> QED
    BY <2>1, <2>2, <2>3 DEF NothingLeft
<1> QED
  BY <1>1, Control, PTL

\* After a restart no row of a lost run is open, and with settlement no reservation of one
\* is, except where the recovery did not look.
THEOREM LostRunsReclaimed == Spec => []Reclaimed
<1>1. ControlInv => Reclaimed
  BY DEF ControlInv, AgentInv, Recorded, Reserved, Reclaimed
<1> QED
  BY <1>1, Control, PTL

\* A resource in the hands of the parent was declared, and what was left of its agent's own
\* reservation was transferred to the parent's.
THEOREM SurvivorsBringTheirBudget == Spec => []SurvivorBringsItsBudget
<1>1. ControlInv => SurvivorBringsItsBudget
  BY DEF ControlInv, AgentInv, Resourced, SurvivorBringsItsBudget
<1> QED
  BY <1>1, Control, PTL

-----------------------------------------------------------------------------
(* What a step does to the stored statuses.                                *)

\* No status is written, no decision replaced, no transfer undone and no receipt lost.
Quiet ==
  \A b \in Agents :
    /\ row'[b].status = row[b].status
    /\ row[b].decision # None => row'[b].decision = row[b].decision
    /\ row[b].budget = "transferred" => row'[b].budget = "transferred"
    /\ row[b].receipts \subseteq row'[b].receipts

\* The edges of the lifecycle that the code takes.
Edge(s, t) ==
  \/ s = None /\ t = "Queued"
  \/ s = "Queued" /\ t \in {"Running", "Failed", "Interrupted"}
  \/ s = "Running" /\ t \in {"Succeeded", "Failed", "Cancelled", "Interrupted"}

\* One status is written, along an edge, and nothing else of a row.
Written ==
  \E a \in Agents, t \in Open \cup Ended :
    Edge(row[a].status, t) /\ row' = [row EXCEPT ![a].status = t]

\* Every step leaves the statuses alone or takes one edge.
LEMMA StatusWrites ==
  ASSUME ControlInv, [Next]_vars
  PROVE  Quiet \/ Written
<1> USE DEF Step, Goto, history, Stays
<1>1. /\ row \in [Agents -> RowType] /\ \A a \in Agents : AgentInv(a)
  BY Types DEF ControlInv
<1>2. CASE row' = row
  BY <1>2 DEF Quiet
<1>3. ASSUME NEW a \in Agents, row' = Revoked(a)
      PROVE  Quiet
  BY <1>1, <1>3 DEF Quiet, Revoked, RowType
<1>4. ASSUME NEW a \in Agents, NEW from, NEW to, RevokeLease(a, from, to) \/ EndProcess(a, from, to)
      PROVE  Quiet
  BY <1>2, <1>3, <1>4 DEF RevokeLease, EndProcess, Quiet
<1>5. ASSUME NEW a \in Agents, NEW n, row' = [row EXCEPT ![a].leases = n]
      PROVE  Quiet
  BY <1>1, <1>5 DEF Quiet, RowType
<1>6. ASSUME NEW a \in Agents, Spawns(a)
      PROVE  Quiet \/ Written
  <2>1. CASE Reserve(a)
    <3>1. row[a] = NoRow
      BY <1>1, <2>1 DEF Reserve, AgentInv, Recorded
    <3> QED
      BY <1>1, <2>1, <3>1 DEF Reserve, Quiet, RowType, NoRow
  <2>2. CASE CreateRow(a)
    <3>1. row[a].status = None
      BY <1>1, <2>2 DEF CreateRow, AgentInv, Recorded
    <3> QED
      BY <2>2, <3>1 DEF CreateRow, Written, Edge, Open
  <2>3. CASE PutLease(a)
    BY <1>1, <1>2, <2>3 DEF PutLease, Quiet, RowType
  <2>4. CASE Undo(a) \/ UndoRevoke(a) \/ DroppedRevoke(a)
    BY <1>4, <2>4 DEF Undo, UndoRevoke, DroppedRevoke
  <2>5. CASE SetUp(a) \/ SetUpFails(a) \/ RegisterFails(a) \/ GoLive(a) \/ BindFails(a) \/ Launch(a)
    BY <1>2, <2>5 DEF SetUp, SetUpFails, RegisterFails, GoLive, BindFails, Launch
  <2> QED
    BY <1>6, <2>1, <2>2, <2>3, <2>4, <2>5 DEF Spawns
<1>7. ASSUME NEW a \in Agents, Runs(a)
      PROVE  Quiet \/ Written
  <2>1. CASE StartFailed(a)
    <3>1. row[a].status = "Queued"
      BY <1>1, <2>1 DEF StartFailed, AgentInv, Recorded
    <3> QED
      BY <1>2, <2>1, <3>1 DEF StartFailed, Written, Edge, Ended
  <2>2. CASE Mark(a)
    <3>1. row[a].status = "Queued"
      BY <1>1, <2>2 DEF Mark, AgentInv, Recorded
    <3> QED
      BY <1>2, <2>2, <3>1 DEF Mark, Written, Edge, Open
  <2>3. CASE Teardown(a) \/ TeardownRevoke(a)
    BY <1>4, <2>3 DEF Teardown, TeardownRevoke
  <2>4. CASE Start(a) \/ MarkRunning(a) \/ Outcome(a)
    BY <1>2, <2>4 DEF Start, MarkRunning, Outcome
  <2> QED
    BY <1>7, <2>1, <2>2, <2>3, <2>4 DEF Runs
<1>8. ASSUME NEW a \in Agents, Finishes(a)
      PROVE  Quiet \/ Written
  <2>1. CASE RecordOutcome(a)
    <3>1. row[a].status = "Running" /\ run[a].outcome \in Outcomes
      BY <1>1, <2>1 DEF RecordOutcome, AgentInv, Recorded
    <3> QED
      BY <1>2, <2>1, <3>1 DEF RecordOutcome, Written, Edge, Ended, Outcomes
  <2>2. CASE Transfer(a)
    BY <1>1, <1>2, <2>2 DEF Transfer, Quiet, RowType
  <2>3. CASE ReleaseLeases(a) \/ DeleteLeases(a)
    BY <1>5, <2>3 DEF ReleaseLeases, DeleteLeases
  <2>4. CASE PutReceipt(a)
    BY <1>1, <2>4 DEF PutReceipt, Quiet, RowType
  <2>5. CASE Terminate(a) \/ GiveUp(a)
    BY <1>4, <2>5 DEF Terminate, GiveUp
  <2>6. CASE SettleAdmission(a)
    BY <1>2, <1>3, <2>6 DEF SettleAdmission
  <2>7. CASE Finish(a) \/ Quiesce(a) \/ StopResources(a) \/ Flush(a) \/ Resources(a)
               \/ SettleFails(a) \/ Remove(a)
    BY <1>2, <2>7 DEF Finish, Quiesce, StopResources, Flush, Resources, SettleFails, Remove
  <2> QED
    BY <1>8, <2>1, <2>2, <2>3, <2>4, <2>5, <2>6, <2>7 DEF Finishes
<1>9. ASSUME NEW a \in Agents, Recovers(a)
      PROVE  Quiet \/ Written
  <2>1. CASE Interrupt(a)
    <3>1. row[a].status \in Open
      BY <1>1, <2>1 DEF Interrupt, AgentInv, Recorded
    <3> QED
      BY <2>1, <3>1 DEF Interrupt, Written, Edge, Open, Ended
  <2>2. CASE Decide(a)
    <3>1. row[a].decision = None
      BY <1>1, <2>2 DEF Decide, AgentInv, Recorded
    <3> QED
      BY <1>1, <2>2, <3>1 DEF Decide, Quiet, RowType
  <2>3. CASE Reclaim(a)
    BY <1>3, <2>3 DEF Reclaim
  <2>4. CASE ReclaimLeases(a)
    BY <1>5, <2>4 DEF ReclaimLeases
  <2>5. CASE ReclaimReceipt(a)
    BY <1>1, <2>5 DEF ReclaimReceipt, Quiet, RowType
  <2>6. CASE Pick(a)
    BY <1>2, <2>6 DEF Pick
  <2> QED
    BY <1>9, <2>1, <2>2, <2>3, <2>4, <2>5, <2>6 DEF Recovers
<1>10. CASE Ready
  BY <1>1, <1>10 DEF Ready, Quiet, RowType
<1>11. CASE \/ Crash \/ UNCHANGED vars
            \/ \E a \in Agents : DropSpawn(a) \/ Cancel(a) \/ ParentCancelled(a)
  BY <1>2, <1>11 DEF Crash, DropSpawn, Cancel, ParentCancelled, vars
<1> QED
  BY <1>6, <1>7, <1>8, <1>9, <1>10, <1>11 DEF Next, Acts

\* Neither a late task nor a recovery rewrites an end, a recovery decision, a transfer or a
\* receipt.
THEOREM EndsStand == Spec => EndStands
<1>1. ControlInv /\ [Next]_vars =>
        [\A a \in Agents :
           /\ row[a].status \in Ended => row'[a].status = row[a].status
           /\ row[a].decision # None => row'[a].decision = row[a].decision
           /\ row[a].budget = "transferred" => row'[a].budget = "transferred"
           /\ row[a].receipts \subseteq row'[a].receipts]_vars
  <2> SUFFICES ASSUME ControlInv, [Next]_vars, NEW a \in Agents
               PROVE  /\ row[a].status \in Ended => row'[a].status = row[a].status
                      /\ row[a].decision # None => row'[a].decision = row[a].decision
                      /\ row[a].budget = "transferred" => row'[a].budget = "transferred"
                      /\ row[a].receipts \subseteq row'[a].receipts
    OBVIOUS
  <2>1. CASE Quiet
    BY <2>1 DEF Quiet
  <2>2. CASE Written
    <3>1. row \in [Agents -> RowType]
      BY Types DEF ControlInv
    <3> QED
      BY <2>2, <3>1, ControlAssumption DEF Written, Edge, Ended, RowType
  <2> QED
    BY <2>1, <2>2, StatusWrites
<1> QED
  BY <1>1, Control, PTL DEF Spec, EndStands

\* The statuses that a client can poll are a behaviour of AgentLifecycle: every step of
\* agent control is a step of the reducer of lifecycle.rs, or leaves the statuses alone.
THEOREM ImplementsLifecycle == Spec => FollowsLifecycle
<1> DEFINE st == [a \in Agents |-> row[a].status]
<1>1. Init => Lifecycle!Init
  BY DEF Init, Lifecycle!Init, NoRow
<1>2. ControlInv /\ [Next]_vars => [Lifecycle!Next]_st
  <2> SUFFICES ASSUME ControlInv, [Next]_vars
               PROVE  Lifecycle!Next \/ st' = st
    OBVIOUS
  <2>1. CASE Quiet
    BY <2>1 DEF Quiet
  <2>2. CASE Written
    <3>1. PICK a \in Agents, t \in Open \cup Ended :
            Edge(row[a].status, t) /\ row' = [row EXCEPT ![a].status = t]
      BY <2>2 DEF Written
    <3>2. row \in [Agents -> RowType]
      BY Types DEF ControlInv
    <3>3. st' = [st EXCEPT ![a] = t] /\ st[a] = row[a].status
      BY <3>1, <3>2 DEF RowType
    <3>4. CASE st[a] = None
      BY <3>1, <3>3, <3>4, ControlAssumption DEF Edge, Lifecycle!Next, Lifecycle!Create
    <3>5. CASE st[a] # None
      <4>1. PICK e \in Lifecycle!Events :
              e \in Lifecycle!Accepted(st[a]) /\ Lifecycle!Target[e] = t
        BY <3>1, <3>3, <3>5 DEF Edge, Lifecycle!Events, Lifecycle!Accepted, Lifecycle!Stop,
                                Lifecycle!Target
      <4> QED
        BY <3>3, <4>1 DEF Lifecycle!Next, Lifecycle!Reduce
    <3> QED
      BY <3>4, <3>5
  <2> QED
    BY <2>1, <2>2, StatusWrites
<1> QED
  BY <1>1, <1>2, Control, PTL DEF Spec, FollowsLifecycle, Lifecycle!Spec
=============================================================================
