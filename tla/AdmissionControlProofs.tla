----------------------- MODULE AdmissionControlProofs -----------------------
(***************************************************************************)
(* Proofs about AdmissionControl: for any number of invocations, cleaners  *)
(* and permits, a reservation is closed at most once, and nothing that a   *)
(* permit holds is left without anybody who gives it back.  The second     *)
(* part is about the leases that permits hold (LeaseManager), the third    *)
(* about the budget their reservations come from (BudgetController).       *)
(***************************************************************************)
EXTENDS AdmissionControl, LeaseManager, BudgetController, FiniteSetTheorems, TLAPS

\* An invocation whose permit was never in `active`.
Early == {"idle", "admit", "lease", "unreserve", "sandbox", "activate"}

\* Where an invocation, and where a cleaner, can be.
InvocationPlaces == InvocationPc \cup ClosingPc \cup {Done}
CleanerPlaces == {"idle", "clean", "revoke", "take", "revokeBudget", "revokeLease",
                  "dropped", Done}

\* The actor took permit i out of `active` and gives its resources back.
BeforeClosing == {"mark", "closeBudget", "revokeBudget"}
Giving == BeforeClosing \cup {"closeLease", "revokeLease"}
Holds(a, i) == target[a] = i /\ pc[a] \in Giving

\* Actors have the targets that their place calls for.
Targets ==
  /\ \A i \in Invocations : pc[i] \in InvocationPlaces /\ (pc[i] # "idle" => target[i] = i)
  /\ \A c \in Cleaners : pc[c] \in CleanerPlaces
  /\ \A a \in Actors : pc[a] \in ClosingPc => target[a] \in Invocations

\* Nobody has seen a permit that was not active yet.
Unseen ==
  \A i \in Invocations :
    /\ pc[i] \in Early => /\ i \notin active /\ i \notin charged /\ closings[i] = 0
                          /\ \A c \in Cleaners : target[c] # i /\ i \notin todo[c]
    /\ pc[i] \in Early \cup {"check", "execute", "settle", "mark"} => i \notin settled

\* One actor at a time gives a permit's resources back, once it is out of `active`.
OneHolder ==
  \A a \in Actors, i \in Invocations :
    Holds(a, i) => i \notin active /\ \A b \in Actors : Holds(b, i) => b = a

\* The reservation is closed by the holder of the permit, and by nobody before it.
Closings ==
  \A i \in Invocations :
    /\ closings[i] <= 1
    /\ i \in active => closings[i] = 0
    /\ \A a \in Actors : target[a] = i /\ pc[a] \in BeforeClosing => closings[i] = 0

\* What was charged is closed for good; a settlement charges on its way to success.
Charges ==
  /\ \A i \in charged : i \notin active /\ i \notin budgetOf /\ closings[i] = 1
  /\ \A i \in Invocations :
       /\ pc[i] \in {"closeBudget", "closeLease"} => i \in settled
       /\ pc[i] = "closeLease" => (request[i].budget => i \in charged)
       /\ answer[i] = "ok" => /\ pc[i] = Done /\ i \in settled
                              /\ request[i].budget => i \in charged
       /\ answer[i] = "noSandbox" => pc[i] = Done

\* Admission holds no more than it got, a holder no more than it has to give back.
Books ==
  /\ IsFiniteSet(budgetOf)
  /\ \A i \in Invocations :
       /\ pc[i] \in {"idle", "admit"} => i \notin budgetOf
       /\ pc[i] \in {"idle", "admit", "lease", "unreserve"} => leaseOf # i
       /\ pc[i] = "closeLease" => i \notin budgetOf
  /\ \A a \in Actors : pc[a] = "revokeLease" => target[a] \notin budgetOf

\* Everything that is held has somebody who gives it back (NothingLeaks).
Cared ==
  \A i \in budgetOf \cup ({leaseOf} \ {None}) :
    InCare(i) \/ Abandoned(i) \/ answer[i] = "noSandbox"

\* The inductive invariant.
PermitInv ==
  TypeOK /\ Targets /\ Unseen /\ OneHolder /\ Closings /\ Charges /\ Books /\ Cared

-----------------------------------------------------------------------------
(* Init, and one lemma per action. *)

\* The invariant holds initially.
LEMMA InitPermits == Init => PermitInv
<1> SUFFICES ASSUME Init
             PROVE  PermitInv
  OBVIOUS
<1>1. IsFiniteSet(budgetOf) /\ Cardinality(budgetOf) <= Capacity
  BY FS_EmptySet, AdmissionAssumption DEF Init
<1>2. TypeOK
  BY <1>1 DEF Init, TypeOK, InvocationPc, Answers
<1>3. Targets /\ Unseen /\ OneHolder /\ Closings
  BY AdmissionAssumption
     DEF Init, Actors, NoRequest, Targets, Unseen, OneHolder, Closings, Holds, Giving,
         BeforeClosing, InvocationPlaces, CleanerPlaces, InvocationPc, ClosingPc, CleanerPc, Done
<1>4. Charges /\ Books /\ Cared
  BY <1>1, AdmissionAssumption DEF Init, Actors, Charges, Books, Cared, Done
<1> QED
  BY <1>2, <1>3, <1>4 DEF PermitInv

\* Closing a reservation keeps the books, and so does opening one that is afforded.
LEMMA ReservationBooks ==
  ASSUME TypeOK, Books
  PROVE  /\ \A p : /\ IsFiniteSet(budgetOf \ {p})
                  /\ Cardinality(budgetOf \ {p}) <= Capacity
         /\ Cardinality(budgetOf) < Capacity =>
              \A p : /\ IsFiniteSet(budgetOf \cup {p})
                    /\ Cardinality(budgetOf \cup {p}) <= Capacity
<1>1. IsFiniteSet(budgetOf) /\ Cardinality(budgetOf) <= Capacity /\ Capacity \in Nat
  BY AdmissionAssumption DEF TypeOK, Books
<1>2. Cardinality(budgetOf) \in Nat
  BY <1>1, FS_CardinalityType
<1>3. ASSUME NEW p
      PROVE  /\ IsFiniteSet(budgetOf \ {p}) /\ Cardinality(budgetOf \ {p}) <= Capacity
  <2>1. /\ IsFiniteSet(budgetOf \ {p})
        /\ Cardinality(budgetOf \ {p}) =
             IF p \in budgetOf THEN Cardinality(budgetOf) - 1 ELSE Cardinality(budgetOf)
    BY <1>1, FS_RemoveElement
  <2> QED
    BY <1>1, <1>2, <2>1
<1>4. ASSUME Cardinality(budgetOf) < Capacity, NEW p
      PROVE  /\ IsFiniteSet(budgetOf \cup {p}) /\ Cardinality(budgetOf \cup {p}) <= Capacity
  <2>1. /\ IsFiniteSet(budgetOf \cup {p})
        /\ Cardinality(budgetOf \cup {p}) =
             IF p \in budgetOf THEN Cardinality(budgetOf) ELSE Cardinality(budgetOf) + 1
    BY <1>1, FS_AddElement
  <2> QED
    BY <1>1, <1>2, <1>4, <2>1
<1> QED
  BY <1>3, <1>4

\* An invocation starts with a permit that nobody has seen.
LEMMA InvokeKeeps ==
  ASSUME PermitInv, NEW i \in Invocations, NEW r \in Request, Invoke(i, r)
  PROVE  PermitInv'
<1> USE AdmissionAssumption DEF PermitInv, TypeOK, Targets, Actors, InvocationPlaces,
        CleanerPlaces, InvocationPc, ClosingPc, CleanerPc, Done, Invoke, Goto, resources
<1>1. TypeOK'
  BY DEF Answers
<1>2. Targets'
  OBVIOUS
<1>3. Unseen'
  BY DEF Unseen, Early
<1>4. OneHolder'
  BY DEF Unseen, Early, OneHolder, Holds, Giving, BeforeClosing
<1>5. Closings'
  BY DEF Unseen, Early, OneHolder, Closings, Holds, Giving, BeforeClosing
<1>6. Charges'
  BY DEF Unseen, Early, OneHolder, Closings, Charges, Holds, Giving, BeforeClosing
<1>7. Books'
  BY DEF Unseen, Early, OneHolder, Books, Holds, Giving, BeforeClosing
<1>8. Cared'
  BY DEF Unseen, Early, Charges, Books, Cared, InCare, Abandoned
<1> QED
  BY <1>1, <1>2, <1>3, <1>4, <1>5, <1>6, <1>7, <1>8

\* A reservation is opened only within the capacity.
LEMMA AdmitBudgetKeeps ==
  ASSUME PermitInv, NEW i \in Invocations, AdmitBudget(i)
  PROVE  PermitInv'
<1> USE AdmissionAssumption DEF PermitInv, TypeOK, Targets, Actors, InvocationPlaces,
        CleanerPlaces, InvocationPc, ClosingPc, CleanerPc, Done, AdmitBudget, Goto, Return
<1>0. IsFiniteSet(budgetOf') /\ Cardinality(budgetOf') <= Capacity
  <2>1. CASE request[i].budget /\ Cardinality(budgetOf) < Capacity
    <3>1. budgetOf' = budgetOf \cup {i}
      BY <2>1
    <3>2. IsFiniteSet(budgetOf \cup {i}) /\ Cardinality(budgetOf \cup {i}) <= Capacity
      BY <2>1, ReservationBooks, Zenon
    <3> QED
      BY <3>1, <3>2
  <2>2. CASE ~(request[i].budget /\ Cardinality(budgetOf) < Capacity)
    BY <2>2 DEF Books
  <2> QED
    BY <2>1, <2>2
<1>1. TypeOK'
  BY <1>0 DEF Answers
<1>2. Targets'
  OBVIOUS
<1>3. Unseen'
  BY DEF Unseen, Early
<1>4. OneHolder'
  BY DEF Unseen, Early, OneHolder, Holds, Giving, BeforeClosing
<1>5. Closings'
  BY DEF Unseen, Early, OneHolder, Closings, Holds, Giving, BeforeClosing
<1>6. Charges'
  BY DEF Unseen, Early, OneHolder, Closings, Charges, Holds, Giving, BeforeClosing
<1>7. Books'
  BY <1>0 DEF Unseen, Early, OneHolder, Books, Holds, Giving, BeforeClosing
<1>8. Cared'
  BY DEF Unseen, Early, Charges, Books, Cared, InCare, Abandoned
<1> QED
  BY <1>1, <1>2, <1>3, <1>4, <1>5, <1>6, <1>7, <1>8

\* The lease is taken only from nobody.
LEMMA AdmitLeaseKeeps ==
  ASSUME PermitInv, NEW i \in Invocations, AdmitLease(i)
  PROVE  PermitInv'
<1> USE AdmissionAssumption DEF PermitInv, TypeOK, Targets, Actors, InvocationPlaces,
        CleanerPlaces, InvocationPc, ClosingPc, CleanerPc, Done, AdmitLease, Goto
<1>1. TypeOK'
  BY DEF Answers
<1>2. Targets'
  OBVIOUS
<1>3. Unseen'
  BY DEF Unseen, Early
<1>4. OneHolder'
  BY DEF Unseen, Early, OneHolder, Holds, Giving, BeforeClosing
<1>5. Closings'
  BY DEF Unseen, Early, OneHolder, Closings, Holds, Giving, BeforeClosing
<1>6. Charges'
  BY DEF Unseen, Early, OneHolder, Closings, Charges, Holds, Giving, BeforeClosing
<1>7. Books'
  BY DEF Unseen, Early, OneHolder, Books, Holds, Giving, BeforeClosing
<1>8. Cared'
  BY DEF Unseen, Early, Charges, Books, Cared, InCare, Abandoned
<1> QED
  BY <1>1, <1>2, <1>3, <1>4, <1>5, <1>6, <1>7, <1>8

\* A denied lease gives the reservation back, which nobody closed before.
LEMMA AdmitUnreserveKeeps ==
  ASSUME PermitInv, NEW i \in Invocations, AdmitUnreserve(i)
  PROVE  PermitInv'
<1> USE AdmissionAssumption DEF PermitInv, TypeOK, Targets, Actors, InvocationPlaces,
        CleanerPlaces, InvocationPc, ClosingPc, CleanerPc, Done, AdmitUnreserve, Goto,
        Return, CloseBudget
<1>0. IsFiniteSet(budgetOf') /\ Cardinality(budgetOf') <= Capacity
  BY ReservationBooks
<1>1. TypeOK'
  BY <1>0 DEF Answers
<1>2. Targets'
  OBVIOUS
<1>3. Unseen'
  BY DEF Unseen, Early
<1>4. OneHolder'
  BY DEF Unseen, Early, OneHolder, Holds, Giving, BeforeClosing
<1>5. Closings'
  BY DEF Unseen, Early, OneHolder, Closings, Holds, Giving, BeforeClosing
<1>6. Charges'
  BY DEF Unseen, Early, OneHolder, Closings, Charges, Holds, Giving, BeforeClosing
<1>7. Books'
  BY <1>0 DEF Unseen, Early, OneHolder, Books, Holds, Giving, BeforeClosing
<1>8. Cared'
  BY DEF Unseen, Early, Charges, Books, Cared, InCare, Abandoned
<1> QED
  BY <1>1, <1>2, <1>3, <1>4, <1>5, <1>6, <1>7, <1>8

\* The one end of an admission that keeps what it holds is answered as such.
LEMMA AdmitSandboxKeeps ==
  ASSUME PermitInv, NEW i \in Invocations, AdmitSandbox(i)
  PROVE  PermitInv'
<1> USE AdmissionAssumption DEF PermitInv, TypeOK, Targets, Actors, InvocationPlaces,
        CleanerPlaces, InvocationPc, ClosingPc, CleanerPc, Done, AdmitSandbox, Goto, Return,
        resources
<1>1. TypeOK'
  BY DEF Answers
<1>2. Targets'
  OBVIOUS
<1>3. Unseen'
  BY DEF Unseen, Early
<1>4. OneHolder'
  BY DEF Unseen, Early, OneHolder, Holds, Giving, BeforeClosing
<1>5. Closings'
  BY DEF Unseen, Early, OneHolder, Closings, Holds, Giving, BeforeClosing
<1>6. Charges'
  BY DEF Unseen, Early, OneHolder, Closings, Charges, Holds, Giving, BeforeClosing
<1>7. Books'
  BY DEF Unseen, Early, OneHolder, Books, Holds, Giving, BeforeClosing
<1>8. Cared'
  BY DEF Unseen, Early, Charges, Books, Cared, InCare, Abandoned
<1> QED
  BY <1>1, <1>2, <1>3, <1>4, <1>5, <1>6, <1>7, <1>8

\* The permit enters `active` when nobody holds it and nobody has closed it.
LEMMA ActivateKeeps ==
  ASSUME PermitInv, NEW i \in Invocations, Activate(i)
  PROVE  PermitInv'
<1> USE AdmissionAssumption DEF PermitInv, TypeOK, Targets, Actors, InvocationPlaces,
        CleanerPlaces, InvocationPc, ClosingPc, CleanerPc, Done, Activate, Goto, resources
<1>1. TypeOK'
  BY DEF Answers
<1>2. Targets'
  OBVIOUS
<1>3. Unseen'
  BY DEF Unseen, Early
<1>4. OneHolder'
  BY DEF Unseen, Early, OneHolder, Holds, Giving, BeforeClosing
<1>5. Closings'
  BY DEF Unseen, Early, OneHolder, Closings, Holds, Giving, BeforeClosing
<1>6. Charges'
  BY DEF Unseen, Early, OneHolder, Closings, Charges, Holds, Giving, BeforeClosing
<1>7. Books'
  BY DEF Unseen, Early, OneHolder, Books, Holds, Giving, BeforeClosing
<1>8. Cared'
  BY DEF Unseen, Early, Charges, Books, Cared, InCare, Abandoned
<1> QED
  BY <1>1, <1>2, <1>3, <1>4, <1>5, <1>6, <1>7, <1>8

\* The sandbox check leaves the permit active.
LEMMA CheckSandboxKeeps ==
  ASSUME PermitInv, NEW i \in Invocations, CheckSandbox(i)
  PROVE  PermitInv'
<1> USE AdmissionAssumption DEF PermitInv, TypeOK, Targets, Actors, InvocationPlaces,
        CleanerPlaces, InvocationPc, ClosingPc, CleanerPc, Done, CheckSandbox, Goto,
        resources
<1>1. TypeOK'
  BY DEF Answers
<1>2. Targets'
  OBVIOUS
<1>3. Unseen'
  BY DEF Unseen, Early
<1>4. OneHolder'
  BY DEF Unseen, Early, OneHolder, Holds, Giving, BeforeClosing
<1>5. Closings'
  BY DEF Unseen, Early, OneHolder, Closings, Holds, Giving, BeforeClosing
<1>6. Charges'
  BY DEF Unseen, Early, OneHolder, Closings, Charges, Holds, Giving, BeforeClosing
<1>7. Books'
  BY DEF Unseen, Early, OneHolder, Books, Holds, Giving, BeforeClosing
<1>8. Cared'
  BY DEF Unseen, Early, Charges, Books, Cared, InCare, Abandoned
<1> QED
  BY <1>1, <1>2, <1>3, <1>4, <1>5, <1>6, <1>7, <1>8

\* Neither the end of the execution nor its cancellation touches the permit.
LEMMA ExecuteKeeps ==
  ASSUME PermitInv, NEW i \in Invocations, Execute(i)
  PROVE  PermitInv'
<1> USE AdmissionAssumption DEF PermitInv, TypeOK, Targets, Actors, InvocationPlaces,
        CleanerPlaces, InvocationPc, ClosingPc, CleanerPc, Done, Execute, Goto, resources
<1>1. TypeOK'
  BY DEF Answers
<1>2. Targets'
  OBVIOUS
<1>3. Unseen'
  BY DEF Unseen, Early
<1>4. OneHolder'
  BY DEF Unseen, Early, OneHolder, Holds, Giving, BeforeClosing
<1>5. Closings'
  BY DEF Unseen, Early, OneHolder, Closings, Holds, Giving, BeforeClosing
<1>6. Charges'
  BY DEF Unseen, Early, OneHolder, Closings, Charges, Holds, Giving, BeforeClosing
<1>7. Books'
  BY DEF Unseen, Early, OneHolder, Books, Holds, Giving, BeforeClosing
<1>8. Cared'
  BY DEF Unseen, Early, Charges, Books, Cared, InCare, Abandoned
<1> QED
  BY <1>1, <1>2, <1>3, <1>4, <1>5, <1>6, <1>7, <1>8

\* settle is the holder of the permit exactly if it found it active.
LEMMA SettleTakeKeeps ==
  ASSUME PermitInv, NEW i \in Invocations, SettleTake(i)
  PROVE  PermitInv'
<1> USE AdmissionAssumption DEF PermitInv, TypeOK, Targets, Actors, InvocationPlaces,
        CleanerPlaces, InvocationPc, ClosingPc, CleanerPc, Done, SettleTake, Goto, Return,
        resources
<1>1. TypeOK'
  BY DEF Answers
<1>2. Targets'
  OBVIOUS
<1>3. Unseen'
  BY DEF Unseen, Early
<1>4. OneHolder'
  BY DEF Unseen, Early, OneHolder, Holds, Giving, BeforeClosing
<1>5. Closings'
  BY DEF Unseen, Early, OneHolder, Closings, Holds, Giving, BeforeClosing
<1>6. Charges'
  BY DEF Unseen, Early, OneHolder, Closings, Charges, Holds, Giving, BeforeClosing
<1>7. Books'
  BY DEF Unseen, Early, OneHolder, Books, Holds, Giving, BeforeClosing
<1>8. Cared'
  BY DEF Unseen, Early, Charges, Books, Cared, InCare, Abandoned
<1> QED
  BY <1>1, <1>2, <1>3, <1>4, <1>5, <1>6, <1>7, <1>8

\* A permit that was taken out of `active` is not settled yet.
LEMMA SettleMarkKeeps ==
  ASSUME PermitInv, NEW i \in Invocations, SettleMark(i)
  PROVE  PermitInv'
<1> USE AdmissionAssumption DEF PermitInv, TypeOK, Targets, Actors, InvocationPlaces,
        CleanerPlaces, InvocationPc, ClosingPc, CleanerPc, Done, SettleMark, Goto, Return,
        resources
<1>1. TypeOK'
  BY DEF Answers
<1>2. Targets'
  OBVIOUS
<1>3. Unseen'
  BY DEF Unseen, Early
<1>4. OneHolder'
  BY DEF Unseen, Early, OneHolder, Holds, Giving, BeforeClosing
<1>5. Closings'
  BY DEF Unseen, Early, OneHolder, Closings, Holds, Giving, BeforeClosing
<1>6. Charges'
  BY DEF Unseen, Early, OneHolder, Closings, Charges, Holds, Giving, BeforeClosing
<1>7. Books'
  BY DEF Unseen, Early, OneHolder, Books, Holds, Giving, BeforeClosing
<1>8. Cared'
  BY DEF Unseen, Early, Charges, Books, Cared, InCare, Abandoned
<1> QED
  BY <1>1, <1>2, <1>3, <1>4, <1>5, <1>6, <1>7, <1>8

\* settle closes and charges a reservation that is not closed yet.
LEMMA SettleBudgetKeeps ==
  ASSUME PermitInv, NEW i \in Invocations, SettleBudget(i)
  PROVE  PermitInv'
<1> USE AdmissionAssumption DEF PermitInv, TypeOK, Targets, Actors, InvocationPlaces,
        CleanerPlaces, InvocationPc, ClosingPc, CleanerPc, Done, SettleBudget, Goto,
        CloseBudget
<1>0. IsFiniteSet(budgetOf') /\ Cardinality(budgetOf') <= Capacity
  BY ReservationBooks
<1>1. TypeOK'
  BY <1>0 DEF Answers
<1>2. Targets'
  OBVIOUS
<1>3. Unseen'
  BY DEF Unseen, Early
<1>4. OneHolder'
  BY DEF Unseen, Early, OneHolder, Holds, Giving, BeforeClosing
<1>5. Closings'
  BY DEF Unseen, Early, OneHolder, Closings, Holds, Giving, BeforeClosing
<1>6. Charges'
  BY DEF Unseen, Early, OneHolder, Closings, Charges, Holds, Giving, BeforeClosing
<1>7. Books'
  BY <1>0 DEF Unseen, Early, OneHolder, Books, Holds, Giving, BeforeClosing
<1>8. Cared'
  BY DEF Unseen, Early, Charges, Books, Cared, InCare, Abandoned
<1> QED
  BY <1>1, <1>2, <1>3, <1>4, <1>5, <1>6, <1>7, <1>8

\* settle ends with nothing of the permit left.
LEMMA SettleLeaseKeeps ==
  ASSUME PermitInv, NEW i \in Invocations, SettleLease(i)
  PROVE  PermitInv'
<1> USE AdmissionAssumption DEF PermitInv, TypeOK, Targets, Actors, InvocationPlaces,
        CleanerPlaces, InvocationPc, ClosingPc, CleanerPc, Done, SettleLease, Goto, Return,
        ReleaseLease
<1>1. TypeOK'
  BY DEF Answers
<1>2. Targets'
  OBVIOUS
<1>3. Unseen'
  BY DEF Unseen, Early
<1>4. OneHolder'
  BY DEF Unseen, Early, OneHolder, Holds, Giving, BeforeClosing
<1>5. Closings'
  BY DEF Unseen, Early, OneHolder, Closings, Holds, Giving, BeforeClosing
<1>6. Charges'
  BY DEF Unseen, Early, OneHolder, Closings, Charges, Holds, Giving, BeforeClosing
<1>7. Books'
  BY DEF Unseen, Early, OneHolder, Books, Holds, Giving, BeforeClosing
<1>8. Cared'
  BY DEF Unseen, Early, Charges, Books, Cared, InCare, Abandoned
<1> QED
  BY <1>1, <1>2, <1>3, <1>4, <1>5, <1>6, <1>7, <1>8

\* The early return of revoke leaves everything as it is.
LEMMA RevokeCheckKeeps ==
  ASSUME PermitInv, NEW a \in Actors, RevokeCheck(a)
  PROVE  PermitInv'
<1> USE AdmissionAssumption DEF PermitInv, TypeOK, Targets, Actors, InvocationPlaces,
        CleanerPlaces, InvocationPc, ClosingPc, CleanerPc, Done, RevokeCheck, Goto,
        AfterRevoke, resources
<1>1. TypeOK'
  BY DEF Answers
<1>2. Targets'
  OBVIOUS
<1>3. Unseen'
  BY DEF Unseen, Early
<1>4. OneHolder'
  BY DEF Unseen, Early, OneHolder, Holds, Giving, BeforeClosing
<1>5. Closings'
  BY DEF Unseen, Early, OneHolder, Closings, Holds, Giving, BeforeClosing
<1>6. Charges'
  BY DEF Unseen, Early, OneHolder, Closings, Charges, Holds, Giving, BeforeClosing
<1>7. Books'
  BY DEF Unseen, Early, OneHolder, Books, Holds, Giving, BeforeClosing
<1>8. Cared'
  BY DEF Unseen, Early, Charges, Books, Cared, InCare, Abandoned
<1> QED
  BY <1>1, <1>2, <1>3, <1>4, <1>5, <1>6, <1>7, <1>8

\* revoke is the holder of the permit exactly if it found it active.
LEMMA RevokeTakeKeeps ==
  ASSUME PermitInv, NEW a \in Actors, RevokeTake(a)
  PROVE  PermitInv'
<1> USE AdmissionAssumption DEF PermitInv, TypeOK, Targets, Actors, InvocationPlaces,
        CleanerPlaces, InvocationPc, ClosingPc, CleanerPc, Done, RevokeTake, Goto,
        AfterRevoke, resources
<1>1. TypeOK'
  BY DEF Answers
<1>2. Targets'
  OBVIOUS
<1>3. Unseen'
  BY DEF Unseen, Early
<1>4. OneHolder'
  BY DEF Unseen, Early, OneHolder, Holds, Giving, BeforeClosing
<1>5. Closings'
  BY DEF Unseen, Early, OneHolder, Closings, Holds, Giving, BeforeClosing
<1>6. Charges'
  BY DEF Unseen, Early, OneHolder, Closings, Charges, Holds, Giving, BeforeClosing
<1>7. Books'
  BY DEF Unseen, Early, OneHolder, Books, Holds, Giving, BeforeClosing
<1>8. Cared'
  BY DEF Unseen, Early, Charges, Books, Cared, InCare, Abandoned
<1> QED
  BY <1>1, <1>2, <1>3, <1>4, <1>5, <1>6, <1>7, <1>8

\* revoke closes a reservation that is not closed yet.
LEMMA RevokeBudgetKeeps ==
  ASSUME PermitInv, NEW a \in Actors, RevokeBudget(a)
  PROVE  PermitInv'
<1> USE AdmissionAssumption DEF PermitInv, TypeOK, Targets, Actors, InvocationPlaces,
        CleanerPlaces, InvocationPc, ClosingPc, CleanerPc, Done, RevokeBudget, Goto,
        CloseBudget, AfterRevoke
<1>0. IsFiniteSet(budgetOf') /\ Cardinality(budgetOf') <= Capacity
  BY ReservationBooks
<1>1. TypeOK'
  BY <1>0 DEF Answers
<1>2. Targets'
  OBVIOUS
<1>3. Unseen'
  BY DEF Unseen, Early
<1>4. OneHolder'
  BY DEF Unseen, Early, OneHolder, Holds, Giving, BeforeClosing
<1>5. Closings'
  BY DEF Unseen, Early, OneHolder, Closings, Holds, Giving, BeforeClosing
<1>6. Charges'
  BY DEF Unseen, Early, OneHolder, Closings, Charges, Holds, Giving, BeforeClosing
<1>7. Books'
  BY <1>0 DEF Unseen, Early, OneHolder, Books, Holds, Giving, BeforeClosing
<1>8. Cared'
  BY DEF Unseen, Early, Charges, Books, Cared, InCare, Abandoned
<1> QED
  BY <1>1, <1>2, <1>3, <1>4, <1>5, <1>6, <1>7, <1>8

\* revoke ends with nothing of the permit left.
LEMMA RevokeLeaseKeeps ==
  ASSUME PermitInv, NEW a \in Actors, RevokeLease(a)
  PROVE  PermitInv'
<1> USE AdmissionAssumption DEF PermitInv, TypeOK, Targets, Actors, InvocationPlaces,
        CleanerPlaces, InvocationPc, ClosingPc, CleanerPc, Done, RevokeLease, Goto,
        ReleaseLease, AfterRevoke
<1>1. TypeOK'
  BY DEF Answers
<1>2. Targets'
  OBVIOUS
<1>3. Unseen'
  BY DEF Unseen, Early
<1>4. OneHolder'
  BY DEF Unseen, Early, OneHolder, Holds, Giving, BeforeClosing
<1>5. Closings'
  BY DEF Unseen, Early, OneHolder, Closings, Holds, Giving, BeforeClosing
<1>6. Charges'
  BY DEF Unseen, Early, OneHolder, Closings, Charges, Holds, Giving, BeforeClosing
<1>7. Books'
  BY DEF Unseen, Early, OneHolder, Books, Holds, Giving, BeforeClosing
<1>8. Cared'
  BY DEF Unseen, Early, Charges, Books, Cared, InCare, Abandoned
<1> QED
  BY <1>1, <1>2, <1>3, <1>4, <1>5, <1>6, <1>7, <1>8

\* A dropped caller abandons what it holds, and nobody else holds it.
LEMMA DropKeeps ==
  ASSUME PermitInv, NEW a \in Actors, Drop(a)
  PROVE  PermitInv'
<1> USE AdmissionAssumption DEF PermitInv, TypeOK, Targets, Actors, InvocationPlaces,
        CleanerPlaces, InvocationPc, ClosingPc, CleanerPc, Done, Drop, Goto, resources
<1>1. TypeOK'
  BY DEF Answers
<1>2. Targets'
  OBVIOUS
<1>3. Unseen'
  BY DEF Unseen, Early
<1>4. OneHolder'
  BY DEF Unseen, Early, OneHolder, Holds, Giving, BeforeClosing
<1>5. Closings'
  BY DEF Unseen, Early, OneHolder, Closings, Holds, Giving, BeforeClosing
<1>6. Charges'
  BY DEF Unseen, Early, OneHolder, Closings, Charges, Holds, Giving, BeforeClosing
<1>7. Books'
  BY DEF Unseen, Early, OneHolder, Books, Holds, Giving, BeforeClosing
<1>8. Cared'
  BY DEF Unseen, Early, Charges, Books, Cared, InCare, Abandoned
<1> QED
  BY <1>1, <1>2, <1>3, <1>4, <1>5, <1>6, <1>7, <1>8

\* A cleaner finds only permits that are past their admission.
LEMMA CollectKeeps ==
  ASSUME PermitInv, NEW c \in Cleaners, NEW S \in SUBSET active, Collect(c, S)
  PROVE  PermitInv'
<1> USE AdmissionAssumption DEF PermitInv, TypeOK, Targets, Actors, InvocationPlaces,
        CleanerPlaces, InvocationPc, ClosingPc, CleanerPc, Done, Collect, Goto, resources
<1>1. TypeOK'
  BY DEF Answers
<1>2. Targets'
  OBVIOUS
<1>3. Unseen'
  BY DEF Unseen, Early
<1>4. OneHolder'
  BY DEF Unseen, Early, OneHolder, Holds, Giving, BeforeClosing
<1>5. Closings'
  BY DEF Unseen, Early, OneHolder, Closings, Holds, Giving, BeforeClosing
<1>6. Charges'
  BY DEF Unseen, Early, OneHolder, Closings, Charges, Holds, Giving, BeforeClosing
<1>7. Books'
  BY DEF Unseen, Early, OneHolder, Books, Holds, Giving, BeforeClosing
<1>8. Cared'
  BY DEF Unseen, Early, Charges, Books, Cared, InCare, Abandoned
<1> QED
  BY <1>1, <1>2, <1>3, <1>4, <1>5, <1>6, <1>7, <1>8

\* A cleaner goes on to a permit that it found.
LEMMA CleanNextKeeps ==
  ASSUME PermitInv, NEW c \in Cleaners, CleanNext(c)
  PROVE  PermitInv'
<1> USE AdmissionAssumption DEF PermitInv, TypeOK, Targets, Actors, InvocationPlaces,
        CleanerPlaces, InvocationPc, ClosingPc, CleanerPc, Done, CleanNext, Goto, resources
<1>1. TypeOK'
  BY DEF Answers
<1>2. Targets'
  OBVIOUS
<1>3. Unseen'
  BY DEF Unseen, Early
<1>4. OneHolder'
  BY DEF Unseen, Early, OneHolder, Holds, Giving, BeforeClosing
<1>5. Closings'
  BY DEF Unseen, Early, OneHolder, Closings, Holds, Giving, BeforeClosing
<1>6. Charges'
  BY DEF Unseen, Early, OneHolder, Closings, Charges, Holds, Giving, BeforeClosing
<1>7. Books'
  BY DEF Unseen, Early, OneHolder, Books, Holds, Giving, BeforeClosing
<1>8. Cared'
  BY DEF Unseen, Early, Charges, Books, Cared, InCare, Abandoned
<1> QED
  BY <1>1, <1>2, <1>3, <1>4, <1>5, <1>6, <1>7, <1>8

\* A lease that ends by itself leaves the rest as it is.
LEMMA LeaseExpiresKeeps ==
  ASSUME PermitInv, LeaseExpires
  PROVE  PermitInv'
<1> USE AdmissionAssumption DEF PermitInv, TypeOK, Targets, Actors, InvocationPlaces,
        CleanerPlaces, InvocationPc, ClosingPc, CleanerPc, Done, LeaseExpires
<1>1. TypeOK'
  BY DEF Answers
<1>2. Targets'
  OBVIOUS
<1>3. Unseen'
  BY DEF Unseen, Early
<1>4. OneHolder'
  BY DEF Unseen, Early, OneHolder, Holds, Giving, BeforeClosing
<1>5. Closings'
  BY DEF Unseen, Early, OneHolder, Closings, Holds, Giving, BeforeClosing
<1>6. Charges'
  BY DEF Unseen, Early, OneHolder, Closings, Charges, Holds, Giving, BeforeClosing
<1>7. Books'
  BY DEF Unseen, Early, OneHolder, Books, Holds, Giving, BeforeClosing
<1>8. Cared'
  BY DEF Unseen, Early, Charges, Books, Cared, InCare, Abandoned
<1> QED
  BY <1>1, <1>2, <1>3, <1>4, <1>5, <1>6, <1>7, <1>8

-----------------------------------------------------------------------------
(* The theorems. *)

\* A step of the admission control keeps the invariant.
LEMMA NextPermits == PermitInv /\ [Next]_vars => PermitInv'
<1> SUFFICES ASSUME PermitInv, [Next]_vars
             PROVE  PermitInv'
  OBVIOUS
<1>1. CASE UNCHANGED vars
  BY <1>1 DEF vars, PermitInv, TypeOK, Targets, Unseen, OneHolder, Closings, Charges, Books,
              Cared, InCare, Abandoned, Holds
<1>2. ASSUME NEW i \in Invocations,
             \/ \E r \in Request : Invoke(i, r)
             \/ AdmitBudget(i) \/ AdmitLease(i) \/ AdmitUnreserve(i) \/ AdmitSandbox(i)
             \/ Activate(i) \/ CheckSandbox(i) \/ Execute(i)
      PROVE  PermitInv'
  BY <1>2, InvokeKeeps, AdmitBudgetKeeps, AdmitLeaseKeeps, AdmitUnreserveKeeps,
     AdmitSandboxKeeps, ActivateKeeps, CheckSandboxKeeps, ExecuteKeeps
<1>3. ASSUME NEW i \in Invocations,
             SettleTake(i) \/ SettleMark(i) \/ SettleBudget(i) \/ SettleLease(i)
      PROVE  PermitInv'
  BY <1>3, SettleTakeKeeps, SettleMarkKeeps, SettleBudgetKeeps, SettleLeaseKeeps
<1>4. ASSUME NEW a \in Actors,
             RevokeCheck(a) \/ RevokeTake(a) \/ RevokeBudget(a) \/ RevokeLease(a) \/ Drop(a)
      PROVE  PermitInv'
  BY <1>4, RevokeCheckKeeps, RevokeTakeKeeps, RevokeBudgetKeeps, RevokeLeaseKeeps, DropKeeps
<1>5. ASSUME NEW c \in Cleaners, (\E S \in SUBSET active : Collect(c, S)) \/ CleanNext(c)
      PROVE  PermitInv'
  BY <1>5, CollectKeeps, CleanNextKeeps
<1> QED
  BY <1>1, <1>2, <1>3, <1>4, <1>5, LeaseExpiresKeeps DEF Next

\* The invariant holds in every state that admission, settlement, revocation and
\* cleanup reach.
THEOREM Permits == Spec => []PermitInv
BY InitPermits, NextPermits, PTL DEF Spec

\* However settle, revoke and cleanup race, and wherever a caller is dropped, the
\* reservation of a permit is closed at most once, what was charged is neither
\* charged nor refunded again, and success is answered only for a settled permit.
THEOREM PermitsClosedOnce == Spec => []ClosedOnce
<1>1. PermitInv => ClosedOnce
  BY DEF PermitInv, Closings, Charges, ClosedOnce
<1> QED
  BY <1>1, Permits, PTL

\* The state is well formed, no more reservations are open than the budget affords,
\* and every reservation and lease has somebody who gives it back, unless a caller
\* was dropped or SandboxRequiredUnavailable was answered.
THEOREM PermitsDoNotLeak == Spec => []NothingLeaks
<1>1. PermitInv => NothingLeaks
  BY DEF PermitInv, Cared, NothingLeaks
<1> QED
  BY <1>1, Permits, PTL

-----------------------------------------------------------------------------
(***************************************************************************)
(* The lease manager, the other half of kernel/admission, for any          *)
(* resources, callers and durations.  It keeps its own state.              *)
(*                                                                         *)
(* BookInv relates the two maps to the history of every lease and needs no *)
(* assumption.  That a resource is exclusive rests on prompt callers: as   *)
(* long as none was late, the entry of a resource is the lease that is     *)
(* held or being released, and a release removes its own entry.            *)
(***************************************************************************)

\* The entry, by_id, the call in progress and the history tell one story.
BookInv ==
  /\ \A r \in Resources : leases[r].id # Nothing =>
       /\ grant[leases[r].id].resource = r
       /\ \/ grant[leases[r].id].status = "held" /\ byId[leases[r].id] = r
          \/ grant[leases[r].id].status \in {"releasing", "lost"}
  /\ \A l \in Leases : byId[l] # Nothing =>
       grant[l].status = "held" /\ grant[l].resource = byId[l]
  /\ \A c \in Callers : call[c].at = "release" =>
       /\ call[c].lease \in Leases
       /\ call[c].resource \in Resources
       /\ grant[call[c].lease].status = "releasing"
       /\ grant[call[c].lease].resource = call[c].resource
  /\ \A c, e \in Callers :
       call[c].at = "release" /\ call[e].at = "release" /\ call[c].lease = call[e].lease => c = e

LeaseInv == LeaseTypeOK /\ BookInv

\* As long as nobody is late, every lease in use is its resource's entry, and the
\* clock that a caller passes to acquire is the present.
PromptInv ==
  /\ \A c \in Callers : call[c].at = "acquire" => call[c].time = now
  /\ \A l \in Leases : InUse(l) =>
       /\ grant[l].resource \in Resources
       /\ leases[grant[l].resource].id = l
       /\ leases[grant[l].resource].acquired <= now
       /\ leases[grant[l].resource].acquired + leases[grant[l].resource].duration
            = grant[l].until
       /\ now < grant[l].until

LEMMA InitLeases == LeaseInit => LeaseInv /\ PromptInv
<1> SUFFICES ASSUME LeaseInit PROVE LeaseInv /\ PromptInv
  OBVIOUS
<1>1. late \in BOOLEAN
  BY DEF LeaseInit
<1>2. LeaseTypeOK
  BY <1>1, LeaseAssumption DEF LeaseInit, LeaseTypeOK, Entry, Free, CallState, Idle, Grant
<1>3. BookInv /\ PromptInv
  BY LeaseAssumption DEF LeaseInit, BookInv, PromptInv, Free, Idle, InUse
<1> QED
  BY <1>2, <1>3 DEF LeaseInv

LEMMA AcquireKeeps ==
  ASSUME LeaseInv, NEW c \in Callers, NEW r \in Resources, NEW d \in Durations,
         NEW l \in Leases, Acquire(c, r, d, l)
  PROVE  LeaseInv'
<1> USE LeaseAssumption DEF LeaseInv
<1>1. call[c].time \in Nat /\ d \in Nat /\ call[c].time + d \in Nat
  BY DEF LeaseTypeOK, CallState
<1>2. LeaseTypeOK'
  BY <1>1 DEF Acquire, LeaseTypeOK, Entry, CallState, Idle, Grant
<1>3. BookInv'
  BY DEF Acquire, LeaseTypeOK, BookInv, Entry, CallState, Idle, Grant
<1> QED
  BY <1>2, <1>3

LEMMA AcquireDroppedKeeps ==
  ASSUME LeaseInv, NEW c \in Callers, NEW r \in Resources, NEW d \in Durations,
         NEW l \in Leases, AcquireDropped(c, r, d, l)
  PROVE  LeaseInv'
<1> USE LeaseAssumption DEF LeaseInv
<1>1. call[c].time \in Nat /\ d \in Nat /\ call[c].time + d \in Nat
  BY DEF LeaseTypeOK, CallState
<1>2. LeaseTypeOK'
  BY <1>1 DEF AcquireDropped, LeaseTypeOK, Entry, CallState, Idle, Grant
<1>3. BookInv'
  BY DEF AcquireDropped, LeaseTypeOK, BookInv, Entry, CallState, Idle, Grant
<1> QED
  BY <1>2, <1>3

LEMMA ReleaseIdKeeps ==
  ASSUME LeaseInv, NEW c \in Callers, NEW l \in Leases, ReleaseId(c, l)
  PROVE  LeaseInv'
<1> USE LeaseAssumption DEF LeaseInv
<1>1. CASE byId[l] = Nothing
  <2>1. /\ UNCHANGED <<now, leases, call, late>>
        /\ grant' = [grant EXCEPT ![l].status = "released"]
        /\ byId' = [byId EXCEPT ![l] = Nothing]
    BY <1>1 DEF ReleaseId
  <2>2. LeaseTypeOK'
    BY <2>1 DEF LeaseTypeOK, Grant
  <2>3. BookInv'
    BY <1>1, <2>1 DEF ReleaseId, LeaseTypeOK, BookInv, Entry, Grant
  <2> QED
    BY <2>2, <2>3
<1>2. CASE byId[l] # Nothing
  <2>1. /\ UNCHANGED <<now, leases, late>>
        /\ grant' = [grant EXCEPT ![l].status = "releasing"]
        /\ byId' = [byId EXCEPT ![l] = Nothing]
        /\ call' = [call EXCEPT ![c] = Releasing(l, byId[l])]
        /\ byId[l] \in Resources
        /\ grant[l].status = "held" /\ grant[l].resource = byId[l]
    BY <1>2 DEF ReleaseId, LeaseTypeOK, BookInv
  <2>2. LeaseTypeOK'
    BY <2>1 DEF LeaseTypeOK, CallState, Releasing, Grant
  <2>3. BookInv'
    BY <2>1 DEF LeaseTypeOK, BookInv, Entry, CallState, Releasing, Grant
  <2> QED
    BY <2>2, <2>3
<1> QED
  BY <1>1, <1>2

LEMMA NextLeases == LeaseInv /\ [LeaseNext]_leaseVars => LeaseInv'
<1> SUFFICES ASSUME LeaseInv, [LeaseNext]_leaseVars PROVE LeaseInv'
  OBVIOUS
<1> USE LeaseAssumption DEF LeaseInv
<1>1. CASE Tick
  BY <1>1 DEF Tick, LeaseTypeOK, BookInv
<1>2. ASSUME NEW c \in Callers, ReadClock(c) PROVE LeaseInv'
  BY <1>2 DEF ReadClock, LeaseTypeOK, BookInv, CallState, Acquiring
<1>3. ASSUME NEW c \in Callers, NEW r \in Resources, Deny(c, r) PROVE LeaseInv'
  BY <1>3 DEF Deny, LeaseTypeOK, BookInv, CallState, Idle
<1>4. ASSUME NEW c \in Callers, ReleaseResource(c) PROVE LeaseInv'
  <2>1. LeaseTypeOK'
    BY <1>4 DEF ReleaseResource, LeaseTypeOK, BookInv, CallState, Idle, Entry, Free, Grant
  <2>2. BookInv'
    BY <1>4 DEF ReleaseResource, LeaseTypeOK, BookInv, CallState, Idle, Entry, Free, Grant
  <2> QED
    BY <2>1, <2>2
<1>5. CASE UNCHANGED leaseVars
  BY <1>5 DEF leaseVars, LeaseTypeOK, BookInv
<1> QED
  BY <1>1, <1>2, <1>3, <1>4, <1>5, AcquireKeeps, AcquireDroppedKeeps, ReleaseIdKeeps DEF LeaseNext

\* A prompt clock leaves what PromptInv says of the leases in use alone.
LEMMA PromptKeeps ==
  LeaseInv /\ (late \/ PromptInv) /\ [LeaseNext]_leaseVars => (late \/ PromptInv)'
<1> SUFFICES ASSUME LeaseInv, ~late', late \/ PromptInv, [LeaseNext]_leaseVars PROVE PromptInv'
  OBVIOUS
<1>0. ~late /\ PromptInv
  <2>1. CASE Tick
    BY <2>1 DEF Tick
  <2>2. ASSUME NEW c \in Callers, NEW r \in Resources, NEW d \in Durations,
               NEW l \in Leases, Acquire(c, r, d, l) \/ AcquireDropped(c, r, d, l)
        PROVE  ~late
    BY <2>2 DEF Acquire, AcquireDropped
  <2>3. ASSUME NEW c \in Callers,
               \/ ReadClock(c) \/ ReleaseResource(c)
               \/ \E r \in Resources : Deny(c, r)
               \/ \E l \in Leases : ReleaseId(c, l)
        PROVE  ~late
    BY <2>3 DEF ReadClock, ReleaseResource, Deny, ReleaseId
  <2>4. CASE UNCHANGED leaseVars
    BY <2>4 DEF leaseVars
  <2>5. ~late
    BY <2>1, <2>2, <2>3, <2>4 DEF LeaseNext
  <2> QED
    BY <2>5
<1> USE <1>0, LeaseAssumption DEF LeaseInv, InUse
<1>1. CASE Tick
  BY <1>1 DEF Tick, LeaseTypeOK, PromptInv, Entry, Grant
<1>2. ASSUME NEW c \in Callers, ReadClock(c) PROVE PromptInv'
  BY <1>2 DEF ReadClock, LeaseTypeOK, PromptInv, CallState, Acquiring
<1>a. ASSUME NEW r \in Resources, ~Unexpired(leases[r], now)
      PROVE  \A m \in Leases : grant[m].status \in {"held", "releasing"} => grant[m].resource # r
  <2> SUFFICES ASSUME NEW m \in Leases, grant[m].status \in {"held", "releasing"},
                      grant[m].resource = r
               PROVE  FALSE
    OBVIOUS
  <2>1. /\ leases[r].id = m
        /\ leases[r].acquired <= now
        /\ leases[r].acquired + leases[r].duration = grant[m].until
        /\ now < grant[m].until
    BY DEF PromptInv
  <2>2. leases[r].acquired \in Nat /\ leases[r].duration \in Nat /\ now \in Nat
    BY DEF LeaseTypeOK, Entry
  <2>3. Unexpired(leases[r], now)
    BY <2>1, <2>2 DEF Unexpired, SaturatingSub
  <2> QED
    BY <1>a, <2>3
<1>3. ASSUME NEW c \in Callers, NEW r \in Resources, NEW d \in Durations,
             NEW l \in Leases, Acquire(c, r, d, l)
      PROVE  PromptInv'
  <2>0. d # 0
    BY <1>3 DEF Acquire
  <2>1. /\ call[c].time = now
        /\ d \in Nat /\ d > 0
        /\ now \in Nat
    BY <1>3, <2>0 DEF Acquire, PromptInv, LeaseTypeOK
  <2>2. \A m \in Leases : grant[m].status \in {"held", "releasing"} => grant[m].resource # r
    BY <1>3, <1>a, <2>1 DEF Acquire
  <2>3. \A e \in Callers : call'[e].at = "acquire" => call'[e].time = now'
    BY <1>3 DEF Acquire, PromptInv, LeaseTypeOK, CallState, Idle
  <2>4. ASSUME NEW m \in Leases, grant'[m].status \in {"held", "releasing"}, m # l
        PROVE  /\ grant'[m] = grant[m]
               /\ leases'[grant[m].resource] = leases[grant[m].resource]
    BY <1>3, <2>2, <2>4 DEF Acquire, LeaseTypeOK, PromptInv
  <2>5. /\ grant'[l].resource = r
        /\ grant'[l].until = now + d
        /\ leases'[r] = [id |-> l, acquired |-> now, duration |-> d]
        /\ now' = now
    BY <1>3, <2>1 DEF Acquire, LeaseTypeOK
  <2>6. /\ leases'[grant'[l].resource].id = l
        /\ leases'[grant'[l].resource].acquired <= now'
        /\ leases'[grant'[l].resource].acquired + leases'[grant'[l].resource].duration
             = grant'[l].until
        /\ now' < grant'[l].until
    BY <2>1, <2>5
  <2> QED
    BY <2>3, <2>4, <2>5, <2>6 DEF PromptInv
<1>b. ASSUME NEW c \in Callers, NEW r \in Resources, NEW d \in Durations,
             NEW l \in Leases, AcquireDropped(c, r, d, l)
      PROVE  PromptInv'
  <2>1. call[c].time = now
    BY <1>b DEF AcquireDropped, PromptInv
  <2>2. \A m \in Leases : grant[m].status \in {"held", "releasing"} => grant[m].resource # r
    BY <1>b, <1>a, <2>1 DEF AcquireDropped
  <2>3. \A e \in Callers : call'[e].at = "acquire" => call'[e].time = now'
    BY <1>b DEF AcquireDropped, PromptInv, LeaseTypeOK, CallState, Idle
  <2>4. ASSUME NEW m \in Leases, grant'[m].status \in {"held", "releasing"}
        PROVE  /\ grant'[m] = grant[m]
               /\ leases'[grant[m].resource] = leases[grant[m].resource]
    BY <1>b, <2>2, <2>4 DEF AcquireDropped, LeaseTypeOK, PromptInv
  <2>5. now' = now
    BY <1>b DEF AcquireDropped
  <2> QED
    BY <2>3, <2>4, <2>5 DEF PromptInv
<1>4. ASSUME NEW c \in Callers, NEW r \in Resources, Deny(c, r) PROVE PromptInv'
  BY <1>4 DEF Deny, LeaseTypeOK, PromptInv, CallState, Idle
<1>5. ASSUME NEW c \in Callers, NEW l \in Leases, ReleaseId(c, l) PROVE PromptInv'
  <2>1. \A e \in Callers : call'[e].at = "acquire" => call'[e] = call[e]
    BY <1>5 DEF ReleaseId, LeaseTypeOK, CallState, Releasing
  <2>2. \A m \in Leases : /\ grant'[m].status \in {"held", "releasing"}
                               => grant[m].status \in {"held", "releasing"}
                          /\ grant'[m].resource = grant[m].resource
                          /\ grant'[m].until = grant[m].until
    BY <1>5 DEF ReleaseId, LeaseTypeOK, Grant
  <2>3. UNCHANGED <<now, leases>>
    BY <1>5 DEF ReleaseId
  <2> QED
    BY <2>1, <2>2, <2>3 DEF PromptInv
<1>6. ASSUME NEW c \in Callers, ReleaseResource(c) PROVE PromptInv'
  <2>1. PICK l \in Leases, r \in Resources :
          /\ l = call[c].lease /\ r = call[c].resource
          /\ grant[l].status = "releasing" /\ grant[l].resource = r
    BY <1>6 DEF ReleaseResource, BookInv
  <2>2. /\ now' = now
        /\ \A x \in Resources \ {r} : leases'[x] = leases[x]
    BY <1>6, <2>1 DEF ReleaseResource, LeaseTypeOK
  <2>3. \A m \in Leases : grant'[m].status \in {"held", "releasing"} => m # l /\ grant'[m] = grant[m]
    BY <1>6, <2>1 DEF ReleaseResource, LeaseTypeOK, Grant
  <2>4. \A e \in Callers : call'[e].at = "acquire" => call'[e] = call[e]
    BY <1>6 DEF ReleaseResource, LeaseTypeOK, Idle
  <2>5. \A m \in Leases : m # l /\ grant[m].status \in {"held", "releasing"} => grant[m].resource # r
    BY <2>1 DEF PromptInv
  <2> QED
    BY <2>2, <2>3, <2>4, <2>5 DEF PromptInv
<1>7. CASE UNCHANGED leaseVars
  BY <1>7 DEF leaseVars, PromptInv
<1> QED
  BY <1>1, <1>2, <1>3, <1>b, <1>4, <1>5, <1>6, <1>7 DEF LeaseNext

\* The two maps and the calls in progress always agree with the history.
THEOREM LeasesAgree == LeaseSpec => []LeaseInv
<1> QED
  BY InitLeases, NextLeases, PTL DEF LeaseSpec

\* The lease manager stays well formed.
THEOREM LeasesWellFormed == LeaseSpec => []LeaseTypeOK
<1>1. LeaseInv => LeaseTypeOK
  BY DEF LeaseInv
<1> QED
  BY <1>1, LeasesAgree, PTL

\* A lease whose release has returned keeps nobody out, for any number of
\* callers that race with it, are late, or are dropped.
THEOREM ReleasedLeasesNeverBlock == LeaseSpec => []ReleasedNeverBlocks
<1>1. LeaseInv => ReleasedNeverBlocks
  BY DEF LeaseInv, BookInv, ReleasedNeverBlocks, InUse
<1> QED
  BY <1>1, LeasesAgree, PTL

\* A resource's entry can be given back by the holder it names.
THEOREM EntriesCanBeReleased == LeaseSpec => []EntryCanBeReleased
<1>1. LeaseInv => EntryCanBeReleased
  BY DEF LeaseInv, BookInv, EntryCanBeReleased
<1> QED
  BY <1>1, LeasesAgree, PTL

\* "only one lease per resource at a time" holds as long as every holder
\* releases before its lease expires.
THEOREM PromptExclusive == LeaseSpec => []ExclusiveWhilePrompt
<1>1. late \/ PromptInv => ExclusiveWhilePrompt
  BY DEF PromptInv, ExclusiveWhilePrompt, Exclusive, Holders, InUse
<1>2. LeaseInit => late \/ PromptInv
  BY InitLeases
<1> QED
  BY <1>1, <1>2, PromptKeeps, LeasesAgree, PTL DEF LeaseSpec

-----------------------------------------------------------------------------
(* The budget: sums.  Lent and Kept are sums over the children of a scope.  *)
(* A sum is the number of units in a disjoint union, so that the theorems   *)
(* on the cardinality of finite sets do the work of an induction.           *)

\* There are finitely many scopes.
LEMMA ScopesFinite ==
  ASSUME NEW S \in SUBSET Scopes
  PROVE  IsFiniteSet(S)
<1>1. IsFiniteSet(Scopes)
  BY BudgetAssumption, FS_Interval DEF Scopes
<1> QED
  BY <1>1, FS_Subset

\* An amount is a number of units, or has no limit and stands for none.
LEMMA AmountIsInt ==
  ASSUME NEW a \in Amount
  PROVE  /\ a \in Int
         /\ a # Unlimited => a \in Nat
         /\ Add(0, a) \in Nat
         /\ Add(0, a) = IF a = Unlimited THEN 0 ELSE a
BY DEF Amount, Unlimited, Add

\* One scope stands for as many units as it has.
LEMMA UnitsOfOne ==
  ASSUME NEW c, NEW a \in Amount
  PROVE  /\ IsFiniteSet({c} \X (1..a))
         /\ Cardinality({c} \X (1..a)) = Add(0, a)
<1>1. a \in Int /\ (a = -1 \/ a \in Nat)
  BY DEF Amount, Unlimited
<1>2. IsFiniteSet(1..a) /\ Cardinality(1..a) = Add(0, a)
  <2>1. IsFiniteSet(1..a) /\ Cardinality(1..a) = IF 1 > a THEN 0 ELSE a - 1 + 1
    BY <1>1, FS_Interval
  <2> QED
    BY <1>1, <2>1 DEF Add, Unlimited
<1>3. IsFiniteSet({c}) /\ Cardinality({c}) = 1
  BY FS_Singleton
<1>4. IsFiniteSet({c} \X (1..a)) /\ Cardinality({c} \X (1..a)) = Cardinality({c}) * Cardinality(1..a)
  BY <1>2, <1>3, FS_Product
<1>5. Add(0, a) \in Nat
  BY AmountIsInt
<1> QED
  BY <1>2, <1>3, <1>4, <1>5

\* Finitely many scopes stand for finitely many units.
LEMMA UnitsFinite ==
  ASSUME NEW f \in [Scopes -> Amount], NEW S \in SUBSET Scopes
  PROVE  IsFiniteSet(Units(f, S))
<1> DEFINE T == {{c} \X (1..f[c]) : c \in S}
           g == [c \in S |-> {c} \X (1..f[c])]
<1>1. g \in Surjection(S, T)
  BY DEF Surjection
<1>2. IsFiniteSet(T)
  BY <1>1, ScopesFinite, FS_Surjection
<1>3. \A U \in T : IsFiniteSet(U)
  BY UnitsOfOne
<1> QED
  BY <1>2, <1>3, FS_UNION DEF Units

\* A sum of amounts is a natural number.
LEMMA TotalNat ==
  ASSUME NEW f \in [Scopes -> Amount], NEW S \in SUBSET Scopes
  PROVE  Total(f, S) \in Nat
BY UnitsFinite, FS_CardinalityType DEF Total

\* The sum over no scope.
LEMMA TotalNone ==
  ASSUME NEW f
  PROVE  Total(f, {}) = 0
<1>1. Units(f, {}) = {}
  BY DEF Units
<1> QED
  BY <1>1, FS_EmptySet DEF Total

\* A sum of nothings.
LEMMA TotalZero ==
  ASSUME NEW f, NEW S, \A c \in S : f[c] = 0
  PROVE  Total(f, S) = 0
<1>1. Units(f, S) = {}
  BY DEF Units
<1> QED
  BY <1>1, FS_EmptySet DEF Total

\* Equal amounts have equal sums.
LEMMA TotalSame ==
  ASSUME NEW f, NEW g, NEW S, \A c \in S : f[c] = g[c]
  PROVE  Total(f, S) = Total(g, S)
<1>1. Units(f, S) = Units(g, S)
  BY DEF Units
<1> QED
  BY <1>1 DEF Total

\* The units of disjoint sets of scopes are disjoint, so that sums add up.
LEMMA TotalSplit ==
  ASSUME NEW f \in [Scopes -> Amount], NEW S \in SUBSET Scopes, NEW T \in SUBSET Scopes,
         S \cap T = {}
  PROVE  Total(f, S \cup T) = Total(f, S) + Total(f, T)
<1>1. Units(f, S \cup T) = Units(f, S) \cup Units(f, T)
  BY DEF Units
<1>2. Units(f, S) \cap Units(f, T) = {}
  BY DEF Units
<1>3. IsFiniteSet(Units(f, S)) /\ IsFiniteSet(Units(f, T))
  BY UnitsFinite
<1> DEFINE A == Units(f, S)
           B == Units(f, T)
           C == Units(f, S \cup T)
<1> HIDE DEF A, B, C
<1>4. Cardinality(A \cup B) = Cardinality(A) + Cardinality(B) - Cardinality(A \cap B)
  BY <1>3, FS_Union DEF A, B
<1>5. C = A \cup B /\ A \cap B = {}
  BY <1>1, <1>2 DEF A, B, C
<1>6. Cardinality({}) = 0
  BY FS_EmptySet
<1>7. Cardinality(A) \in Nat /\ Cardinality(B) \in Nat
  BY <1>3, FS_CardinalityType DEF A, B
<1>8. Cardinality(A \cap B) = 0 /\ Cardinality(C) = Cardinality(A \cup B)
  BY <1>5, <1>6, Zenon
<1>9. Cardinality(C) = Cardinality(A) + Cardinality(B)
  BY <1>4, <1>7, <1>8
<1> QED
  BY <1>9 DEF Total, A, B, C

\* One scope more.
LEMMA TotalAdd ==
  ASSUME NEW f \in [Scopes -> Amount], NEW S \in SUBSET Scopes, NEW c \in Scopes, c \notin S
  PROVE  Total(f, S \cup {c}) = Total(f, S) + Add(0, f[c])
<1>1. Units(f, {c}) = {c} \X (1..f[c])
  BY DEF Units
<1>2. Total(f, {c}) = Add(0, f[c])
  BY <1>1, UnitsOfOne DEF Total
<1> QED
  BY <1>2, TotalSplit

\* The sum over one scope.
LEMMA TotalOne ==
  ASSUME NEW f \in [Scopes -> Amount], NEW c \in Scopes
  PROVE  Total(f, {c}) = Add(0, f[c])
<1>1. Total(f, {} \cup {c}) = Total(f, {}) + Add(0, f[c])
  BY TotalAdd
<1>2. {} \cup {c} = {c}
  OBVIOUS
<1>3. Total(f, {} \cup {c}) = Total(f, {c})
  BY <1>2, Zenon
<1>4. Add(0, f[c]) \in Nat
  BY AmountIsInt
<1> QED
  BY <1>1, <1>3, <1>4, TotalNone

-----------------------------------------------------------------------------
(* The budget: the inductive invariant *)

\* The scope exists.
Known(m, s) == m.kind[s] # "Unused"

\* Scopes hang below scopes that exist; only roots hang nowhere.
Tree(m) ==
  \A s \in Scopes :
     /\ ~Known(m, s) => m.parent[s] = NoScope /\ ~m.closed[s] /\ m.received[s] = 0
     /\ m.parent[s] = NoScope <=> m.kind[s] \in {"Unused", "Rollout"}
     /\ m.parent[s] # s
     /\ m.parent[s] # NoScope => Known(m, m.parent[s])

\* A reservation for every open scope but a root (ReservedWhileOpen).
Reserved(m) ==
  \A s \in Scopes : s \in m.reservations <=> Open(m, s) /\ m.kind[s] # "Rollout"

\* Limits and what remains of them are both finite or neither is; an open
\* scope has kept nothing yet.
Counted(m) ==
  \A s \in Scopes : /\ m.remaining[s] = Unlimited <=> m.limit[s] = Unlimited
                    /\ ~m.closed[s] => m.kept[s] = 0

\* The books of one scope, and of all open scopes with a limit (Balance).
Balanced(m, s) == m.remaining[s] + Lent(m, s) + Kept(m, s) = m.limit[s] + m.received[s]
BooksBalanced(m) == \A s \in Scopes : Open(m, s) /\ m.limit[s] # Unlimited => Balanced(m, s)

\* What holds of one budget state.
StateInv(m) == m \in BudgetState /\ Tree(m) /\ Reserved(m) /\ Counted(m) /\ BooksBalanced(m)

\* The state m is what the answers a say (AckSurvives).
Honours(m, a) ==
  \A s \in Scopes : /\ a[s] = "open" => Known(m, s)
                    /\ a[s] = "closed" => m.closed[s]

\* n knows and has closed all that m knows and has closed.
Above(n, m) ==
  \A s \in Scopes : /\ Known(m, s) => Known(n, s)
                    /\ m.closed[s] => n.closed[s]

\* The inductive invariant: the file obeys what the memory obeys, because a
\* crash makes it the memory.
BudgetInv ==
  /\ StateInv(mem) /\ StateInv(disk)
  /\ faults \in 0..MaxFaults
  /\ acked \in [Scopes -> {"nothing", "open", "closed"}]
  /\ Honours(mem, acked) /\ Honours(disk, acked)

-----------------------------------------------------------------------------
(* The budget: the locked operations *)

\* Children are scopes.
LEMMA ChildrenAreScopes ==
  ASSUME NEW m, NEW s
  PROVE  /\ OpenChildren(m, s) \in SUBSET Scopes
         /\ ClosedChildren(m, s) \in SUBSET Scopes
BY DEF OpenChildren, ClosedChildren

\* What scopes kept, and their limits, can be summed.
LEMMA KeptIsAmount ==
  ASSUME NEW m \in BudgetState
  PROVE  m.kept \in [Scopes -> Amount] /\ m.limit \in [Scopes -> Amount]
BY DEF BudgetState, Amount

\* From m to n the children of s, and what they hold and kept, are unchanged.
Untouched(m, n, s) ==
  /\ OpenChildren(n, s) = OpenChildren(m, s)
  /\ ClosedChildren(n, s) = ClosedChildren(m, s)
  /\ \A c \in OpenChildren(m, s) : n.limit[c] = m.limit[c]
  /\ \A c \in ClosedChildren(m, s) : n.kept[c] = m.kept[c]

\* Such a scope has lent and lost what it had before.
LEMMA UntouchedBalance ==
  ASSUME NEW m, NEW n, NEW s, Untouched(m, n, s)
  PROVE  Lent(n, s) = Lent(m, s) /\ Kept(n, s) = Kept(m, s)
<1>1. Total(n.limit, OpenChildren(m, s)) = Total(m.limit, OpenChildren(m, s))
  BY TotalSame DEF Untouched
<1>2. Total(n.kept, ClosedChildren(m, s)) = Total(m.kept, ClosedChildren(m, s))
  BY TotalSame DEF Untouched
<1> QED
  BY <1>1, <1>2, Zenon DEF Lent, Kept, Untouched

\* The effect of a new root, field by field.
RootMade(m, n, s, l) ==
  /\ n.kind = [m.kind EXCEPT ![s] = "Rollout"]
  /\ n.limit = [m.limit EXCEPT ![s] = l]
  /\ n.remaining = [m.remaining EXCEPT ![s] = l]
  /\ n.parent = m.parent /\ n.closed = m.closed /\ n.kept = m.kept
  /\ n.received = m.received /\ n.reservations = m.reservations

\* create_root_locked does that, and nothing else to the books.
LEMMA RootFields ==
  ASSUME NEW m \in BudgetState, NEW s \in Scopes, NEW l \in Amount
  PROVE  CreateRootLocked(m, s, l) \in BudgetState /\ RootMade(m, CreateRootLocked(m, s, l), s, l)
<1> DEFINE n == CreateRootLocked(m, s, l)
<1>1. n \in BudgetState
  BY DEF CreateRootLocked, BudgetState, Kinds
<1>2. RootMade(m, n, s, l)
  BY DEF CreateRootLocked, BudgetState, RootMade
<1> QED
  BY <1>1, <1>2

\* create_root_locked keeps the books.
LEMMA RootLocked ==
  ASSUME NEW m, StateInv(m), NEW s \in Scopes, ~Known(m, s), NEW l \in Amount
  PROVE  /\ StateInv(CreateRootLocked(m, s, l))
         /\ Above(CreateRootLocked(m, s, l), m)
         /\ Known(CreateRootLocked(m, s, l), s)
<1> DEFINE n == CreateRootLocked(m, s, l)
<1>1. m \in BudgetState /\ Tree(m) /\ Reserved(m) /\ Counted(m) /\ BooksBalanced(m)
  BY DEF StateInv
<1>2. n \in BudgetState /\ RootMade(m, n, s, l)
  BY <1>1, RootFields
<1> HIDE DEF n
<1>3. /\ n \in BudgetState
      /\ n.kind = [m.kind EXCEPT ![s] = "Rollout"]
      /\ n.limit = [m.limit EXCEPT ![s] = l]
      /\ n.remaining = [m.remaining EXCEPT ![s] = l]
      /\ n.parent = m.parent /\ n.closed = m.closed /\ n.kept = m.kept
      /\ n.received = m.received /\ n.reservations = m.reservations
  BY <1>2 DEF RootMade
<1>4. Above(n, m) /\ Known(n, s)
  BY <1>1, <1>3 DEF Above, Known, BudgetState
<1>5. Tree(n)
  BY <1>1, <1>3 DEF Tree, Known, BudgetState
<1>6. Reserved(n)
  BY <1>1, <1>3 DEF Reserved, Open, Known, BudgetState
<1>7. Counted(n)
  BY <1>1, <1>3 DEF Counted, BudgetState
<1>8. ASSUME NEW x \in Scopes
      PROVE  OpenChildren(n, x) = OpenChildren(m, x) /\ ClosedChildren(n, x) = ClosedChildren(m, x)
  <2>1. \A c \in Scopes : m.parent[c] = x => c # s
    BY <1>1 DEF Tree, Known, NoScope, Scopes
  <2> QED
    BY <1>1, <1>3, <2>1 DEF OpenChildren, ClosedChildren, Open, Known, BudgetState
<1>9. OpenChildren(m, s) = {} /\ ClosedChildren(m, s) = {}
  BY <1>1 DEF OpenChildren, ClosedChildren, Open, Tree, Known, NoScope, Scopes
<1>10. ASSUME NEW x \in Scopes, Open(n, x), n.limit[x] # Unlimited
      PROVE  Balanced(n, x)
  <2>1. \A c \in OpenChildren(m, x) : n.limit[c] = m.limit[c]
    BY <1>1, <1>3 DEF OpenChildren, Open, Known, BudgetState
  <2>2. Lent(n, x) = Lent(m, x) /\ Kept(n, x) = Kept(m, x)
    <3>1. Untouched(m, n, x)
      BY <1>3, <1>8, <2>1 DEF Untouched
    <3> QED
      BY <3>1, UntouchedBalance
  <2>3. CASE x = s
    <3>1. Lent(n, x) = 0 /\ Kept(n, x) = 0
      BY <1>8, <1>9, <2>3, TotalNone DEF Lent, Kept
    <3>2. n.received[x] = 0 /\ n.remaining[x] = l /\ n.limit[x] = l
      BY <1>1, <1>3, <2>3 DEF Tree, BudgetState
    <3>3. l \in Nat
      BY <1>10, <3>2, AmountIsInt
    <3> QED
      BY <3>1, <3>2, <3>3 DEF Balanced
  <2>4. CASE x # s
    <3>1. Open(m, x) /\ m.limit[x] # Unlimited
      BY <1>1, <1>3, <1>10, <2>4 DEF Open, BudgetState
    <3>2. Balanced(m, x)
      BY <1>1, <3>1 DEF BooksBalanced
    <3>3. n.remaining[x] = m.remaining[x] /\ n.limit[x] = m.limit[x] /\ n.received[x] = m.received[x]
      BY <1>1, <1>3, <2>4 DEF BudgetState
    <3> QED
      BY <2>2, <3>2, <3>3 DEF Balanced
  <2> QED
    BY <2>3, <2>4
<1> QED
  BY <1>3, <1>4, <1>5, <1>6, <1>7, <1>10 DEF StateInv, BooksBalanced, n

\* From m to n the open children D of p are closed.
Closes(m, n, p, D) ==
  /\ D \subseteq OpenChildren(m, p)
  /\ OpenChildren(n, p) = OpenChildren(m, p) \ D
  /\ ClosedChildren(n, p) = ClosedChildren(m, p) \cup D
  /\ n.limit = m.limit
  /\ \A c \in ClosedChildren(m, p) : n.kept[c] = m.kept[c]

\* What p has lent and its closed children have kept, then.
LEMMA ClosingBalance ==
  ASSUME NEW m \in BudgetState, NEW n \in BudgetState, NEW p \in Scopes, NEW D, Closes(m, n, p, D)
  PROVE  /\ Lent(m, p) = Lent(n, p) + Total(m.limit, D)
         /\ Kept(n, p) = Kept(m, p) + Total(n.kept, D)
<1> DEFINE O == OpenChildren(m, p)
           C == ClosedChildren(m, p)
<1>1. O \in SUBSET Scopes /\ C \in SUBSET Scopes /\ D \in SUBSET Scopes /\ C \cap D = {}
  BY DEF Closes, OpenChildren, ClosedChildren, Open
<1>2. m.limit \in [Scopes -> Amount] /\ n.kept \in [Scopes -> Amount]
  BY KeptIsAmount
<1>3. Lent(m, p) = Total(m.limit, O) /\ Lent(n, p) = Total(m.limit, O \ D)
  BY Zenon DEF Lent, Closes
<1>4. Kept(n, p) = Total(n.kept, C \cup D) /\ Kept(m, p) = Total(m.kept, C)
  BY Zenon DEF Kept, Closes
<1> HIDE DEF O, C
<1>5. Total(m.limit, O) = Total(m.limit, O \ D) + Total(m.limit, D)
  <2>1. Total(m.limit, (O \ D) \cup D) = Total(m.limit, O \ D) + Total(m.limit, D)
    BY <1>1, <1>2, TotalSplit
  <2>2. (O \ D) \cup D = O
    BY DEF O, Closes
  <2> QED
    BY <2>1, <2>2, Zenon
<1>6. Total(n.kept, C \cup D) = Total(n.kept, C) + Total(n.kept, D)
  BY <1>1, <1>2, TotalSplit
<1>7. Total(n.kept, C) = Total(m.kept, C)
  BY TotalSame DEF C, Closes
<1> QED
  BY <1>3, <1>4, <1>5, <1>6, <1>7

\* The effect of a reservation, field by field.
ChildMade(m, n, s, p, k, req) ==
  /\ n.kind = [m.kind EXCEPT ![s] = k]
  /\ n.parent = [m.parent EXCEPT ![s] = p]
  /\ n.limit = [m.limit EXCEPT ![s] = req]
  /\ n.remaining = [m.remaining EXCEPT ![p] = Subtract(m.remaining[p], req), ![s] = req]
  /\ n.reservations = m.reservations \cup {s}
  /\ n.closed = m.closed /\ n.kept = m.kept /\ n.received = m.received

\* reserve_child_locked does that; its subtraction stays above zero.
LEMMA ReserveFields ==
  ASSUME NEW m \in BudgetState, NEW s \in Scopes, NEW p \in Scopes, s # p,
         NEW k \in Kinds, NEW req \in Amount, CanAfford(m.remaining[p], req)
  PROVE  /\ ReserveChildLocked(m, s, p, k, req) \in BudgetState
         /\ ChildMade(m, ReserveChildLocked(m, s, p, k, req), s, p, k, req)
<1> DEFINE n == ReserveChildLocked(m, s, p, k, req)
<1>1. Subtract(m.remaining[p], req) \in Amount
  <2>1. m.remaining[p] \in Amount
    BY DEF BudgetState
  <2> QED
    BY <2>1 DEF Subtract, CanAfford, Amount, Unlimited
<1>2. n.remaining = [m.remaining EXCEPT ![p] = Subtract(m.remaining[p], req), ![s] = req]
  BY DEF ReserveChildLocked, BudgetState
<1>3. n.remaining \in [Scopes -> Amount]
  BY <1>1, <1>2 DEF BudgetState
<1>4. n \in BudgetState
  BY <1>3 DEF ReserveChildLocked, BudgetState
<1>5. ChildMade(m, n, s, p, k, req)
  BY <1>2 DEF ReserveChildLocked, BudgetState, ChildMade
<1> QED
  BY <1>4, <1>5

\* reserve_child_locked keeps the books: the parent lends what the child gets.
LEMMA ReserveLocked ==
  ASSUME NEW m, StateInv(m), NEW s \in Scopes, ~Known(m, s), NEW p \in Scopes,
         NEW k, NEW req \in Amount, MayReserve(m, p, k, req)
  PROVE  /\ StateInv(ReserveChildLocked(m, s, p, k, req))
         /\ Above(ReserveChildLocked(m, s, p, k, req), m)
         /\ Known(ReserveChildLocked(m, s, p, k, req), s)
<1> DEFINE n == ReserveChildLocked(m, s, p, k, req)
<1>1. m \in BudgetState /\ Tree(m) /\ Reserved(m) /\ Counted(m) /\ BooksBalanced(m)
  BY DEF StateInv
<1>2. /\ s # p /\ Open(m, p) /\ CanAfford(m.remaining[p], req)
      /\ k \in {"Process", "Operation", "Capability"} /\ k \in Kinds
  BY DEF MayReserve, Open, Known, AcceptsChild, Kinds
<1>3. n \in BudgetState /\ ChildMade(m, n, s, p, k, req)
  BY <1>1, <1>2, ReserveFields
<1> HIDE DEF n
<1>4. /\ n \in BudgetState
      /\ n.kind = [m.kind EXCEPT ![s] = k]
      /\ n.parent = [m.parent EXCEPT ![s] = p]
      /\ n.limit = [m.limit EXCEPT ![s] = req]
      /\ n.remaining = [m.remaining EXCEPT ![p] = Subtract(m.remaining[p], req), ![s] = req]
      /\ n.reservations = m.reservations \cup {s}
      /\ n.closed = m.closed /\ n.kept = m.kept /\ n.received = m.received
  BY <1>3 DEF ChildMade
<1>5. Above(n, m) /\ Known(n, s)
  BY <1>1, <1>2, <1>4 DEF Above, Known, BudgetState
<1>6. Tree(n)
  BY <1>1, <1>2, <1>4 DEF Tree, Known, Open, BudgetState, NoScope, Scopes
<1>7. Reserved(n)
  BY <1>1, <1>2, <1>4 DEF Reserved, Tree, Open, Known, BudgetState
<1>8. Counted(n)
  <2>1. m.remaining[p] \in Amount
    BY <1>1 DEF BudgetState
  <2>2. Subtract(m.remaining[p], req) = Unlimited <=> m.remaining[p] = Unlimited
    BY <1>2, <2>1 DEF Subtract, CanAfford, Amount, Unlimited
  <2> QED
    BY <1>1, <1>2, <1>4, <2>2 DEF Counted, BudgetState
<1>9. ASSUME NEW x \in Scopes, Open(n, x), n.limit[x] # Unlimited
      PROVE  Balanced(n, x)
  <2>1. CASE x = s
    <3>1. OpenChildren(n, x) = {} /\ ClosedChildren(n, x) = {}
      BY <1>1, <1>2, <1>4, <2>1
         DEF OpenChildren, ClosedChildren, Open, Tree, Known, BudgetState, NoScope, Scopes
    <3>2. Lent(n, x) = 0 /\ Kept(n, x) = 0
      BY <3>1, TotalNone DEF Lent, Kept
    <3>3. n.received[x] = 0 /\ n.remaining[x] = req /\ n.limit[x] = req
      BY <1>1, <1>2, <1>4, <2>1 DEF Tree, BudgetState
    <3>4. req \in Nat
      BY <1>9, <3>3, AmountIsInt
    <3> QED
      BY <3>2, <3>3, <3>4 DEF Balanced
  <2>2. CASE x # s
    <3>1. /\ Open(m, x) /\ m.limit[x] # Unlimited
          /\ n.limit[x] = m.limit[x] /\ n.received[x] = m.received[x]
      BY <1>1, <1>2, <1>4, <1>9, <2>2 DEF Open, BudgetState
    <3>2. Balanced(m, x)
      BY <1>1, <3>1 DEF BooksBalanced
    <3>3. ClosedChildren(n, x) = ClosedChildren(m, x)
      BY <1>1, <1>2, <1>4, <2>2 DEF ClosedChildren, Known, Tree, BudgetState
    <3>4. \A c \in OpenChildren(m, x) : n.limit[c] = m.limit[c]
      BY <1>1, <1>4 DEF OpenChildren, Open, Known, BudgetState
    <3>5. CASE x # p
      <4>1. OpenChildren(n, x) = OpenChildren(m, x)
        BY <1>1, <1>2, <1>4, <2>2, <3>5 DEF OpenChildren, Open, Known, Tree, BudgetState, NoScope, Scopes
      <4>2. Lent(n, x) = Lent(m, x) /\ Kept(n, x) = Kept(m, x)
        <5>1. Untouched(m, n, x)
          BY <1>4, <3>3, <3>4, <4>1 DEF Untouched
        <5> QED
          BY <5>1, UntouchedBalance
      <4>3. n.remaining[x] = m.remaining[x]
        BY <1>1, <1>4, <2>2, <3>5 DEF BudgetState
      <4> QED
        BY <3>1, <3>2, <4>2, <4>3 DEF Balanced
    <3>6. CASE x = p
      <4>1. OpenChildren(n, p) = OpenChildren(m, p) \cup {s} /\ s \notin OpenChildren(m, p)
        <5>1. Open(n, s) /\ n.parent[s] = p /\ ~Open(m, s)
          BY <1>1, <1>2, <1>4 DEF Open, Known, Tree, BudgetState
        <5>2. \A c \in Scopes \ {s} : (Open(n, c) <=> Open(m, c)) /\ n.parent[c] = m.parent[c]
          BY <1>1, <1>2, <1>4 DEF Open, BudgetState
        <5> QED
          BY <5>1, <5>2 DEF OpenChildren
      <4>2. Kept(n, p) = Kept(m, p)
        BY <1>4, <3>3, <3>6, Zenon DEF Kept
      <4>3. n.limit \in [Scopes -> Amount] /\ OpenChildren(m, p) \in SUBSET Scopes /\ n.limit[s] = req
        BY <1>1, <1>4, KeptIsAmount, ChildrenAreScopes DEF BudgetState
      <4>4. Total(n.limit, OpenChildren(m, p) \cup {s})
              = Total(n.limit, OpenChildren(m, p)) + Add(0, n.limit[s])
        BY <4>1, <4>3, TotalAdd
      <4>5. Total(n.limit, OpenChildren(m, p)) = Lent(m, p)
        BY <3>4, <3>6, TotalSame DEF Lent
      <4>6. Lent(n, p) = Total(n.limit, OpenChildren(m, p) \cup {s})
        BY <4>1, Zenon DEF Lent
      <4>7. Lent(n, p) = Lent(m, p) + Add(0, req)
        BY <4>3, <4>4, <4>5, <4>6
      <4>8. Lent(m, p) \in Nat /\ Kept(m, p) \in Nat
        BY <1>1, KeptIsAmount, ChildrenAreScopes, TotalNat DEF Lent, Kept
      <4>9. n.remaining[p] = Subtract(m.remaining[p], req)
        BY <1>1, <1>2, <1>4 DEF BudgetState
      <4>10. m.remaining[p] \in Nat /\ m.limit[p] \in Nat /\ m.received[p] \in Nat
        BY <1>1, <3>1, <3>6, AmountIsInt DEF BudgetState, Counted
      <4>11. Subtract(m.remaining[p], req) = m.remaining[p] - Add(0, req) /\ Add(0, req) \in Nat
        BY <4>10 DEF Subtract, Add, Amount, Unlimited
      <4> QED
        BY <3>1, <3>2, <3>6, <4>2, <4>7, <4>8, <4>9, <4>10, <4>11 DEF Balanced
    <3> QED
      BY <3>5, <3>6
  <2> QED
    BY <2>1, <2>2
<1> QED
  BY <1>4, <1>5, <1>6, <1>7, <1>8, <1>9 DEF StateInv, BooksBalanced, n

\* What a closing gives back and keeps add up to what the scope held.
LEMMA ReturnedAndWithheld ==
  ASSUME NEW l \in Amount, NEW u \in Nat \cup {NoUsage}
  PROVE  /\ Returned(l, u) \in Amount
         /\ Withheld(l, Returned(l, u)) \in Nat
         /\ l = Unlimited => Returned(l, u) = Unlimited /\ Withheld(l, Returned(l, u)) = 0
         /\ l # Unlimited => /\ Returned(l, u) \in Nat
                            /\ Returned(l, u) + Withheld(l, Returned(l, u)) = l
BY DEF Returned, Withheld, Unused, Amount, Unlimited, NoUsage

\* Amount::add keeps a limit a limit.
LEMMA AddType ==
  ASSUME NEW a \in Amount, NEW b \in Amount
  PROVE  /\ Add(a, b) \in Amount
         /\ Add(a, b) = Unlimited <=> a = Unlimited
         /\ a # Unlimited => Add(a, b) = a + Add(0, b)
BY DEF Add, Amount, Unlimited

\* The effect of close_locked, field by field.
LEMMA CloseFields ==
  ASSUME NEW m \in BudgetState, NEW s \in Scopes, NEW p \in Scopes, p = m.parent[s],
         NEW u \in Nat \cup {NoUsage}, NEW n, n = CloseLocked(m, s, u)
  PROVE  /\ n \in BudgetState
         /\ n.closed = [m.closed EXCEPT ![s] = TRUE]
         /\ n.remaining = [m.remaining EXCEPT ![p] = Add(m.remaining[p], Returned(m.limit[s], u))]
         /\ n.reservations = m.reservations \ {s}
         /\ n.kept = [m.kept EXCEPT ![s] = Withheld(m.limit[s], Returned(m.limit[s], u))]
         /\ n.kind = m.kind /\ n.parent = m.parent /\ n.limit = m.limit
         /\ n.received = m.received
<1> DEFINE a == Add(m.remaining[p], Returned(m.limit[s], u))
           w == Withheld(m.limit[s], Returned(m.limit[s], u))
<1>1. m.limit[s] \in Amount /\ m.remaining[p] \in Amount
  BY DEF BudgetState
<1>2. a \in Amount /\ w \in Nat
  BY <1>1, ReturnedAndWithheld, AddType
<1>3. n = [m EXCEPT !.closed[s] = TRUE, !.remaining[p] = a,
                    !.reservations = m.reservations \ {s}, !.kept[s] = w]
  BY DEF CloseLocked
<1> HIDE DEF a, w
<1>4. /\ n \in BudgetState
      /\ n.closed = [m.closed EXCEPT ![s] = TRUE]
      /\ n.remaining = [m.remaining EXCEPT ![p] = a]
      /\ n.reservations = m.reservations \ {s}
      /\ n.kept = [m.kept EXCEPT ![s] = w]
      /\ n.kind = m.kind /\ n.parent = m.parent /\ n.limit = m.limit
      /\ n.received = m.received
  <2>1. n.remaining = [m.remaining EXCEPT ![p] = a] /\ n.remaining \in [Scopes -> Amount]
    BY <1>2, <1>3 DEF BudgetState
  <2>2. n.kept = [m.kept EXCEPT ![s] = w] /\ n.kept \in [Scopes -> Nat]
    BY <1>2, <1>3 DEF BudgetState
  <2>3. n.closed = [m.closed EXCEPT ![s] = TRUE] /\ n.closed \in [Scopes -> BOOLEAN]
    BY <1>3 DEF BudgetState
  <2>4. n.reservations = m.reservations \ {s} /\ n.reservations \in SUBSET Scopes
    BY <1>3 DEF BudgetState
  <2>5. /\ n.kind = m.kind /\ n.parent = m.parent /\ n.limit = m.limit /\ n.received = m.received
        /\ n.transfers = m.transfers /\ n.bound = m.bound /\ n.root = m.root /\ n.chain = m.chain
    BY <1>3 DEF BudgetState
  <2>6. n = [kind |-> n.kind, parent |-> n.parent, limit |-> n.limit, remaining |-> n.remaining,
             closed |-> n.closed, reservations |-> n.reservations, transfers |-> n.transfers,
             bound |-> n.bound, root |-> n.root, chain |-> n.chain, kept |-> n.kept,
             received |-> n.received]
    BY <1>3 DEF BudgetState
  <2> HIDE <1>3
  <2>7. n \in BudgetState
    BY <2>1, <2>2, <2>3, <2>4, <2>5, <2>6 DEF BudgetState
  <2> QED
    BY <2>1, <2>2, <2>3, <2>4, <2>5, <2>7
<1> QED
  BY <1>4 DEF a, w

\* close_locked keeps the books: what the parent gets back and what the child
\* kept are what was lent.
LEMMA CloseOne ==
  ASSUME NEW m, StateInv(m), NEW s, MayClose(m, s), NEW u \in Nat \cup {NoUsage}
  PROVE  /\ StateInv(CloseLocked(m, s, u))
         /\ Above(CloseLocked(m, s, u), m)
         /\ s \in Scopes /\ CloseLocked(m, s, u).closed[s]
<1> DEFINE n == CloseLocked(m, s, u)
           back == Returned(m.limit[s], u)
           w == Withheld(m.limit[s], back)
<1>1. m \in BudgetState /\ Tree(m) /\ Reserved(m) /\ Counted(m) /\ BooksBalanced(m)
  BY DEF StateInv
<1>2. s \in Scopes /\ Open(m, s) /\ m.kind[s] # "Rollout" /\ m.parent[s] \in Scopes /\ m.parent[s] # s
  BY <1>1 DEF MayClose, Reserved, Tree, Open, BudgetState
<1>3. PICK p \in Scopes : p = m.parent[s] /\ s \in Scopes /\ Open(m, s) /\ m.kind[s] # "Rollout" /\ p # s
  BY <1>2
<1>4. /\ n \in BudgetState
      /\ n.closed = [m.closed EXCEPT ![s] = TRUE]
      /\ n.remaining = [m.remaining EXCEPT ![p] = Add(m.remaining[p], back)]
      /\ n.reservations = m.reservations \ {s}
      /\ n.kept = [m.kept EXCEPT ![s] = w]
      /\ n.kind = m.kind /\ n.parent = m.parent /\ n.limit = m.limit
      /\ n.received = m.received
  BY <1>1, <1>3, CloseFields
<1>5. /\ m.limit[s] \in Amount /\ back \in Amount /\ w \in Nat
      /\ m.limit[s] = Unlimited => back = Unlimited /\ w = 0
      /\ m.limit[s] # Unlimited => back \in Nat /\ back + w = m.limit[s]
  <2>1. m.limit[s] \in Amount
    BY <1>1, <1>3 DEF BudgetState
  <2> QED
    BY <2>1, ReturnedAndWithheld
<1> HIDE DEF n, back, w
<1>6. Above(n, m) /\ n.closed[s]
  BY <1>1, <1>3, <1>4 DEF Above, Known, BudgetState
<1>7. Tree(n)
  BY <1>1, <1>3, <1>4 DEF Tree, Known, Open, BudgetState
<1>8. Reserved(n)
  BY <1>1, <1>3, <1>4 DEF Reserved, Open, BudgetState
<1>9. Counted(n)
  <2>1. m.remaining[p] \in Amount
    BY <1>1, <1>3 DEF BudgetState
  <2>2. Add(m.remaining[p], back) = Unlimited <=> m.remaining[p] = Unlimited
    BY <1>5, <2>1, AddType
  <2> QED
    BY <1>1, <1>3, <1>4, <2>2 DEF Counted, BudgetState
<1>10. ASSUME NEW x \in Scopes, Open(n, x), n.limit[x] # Unlimited
      PROVE  Balanced(n, x)
  <2>1. /\ x # s /\ Open(m, x) /\ m.limit[x] # Unlimited
        /\ n.limit[x] = m.limit[x] /\ n.received[x] = m.received[x]
    BY <1>1, <1>3, <1>4, <1>10 DEF Open, BudgetState
  <2>2. Balanced(m, x)
    BY <1>1, <2>1 DEF BooksBalanced
  <2>3. \A c \in Scopes \ {s} : n.closed[c] = m.closed[c] /\ n.kept[c] = m.kept[c]
    BY <1>1, <1>3, <1>4 DEF BudgetState
  <2>4. n.closed[s] /\ n.kept[s] = w
    BY <1>1, <1>3, <1>4 DEF BudgetState
  <2>5. CASE x # p
    <3>1. OpenChildren(n, x) = OpenChildren(m, x) /\ ClosedChildren(n, x) = ClosedChildren(m, x)
      BY <1>3, <1>4, <2>3, <2>5 DEF OpenChildren, ClosedChildren, Open
    <3>2. \A c \in ClosedChildren(m, x) : n.kept[c] = m.kept[c]
      BY <1>3, <2>3 DEF ClosedChildren, Open
    <3>3. Lent(n, x) = Lent(m, x) /\ Kept(n, x) = Kept(m, x)
      <4>1. Untouched(m, n, x)
        BY <1>4, <3>1, <3>2 DEF Untouched
      <4> QED
        BY <4>1, UntouchedBalance
    <3>4. n.remaining[x] = m.remaining[x]
      BY <1>1, <1>4, <2>5 DEF BudgetState
    <3> QED
      BY <2>1, <2>2, <3>3, <3>4 DEF Balanced
  <2>6. CASE x = p
    <3> DEFINE D == {s}
    <3>1. Closes(m, n, p, D)
      <4>1. \A c \in ClosedChildren(m, p) : n.kept[c] = m.kept[c]
        BY <1>3, <2>3 DEF ClosedChildren, Open
      <4> QED
        BY <1>3, <1>4, <2>3, <2>4, <4>1 DEF Closes, OpenChildren, ClosedChildren, Open
    <3>2. Total(m.limit, D) = Add(0, m.limit[s]) /\ Total(n.kept, D) = Add(0, w)
      BY <1>1, <1>3, <1>4, <2>4, KeptIsAmount, TotalOne
    <3> HIDE DEF D
    <3>3. /\ Lent(m, p) = Lent(n, p) + Total(m.limit, D)
          /\ Kept(n, p) = Kept(m, p) + Total(n.kept, D)
      BY <1>1, <1>4, <3>1, ClosingBalance
    <3>4. Lent(n, p) \in Nat /\ Kept(m, p) \in Nat
      BY <1>1, <1>4, KeptIsAmount, ChildrenAreScopes, TotalNat DEF Lent, Kept
    <3>5. m.remaining[p] \in Nat /\ m.limit[p] \in Nat /\ m.received[p] \in Nat
      BY <1>1, <2>1, <2>6, AmountIsInt DEF BudgetState, Counted
    <3>6. n.remaining[p] = m.remaining[p] + Add(0, back)
      <4>1. n.remaining[p] = Add(m.remaining[p], back)
        BY <1>1, <1>3, <1>4 DEF BudgetState
      <4> QED
        BY <1>5, <3>5, <4>1 DEF Add, Unlimited
    <3>7. Add(0, back) + Add(0, w) = Add(0, m.limit[s]) /\ Add(0, back) \in Nat /\ Add(0, w) \in Nat
      BY <1>5 DEF Add, Unlimited, Amount
    <3> QED
      BY <2>1, <2>2, <2>6, <3>2, <3>3, <3>4, <3>5, <3>6, <3>7 DEF Balanced
  <2> QED
    BY <2>5, <2>6
<1> QED
  BY <1>3, <1>4, <1>6, <1>7, <1>8, <1>9, <1>10 DEF StateInv, BooksBalanced, n

\* So does a closing that may be refused.
LEMMA TryCloseOne ==
  ASSUME NEW m, StateInv(m), NEW s, NEW u \in Nat \cup {NoUsage}
  PROVE  StateInv(TryClose(m, s, u)) /\ Above(TryClose(m, s, u), m)
<1>1. CASE MayClose(m, s)
  BY <1>1, CloseOne DEF TryClose
<1>2. CASE ~MayClose(m, s)
  BY <1>2 DEF TryClose, Above
<1> QED
  BY <1>1, <1>2

\* The effect of a transfer, field by field.
Transferred(m, n, child, to, give) ==
  /\ n.closed = [m.closed EXCEPT ![child] = TRUE]
  /\ n.remaining = [m.remaining EXCEPT ![to] = Add(m.remaining[to], give)]
  /\ n.reservations = m.reservations \ {child}
  /\ n.received = [m.received EXCEPT ![to] = IF m.remaining[to] = Unlimited
                     THEN m.received[to] ELSE Add(m.received[to], give)]
  /\ n.kept = [m.kept EXCEPT ![child] = Withheld(m.limit[child], 0)]
  /\ n.kind = m.kind /\ n.parent = m.parent /\ n.limit = m.limit

\* transfer_remaining_reservation does that.
LEMMA TransferFields ==
  ASSUME NEW m \in BudgetState, NEW child \in Scopes, NEW to \in Scopes, NEW u \in Nat,
         NEW give \in Amount, give = Unused(m.limit[child], u)
  PROVE  /\ TransferLocked(m, child, to, u) \in BudgetState
         /\ Transferred(m, TransferLocked(m, child, to, u), child, to, give)
<1> DEFINE n == TransferLocked(m, child, to, u)
           a == Add(m.remaining[to], give)
           r == IF m.remaining[to] = Unlimited THEN m.received[to] ELSE Add(m.received[to], give)
           w == Withheld(m.limit[child], 0)
<1>1. m.limit[child] \in Amount /\ m.remaining[to] \in Amount /\ m.received[to] \in Nat
  BY DEF BudgetState
<1>2. a \in Amount /\ r \in Nat /\ w \in Nat
  BY <1>1 DEF Add, Withheld, Amount, Unlimited
<1>3. n = [m EXCEPT !.closed[child] = TRUE, !.remaining[to] = a,
                    !.reservations = m.reservations \ {child}, !.transfers[child] = to,
                    !.received[to] = r, !.kept[child] = w]
  BY DEF TransferLocked
<1> HIDE DEF n, a, r, w
<1>4. n.remaining = [m.remaining EXCEPT ![to] = a] /\ n.remaining \in [Scopes -> Amount]
  BY <1>2, <1>3 DEF BudgetState
<1>5. n.kept = [m.kept EXCEPT ![child] = w] /\ n.kept \in [Scopes -> Nat]
  BY <1>2, <1>3 DEF BudgetState
<1>6. n.received = [m.received EXCEPT ![to] = r] /\ n.received \in [Scopes -> Nat]
  BY <1>2, <1>3 DEF BudgetState
<1>7. n.closed = [m.closed EXCEPT ![child] = TRUE] /\ n.closed \in [Scopes -> BOOLEAN]
  BY <1>3 DEF BudgetState
<1>8. n.reservations = m.reservations \ {child} /\ n.reservations \in SUBSET Scopes
  BY <1>3 DEF BudgetState
<1>9. n.transfers \in [Scopes -> Scopes \cup {NoScope}]
  BY <1>3 DEF BudgetState
<1>10. /\ n.kind = m.kind /\ n.parent = m.parent /\ n.limit = m.limit
       /\ n.bound = m.bound /\ n.root = m.root /\ n.chain = m.chain
  BY <1>3 DEF BudgetState
<1>11. n = [kind |-> n.kind, parent |-> n.parent, limit |-> n.limit, remaining |-> n.remaining,
            closed |-> n.closed, reservations |-> n.reservations, transfers |-> n.transfers,
            bound |-> n.bound, root |-> n.root, chain |-> n.chain, kept |-> n.kept,
            received |-> n.received]
  BY <1>3 DEF BudgetState
<1> HIDE <1>3
<1>12. n \in BudgetState
  BY <1>4, <1>5, <1>6, <1>7, <1>8, <1>9, <1>10, <1>11 DEF BudgetState
<1> QED
  BY <1>4, <1>5, <1>6, <1>7, <1>8, <1>10, <1>12 DEF n, a, r, w, Transferred

\* It keeps the books of the parent, which writes the whole limit off, and of
\* the receiver, which gets what the child has not used.
LEMMA TransferOne ==
  ASSUME NEW m, StateInv(m), NEW child \in Scopes, NEW to \in Scopes,
         MayTransfer(m, child, to), NEW u \in Nat
  PROVE  /\ StateInv(TransferLocked(m, child, to, u))
         /\ Above(TransferLocked(m, child, to, u), m)
         /\ TransferLocked(m, child, to, u).closed[child]
<1> DEFINE n == TransferLocked(m, child, to, u)
           w == Withheld(m.limit[child], 0)
<1>1. m \in BudgetState /\ Tree(m) /\ Reserved(m) /\ Counted(m) /\ BooksBalanced(m)
  BY DEF StateInv
<1>2. /\ m.parent[child] \in Scopes /\ m.parent[child] # child /\ m.parent[child] # to
      /\ Open(m, child) /\ m.kind[child] # "Rollout" /\ Open(m, to) /\ child # to
  BY <1>1 DEF MayTransfer, Reserved, Tree, Open, BudgetState
<1>3. PICK p \in Scopes : /\ p = m.parent[child] /\ p # child /\ p # to
                         /\ Open(m, child) /\ m.kind[child] # "Rollout" /\ Open(m, to) /\ child # to
  BY <1>2
<1>4. m.limit[child] \in Amount
  BY <1>1 DEF BudgetState
<1>5. PICK give \in Amount : give = Unused(m.limit[child], u)
  BY <1>4 DEF Unused, Amount, Unlimited
<1>6. /\ n \in BudgetState /\ Transferred(m, n, child, to, give)
      /\ n.kind = m.kind /\ n.parent = m.parent /\ n.limit = m.limit
      /\ n.reservations = m.reservations \ {child}
  <2>1. n \in BudgetState /\ Transferred(m, n, child, to, give)
    BY <1>1, <1>5, TransferFields
  <2> HIDE DEF n
  <2> QED
    BY <2>1 DEF Transferred
<1>7. w \in Nat /\ Add(0, w) = Add(0, m.limit[child])
  BY <1>4 DEF Withheld, Add, Amount, Unlimited
<1> HIDE DEF n, w
<1>8. \A c \in Scopes \ {child} : n.closed[c] = m.closed[c] /\ n.kept[c] = m.kept[c]
  BY <1>1, <1>6 DEF BudgetState, Transferred
<1>9. n.closed[child] /\ n.kept[child] = w
  BY <1>1, <1>6 DEF BudgetState, Transferred, w
<1>10. \A c \in Scopes \ {to} : n.remaining[c] = m.remaining[c] /\ n.received[c] = m.received[c]
  BY <1>1, <1>6 DEF BudgetState, Transferred
<1>11. /\ n.remaining[to] = Add(m.remaining[to], give)
      /\ n.received[to] = IF m.remaining[to] = Unlimited
                         THEN m.received[to] ELSE Add(m.received[to], give)
  BY <1>1, <1>6 DEF BudgetState, Transferred
<1>12. Above(n, m)
  BY <1>6, <1>8, <1>9 DEF Above, Known
<1>13. Tree(n)
  BY <1>1, <1>3, <1>6, <1>8, <1>10 DEF Tree, Known, Open
<1>14. Reserved(n)
  BY <1>1, <1>3, <1>6, <1>8, <1>9 DEF Reserved, Open
<1>15. Counted(n)
  <2>1. n.remaining[to] = Unlimited <=> m.remaining[to] = Unlimited
    BY <1>1, <1>11, AddType DEF BudgetState
  <2> QED
    BY <1>1, <1>6, <1>8, <1>9, <1>10, <2>1 DEF Counted
<1>16. ASSUME NEW x \in Scopes, Open(n, x), n.limit[x] # Unlimited
       PROVE  Balanced(n, x)
  <2>1. x # child /\ Open(m, x) /\ m.limit[x] # Unlimited /\ n.limit[x] = m.limit[x]
    BY <1>6, <1>8, <1>9, <1>16 DEF Open
  <2>2. Balanced(m, x)
    BY <1>1, <2>1 DEF BooksBalanced
  <2>3. Lent(m, x) \in Nat /\ Kept(m, x) \in Nat /\ Lent(n, x) \in Nat
    BY <1>1, <1>6, KeptIsAmount, ChildrenAreScopes, TotalNat DEF Lent, Kept
  <2>4. m.remaining[x] \in Nat /\ m.limit[x] \in Nat /\ m.received[x] \in Nat
    BY <1>1, <2>1, AmountIsInt DEF BudgetState, Counted
  <2>5. CASE x # p
    <3>1. OpenChildren(n, x) = OpenChildren(m, x) /\ ClosedChildren(n, x) = ClosedChildren(m, x)
      BY <1>3, <1>6, <1>8, <2>5 DEF OpenChildren, ClosedChildren, Open
    <3>2. \A c \in ClosedChildren(m, x) : n.kept[c] = m.kept[c]
      BY <1>3, <1>8 DEF ClosedChildren, Open
    <3>3. Lent(n, x) = Lent(m, x) /\ Kept(n, x) = Kept(m, x)
      <4>1. Untouched(m, n, x)
        BY <1>6, <3>1, <3>2 DEF Untouched
      <4> QED
        BY <4>1, UntouchedBalance
    <3>4. CASE x # to
      BY <1>10, <2>1, <2>2, <3>3, <3>4 DEF Balanced
    <3>5. CASE x = to
      <4>1. PICK g \in Nat : g = Add(0, give)
        BY AmountIsInt
      <4>2. m.remaining[x] # Unlimited
        BY <2>4 DEF Unlimited
      <4>3. n.remaining[x] = m.remaining[x] + g /\ n.received[x] = m.received[x] + g
        BY <1>11, <2>4, <3>5, <4>1, <4>2 DEF Add, Amount, Unlimited
      <4>4. PICK h \in Nat : h = Lent(m, x) + Kept(m, x)
        BY <2>3
      <4>5. m.remaining[x] + h = m.limit[x] + m.received[x]
        BY <2>2, <2>3, <2>4, <4>4 DEF Balanced
      <4>6. n.remaining[x] + h = n.limit[x] + n.received[x]
        BY <2>1, <2>4, <4>3, <4>5
      <4>7. n.remaining[x] \in Nat
        BY <2>4, <4>3
      <4> QED
        BY <2>3, <3>3, <4>4, <4>6, <4>7 DEF Balanced
    <3> QED
      BY <3>4, <3>5
  <2>6. CASE x = p
    <3> DEFINE D == {child}
    <3>1. Closes(m, n, p, D)
      <4>1. \A c \in ClosedChildren(m, p) : n.kept[c] = m.kept[c]
        BY <1>3, <1>8 DEF ClosedChildren, Open
      <4> QED
        BY <1>3, <1>6, <1>8, <1>9, <4>1 DEF Closes, OpenChildren, ClosedChildren, Open
    <3>2. Total(m.limit, D) = Add(0, m.limit[child]) /\ Total(n.kept, D) = Add(0, w)
      BY <1>1, <1>6, <1>9, KeptIsAmount, TotalOne
    <3> HIDE DEF D
    <3>3. /\ Lent(m, p) = Lent(n, p) + Total(m.limit, D)
          /\ Kept(n, p) = Kept(m, p) + Total(n.kept, D)
      BY <1>1, <1>6, <3>1, ClosingBalance
    <3>4. n.remaining[p] = m.remaining[p] /\ n.received[p] = m.received[p]
      BY <1>3, <1>10
    <3>5. Add(0, w) \in Nat
      BY <1>7 DEF Add, Unlimited
    <3> QED
      BY <1>7, <2>1, <2>2, <2>3, <2>4, <2>6, <3>2, <3>3, <3>4, <3>5 DEF Balanced
  <2> QED
    BY <2>5, <2>6
<1> QED
  BY <1>6, <1>9, <1>12, <1>13, <1>14, <1>15, <1>16 DEF StateInv, BooksBalanced, n

\* The effect of a revocation of the scopes D, field by field.
Revoked(m, n, D) ==
  /\ n.closed = [c \in Scopes |-> c \in D \/ m.closed[c]]
  /\ n.remaining = [p \in Scopes |-> Add(m.remaining[p], Total(m.limit, {c \in D : m.parent[c] = p}))]
  /\ n.reservations = m.reservations \ D
  /\ n.kind = m.kind /\ n.parent = m.parent /\ n.limit = m.limit
  /\ n.kept = m.kept /\ n.received = m.received

\* revoke_scope_tree does that, with the sum of the limits as one addition.
LEMMA RevokeFields ==
  ASSUME NEW m \in BudgetState, NEW s \in Scopes,
         NEW D \in SUBSET Scopes, D = OpenBelow(m, s) \cup ({s} \cap m.reservations)
  PROVE  RevokeTree(m, s) \in BudgetState /\ Revoked(m, RevokeTree(m, s), D)
<1> DEFINE n == RevokeTree(m, s)
           f == [p \in Scopes |-> Add(m.remaining[p], Total(m.limit, {c \in D : m.parent[c] = p}))]
           g == [c \in Scopes |-> c \in D \/ m.closed[c]]
<1>1. f \in [Scopes -> Amount]
  <2>1. ASSUME NEW p \in Scopes
        PROVE  Add(m.remaining[p], Total(m.limit, {c \in D : m.parent[c] = p})) \in Amount
    <3>1. Total(m.limit, {c \in D : m.parent[c] = p}) \in Nat
      <4>1. {c \in D : m.parent[c] = p} \in SUBSET Scopes
        OBVIOUS
      <4> QED
        BY <4>1, KeptIsAmount, TotalNat
    <3>2. m.remaining[p] \in Amount
      BY DEF BudgetState
    <3> QED
      BY <3>1, <3>2, AddType DEF Amount
  <2> QED
    BY <2>1
<1>2. g \in [Scopes -> BOOLEAN]
  OBVIOUS
<1>3. n = [m EXCEPT !.closed = g, !.remaining = f, !.reservations = m.reservations \ D]
  BY DEF RevokeTree
<1>4. m.reservations \ D \in SUBSET Scopes
  BY DEF BudgetState
<1> HIDE DEF n, f, g
<1>5. n \in BudgetState /\ n.closed = g /\ n.remaining = f /\ n.reservations = m.reservations \ D
  BY <1>1, <1>2, <1>3, <1>4 DEF BudgetState
<1>6. /\ n.kind = m.kind /\ n.parent = m.parent /\ n.limit = m.limit
      /\ n.kept = m.kept /\ n.received = m.received
  BY <1>3 DEF BudgetState
<1> QED
  BY <1>5, <1>6 DEF n, f, g, Revoked

\* revoke_scope_tree keeps the books of every scope that it leaves open.
LEMMA RevokeAll ==
  ASSUME NEW m, StateInv(m), NEW s \in Scopes
  PROVE  StateInv(RevokeTree(m, s)) /\ Above(RevokeTree(m, s), m)
<1> DEFINE n == RevokeTree(m, s)
           D == OpenBelow(m, s) \cup ({s} \cap m.reservations)
<1>1. m \in BudgetState /\ Tree(m) /\ Reserved(m) /\ Counted(m) /\ BooksBalanced(m)
  BY DEF StateInv
<1>2. D \in SUBSET Scopes /\ \A c \in D : Open(m, c) /\ m.kind[c] # "Rollout"
  <2>1. ASSUME NEW x \in Scopes, NEW c \in OpenChildren(m, x)
        PROVE  c \in Scopes /\ Open(m, c) /\ m.kind[c] # "Rollout"
    BY <1>1, <2>1 DEF OpenChildren, Tree, NoScope, Scopes
  <2>2. \A c \in OpenBelow(m, s) : \E x \in Scopes : c \in OpenChildren(m, x)
    BY DEF OpenBelow, OpenChildren
  <2> QED
    BY <1>1, <2>1, <2>2 DEF Reserved
<1>3. n \in BudgetState /\ Revoked(m, n, D)
  BY <1>1, <1>2, RevokeFields
<1> HIDE DEF n, D
<1>4. /\ n.kind = m.kind /\ n.parent = m.parent /\ n.limit = m.limit
      /\ n.kept = m.kept /\ n.received = m.received /\ n.reservations = m.reservations \ D
      /\ \A c \in Scopes : n.closed[c] <=> (c \in D \/ m.closed[c])
  BY <1>3 DEF Revoked
<1>5. ASSUME NEW p \in Scopes
      PROVE  n.remaining[p] = Add(m.remaining[p], Total(m.limit, {c \in D : m.parent[c] = p}))
  BY <1>3 DEF Revoked
<1>6. Above(n, m)
  BY <1>4 DEF Above, Known
<1>7. Tree(n)
  BY <1>1, <1>2, <1>4 DEF Tree, Known, Open
<1>8. Reserved(n)
  BY <1>1, <1>2, <1>4 DEF Reserved, Open
<1>9. ASSUME NEW p \in Scopes
      PROVE  /\ {c \in D : m.parent[c] = p} \in SUBSET Scopes
             /\ Total(m.limit, {c \in D : m.parent[c] = p}) \in Nat
  <2>1. {c \in D : m.parent[c] = p} \in SUBSET Scopes
    BY <1>2
  <2> QED
    BY <1>1, <2>1, KeptIsAmount, TotalNat
<1>10. Counted(n)
  <2>1. ASSUME NEW p \in Scopes
        PROVE  n.remaining[p] = Unlimited <=> m.remaining[p] = Unlimited
    <3>1. PICK t \in Nat : t = Total(m.limit, {c \in D : m.parent[c] = p})
      BY <1>9
    <3>2. m.remaining[p] \in Amount /\ t \in Amount /\ n.remaining[p] = Add(m.remaining[p], t)
      BY <1>1, <1>5, <3>1 DEF BudgetState, Amount
    <3> QED
      BY <3>2, AddType
  <2> QED
    BY <1>1, <1>4, <2>1 DEF Counted
<1>11. ASSUME NEW x \in Scopes, Open(n, x), n.limit[x] # Unlimited
       PROVE  Balanced(n, x)
  <2> DEFINE E == {c \in D : m.parent[c] = x}
  <2>1. Open(m, x) /\ m.limit[x] # Unlimited /\ n.limit[x] = m.limit[x] /\ n.received[x] = m.received[x]
    BY <1>4, <1>11 DEF Open
  <2>2. Balanced(m, x)
    BY <1>1, <2>1 DEF BooksBalanced
  <2>3. Closes(m, n, x, E)
    BY <1>2, <1>4 DEF Closes, OpenChildren, ClosedChildren, Open
  <2>4. Total(n.kept, E) = 0
    <3>1. \A c \in E : n.kept[c] = 0
      BY <1>1, <1>2, <1>4 DEF Counted, Open
    <3> QED
      BY <3>1, TotalZero
  <2>5. Total(m.limit, E) \in Nat /\ n.remaining[x] = Add(m.remaining[x], Total(m.limit, E))
    BY <1>5, <1>9
  <2> HIDE DEF E
  <2>6. Lent(m, x) = Lent(n, x) + Total(m.limit, E) /\ Kept(n, x) = Kept(m, x) + Total(n.kept, E)
    BY <1>1, <1>3, <2>3, ClosingBalance
  <2>7. Lent(n, x) \in Nat /\ Kept(m, x) \in Nat
    BY <1>1, <1>3, KeptIsAmount, ChildrenAreScopes, TotalNat DEF Lent, Kept
  <2>8. m.remaining[x] \in Nat /\ m.limit[x] \in Nat /\ m.received[x] \in Nat
    BY <1>1, <2>1, AmountIsInt DEF BudgetState, Counted
  <2>9. n.remaining[x] = m.remaining[x] + Total(m.limit, E)
    BY <2>5, <2>8 DEF Add, Unlimited
  <2>10. Kept(n, x) = Kept(m, x)
    BY <2>4, <2>6, <2>7
  <2>11. m.remaining[x] + Lent(m, x) = n.remaining[x] + Lent(n, x)
    BY <2>5, <2>6, <2>7, <2>8, <2>9
  <2> QED
    BY <2>1, <2>2, <2>10, <2>11 DEF Balanced
<1> QED
  BY <1>3, <1>6, <1>7, <1>8, <1>10, <1>11 DEF StateInv, BooksBalanced, n

\* Identifiers the controller remembers beside the tree do not touch the books.
LEMMA SameBooks ==
  ASSUME NEW m, StateInv(m), NEW n \in BudgetState,
         n.kind = m.kind, n.parent = m.parent, n.limit = m.limit, n.remaining = m.remaining,
         n.closed = m.closed, n.reservations = m.reservations, n.kept = m.kept,
         n.received = m.received
  PROVE  StateInv(n) /\ Above(n, m)
<1>1. Tree(n) /\ Reserved(n) /\ Counted(n) /\ Above(n, m)
  BY DEF StateInv, Tree, Reserved, Counted, Above, Known, Open
<1>2. ASSUME NEW x \in Scopes, Open(n, x), n.limit[x] # Unlimited
      PROVE  Balanced(n, x)
  <2>1. Untouched(m, n, x)
    BY DEF Untouched, OpenChildren, ClosedChildren, Open
  <2>2. Lent(n, x) = Lent(m, x) /\ Kept(n, x) = Kept(m, x)
    BY <2>1, UntouchedBalance
  <2>3. Balanced(m, x)
    BY <1>2 DEF StateInv, BooksBalanced, Open
  <2> QED
    BY <2>2, <2>3 DEF Balanced
<1> QED
  BY <1>1, <1>2 DEF StateInv, BooksBalanced

\* Above is transitive.
LEMMA AboveTrans ==
  ASSUME NEW l, NEW m, NEW n, Above(m, l), Above(n, m)
  PROVE  Above(n, l)
BY DEF Above

\* settle and revoke keep the books, whichever of the three closings go through.
LEMMA CloseChainInv ==
  ASSUME NEW m, StateInv(m), NEW s \in Scopes, NEW u \in Nat \cup {NoUsage}
  PROVE  StateInv(CloseChain(m, s, u)) /\ Above(CloseChain(m, s, u), m)
<1>1. CASE m.chain[s] = {}
  BY <1>1, TryCloseOne DEF CloseChain
<1>2. CASE m.chain[s] # {}
  <2> DEFINE n == [m EXCEPT !.chain[s] = {}]
             inner == TryClose(n, s, u)
             middle == TryClose(inner, m.parent[s], u)
  <2>1. m \in BudgetState
    BY DEF StateInv
  <2>2. /\ n \in BudgetState
        /\ n.kind = m.kind /\ n.parent = m.parent /\ n.limit = m.limit /\ n.remaining = m.remaining
        /\ n.closed = m.closed /\ n.reservations = m.reservations /\ n.kept = m.kept
        /\ n.received = m.received
    BY <2>1 DEF BudgetState
  <2> HIDE DEF n
  <2>3. StateInv(n) /\ Above(n, m)
    BY <2>2, SameBooks
  <2>4. StateInv(inner) /\ Above(inner, n)
    BY <2>3, TryCloseOne
  <2> HIDE DEF inner
  <2>5. StateInv(middle) /\ Above(middle, inner)
    BY <2>4, TryCloseOne
  <2> HIDE DEF middle
  <2>6. /\ StateInv(TryClose(middle, m.parent[m.parent[s]], u))
        /\ Above(TryClose(middle, m.parent[m.parent[s]], u), middle)
    BY <2>5, TryCloseOne
  <2>7. CloseChain(m, s, u) = TryClose(middle, m.parent[m.parent[s]], u)
    BY <1>2 DEF CloseChain, n, inner, middle
  <2> QED
    BY <2>3, <2>4, <2>5, <2>6, <2>7, AboveTrans
<1> QED
  BY <1>1, <1>2

-----------------------------------------------------------------------------
(* The budget: the actions *)

\* What callers may ask for and report.
LEMMA RequestsAreAmounts == Requests \subseteq Amount /\ Unlimited \in Amount /\ Usages \subseteq Nat
BY BudgetAssumption DEF Requests, Amount

\* A state above one that honours the answers honours them too.
LEMMA StillHonoured ==
  ASSUME NEW m, NEW n, NEW a, Honours(m, a), Above(n, m)
  PROVE  Honours(n, a)
BY DEF Honours, Above

\* A method that does not persist.
LEMMA Volatile ==
  ASSUME BudgetInv, NEW n, StateInv(n), Above(n, mem), mem' = n, UNCHANGED <<disk, faults, acked>>
  PROVE  BudgetInv'
<1>1. Honours(n, acked)
  BY StillHonoured DEF BudgetInv
<1> QED
  BY <1>1 DEF BudgetInv

\* The write fails: the file is the old one or the new one.
LEMMA FailedWrite ==
  ASSUME BudgetInv, NEW n, StateInv(n), Above(n, mem), WriteFails(n), UNCHANGED acked
  PROVE  /\ StateInv(disk') /\ Honours(disk', acked') /\ faults' \in 0..MaxFaults
<1>1. Honours(n, acked)
  BY StillHonoured DEF BudgetInv
<1>2. StateInv(disk') /\ Honours(disk', acked)
  BY <1>1 DEF BudgetInv, WriteFails
<1>3. faults' \in 0..MaxFaults
  BY BudgetAssumption DEF BudgetInv, WriteFails
<1> QED
  BY <1>2, <1>3

\* What n reports of s.
Reports(n, s, what) ==
  \/ what = "open" /\ Known(n, s)
  \/ what = "closed" /\ n.closed[s]

\* The new state honours the old answers and the new one.
LEMMA Acknowledged ==
  ASSUME BudgetInv, NEW n, Above(n, mem), NEW s \in Scopes, NEW what, Reports(n, s, what), Ack(s, what)
  PROVE  acked' \in [Scopes -> {"nothing", "open", "closed"}] /\ Honours(n, acked')
<1>1. Honours(n, acked) /\ what \in {"open", "closed"}
  BY StillHonoured DEF BudgetInv, Reports
<1> QED
  BY <1>1 DEF BudgetInv, Ack, Honours, Reports

\* A method that persists.
LEMMA Persisted ==
  ASSUME BudgetInv, NEW n, StateInv(n), Above(n, mem), NEW s \in Scopes, NEW what,
         Reports(n, s, what), Commit(n, s, what)
  PROVE  BudgetInv'
<1>1. CASE mem' = n /\ disk' = n /\ Ack(s, what) /\ UNCHANGED faults
  BY <1>1, Acknowledged DEF BudgetInv
<1>2. CASE WriteFails(n) /\ UNCHANGED <<mem, acked>>
  BY <1>2, FailedWrite DEF BudgetInv
<1> QED
  BY <1>1, <1>2 DEF Commit

\* create_root, also when its write fails and leaves the root in memory.
LEMMA CreateRootInv ==
  ASSUME BudgetInv, NEW s \in Scopes, NEW l \in Requests, CreateRoot(s, l)
  PROVE  BudgetInv'
<1> DEFINE n == CreateRootLocked(mem, s, l)
<1>1. StateInv(n) /\ Above(n, mem) /\ Reports(n, s, "open")
  BY RootLocked, RequestsAreAmounts DEF BudgetInv, CreateRoot, NewId, Fresh, Known, Reports
<1>2. /\ mem' = n
      /\ \/ Ack(s, "open") /\ disk' = n /\ UNCHANGED faults
         \/ WriteFails(n) /\ UNCHANGED acked
  BY DEF CreateRoot
<1> HIDE DEF n
<1>3. CASE Ack(s, "open") /\ disk' = n /\ UNCHANGED faults
  <2>1. acked' \in [Scopes -> {"nothing", "open", "closed"}] /\ Honours(n, acked')
    BY <1>1, <1>3, Acknowledged
  <2> QED
    BY <1>1, <1>2, <1>3, <2>1 DEF BudgetInv
<1>4. CASE WriteFails(n) /\ UNCHANGED acked
  <2>1. StateInv(disk') /\ Honours(disk', acked') /\ faults' \in 0..MaxFaults
    BY <1>1, <1>4, FailedWrite
  <2>2. Honours(n, acked)
    BY <1>1, StillHonoured DEF BudgetInv
  <2> QED
    BY <1>1, <1>2, <1>4, <2>1, <2>2 DEF BudgetInv
<1> QED
  BY <1>2, <1>3, <1>4

\* reserve_child.
LEMMA ReserveChildInv ==
  ASSUME BudgetInv, NEW s \in Scopes, NEW p \in Scopes, NEW k \in Kinds, NEW req \in Requests,
         ReserveChild(s, p, k, req)
  PROVE  BudgetInv'
<1> DEFINE n == ReserveChildLocked(mem, s, p, k, req)
<1>1. StateInv(n) /\ Above(n, mem) /\ Reports(n, s, "open")
  BY ReserveLocked, RequestsAreAmounts DEF BudgetInv, ReserveChild, NewId, Fresh, Known, Reports
<1>2. Commit(n, s, "open")
  BY DEF ReserveChild
<1> HIDE DEF n
<1> QED
  BY <1>1, <1>2, Persisted

\* settle_reservation and revoke_reservation.
LEMMA CloseInv ==
  ASSUME BudgetInv, NEW s \in Scopes, NEW u \in Nat \cup {NoUsage}, MayClose(mem, s),
         Commit(CloseLocked(mem, s, u), s, "closed")
  PROVE  BudgetInv'
<1> DEFINE n == CloseLocked(mem, s, u)
<1>1. StateInv(n) /\ Above(n, mem) /\ Reports(n, s, "closed")
  BY CloseOne DEF BudgetInv, Reports
<1> HIDE DEF n
<1> QED
  BY <1>1, Persisted DEF n

\* transfer_remaining_reservation.
LEMMA TransferRemainingInv ==
  ASSUME BudgetInv, NEW child \in Scopes, NEW to \in Scopes, NEW u \in Usages,
         TransferRemaining(child, to, u)
  PROVE  BudgetInv'
<1> DEFINE n == TransferLocked(mem, child, to, u)
<1>1. StateInv(n) /\ Above(n, mem) /\ Reports(n, child, "closed")
  BY TransferOne, RequestsAreAmounts DEF BudgetInv, TransferRemaining, Reports
<1>2. Commit(n, child, "closed")
  BY DEF TransferRemaining
<1> HIDE DEF n
<1> QED
  BY <1>1, <1>2, Persisted

\* revoke_scope_tree.
LEMMA RevokeScopeTreeInv ==
  ASSUME BudgetInv, NEW s \in Scopes, RevokeScopeTree(s)
  PROVE  BudgetInv'
<1>1. StateInv(RevokeTree(mem, s)) /\ Above(RevokeTree(mem, s), mem)
  BY RevokeAll DEF BudgetInv
<1> QED
  BY <1>1, Volatile DEF RevokeScopeTree

\* bind_operation_scope.
LEMMA BindOperationScopeInv ==
  ASSUME BudgetInv, NEW s \in Scopes, BindOperationScope(s)
  PROVE  BudgetInv'
<1> DEFINE n == [mem EXCEPT !.bound = @ \cup {s}]
<1>1. mem \in BudgetState
  BY DEF BudgetInv, StateInv
<1>2. /\ n \in BudgetState
      /\ n.kind = mem.kind /\ n.parent = mem.parent /\ n.limit = mem.limit /\ n.remaining = mem.remaining
      /\ n.closed = mem.closed /\ n.reservations = mem.reservations /\ n.kept = mem.kept
      /\ n.received = mem.received
  BY <1>1 DEF BudgetState
<1>3. mem' = n /\ UNCHANGED <<disk, faults, acked>>
  BY DEF BindOperationScope
<1> HIDE DEF n
<1>4. StateInv(n) /\ Above(n, mem)
  BY <1>2, SameBooks DEF BudgetInv
<1> QED
  BY <1>3, <1>4, Volatile

\* reserve_capability_for_operation.
LEMMA ReserveCapabilityInv ==
  ASSUME BudgetInv, NEW s \in Scopes, NEW p \in Scopes, NEW req \in Requests,
         ReserveCapability(s, p, req)
  PROVE  BudgetInv'
<1> DEFINE n == ReserveChildLocked(mem, s, p, "Capability", req)
<1>1. StateInv(n) /\ Above(n, mem)
  BY ReserveLocked, RequestsAreAmounts DEF BudgetInv, ReserveCapability, NewId, Fresh, Known
<1>2. mem' = n /\ UNCHANGED <<disk, faults, acked>>
  BY DEF ReserveCapability
<1> HIDE DEF n
<1> QED
  BY <1>1, <1>2, Volatile

\* set_budget, and the root that reserve makes on the way.
LEMMA RootOfPrincipal ==
  ASSUME NEW m, StateInv(m), NEW s \in Scopes, ~Known(m, s), NEW l \in Amount
  PROVE  /\ StateInv(PrincipalRoot(m, s, l)) /\ Above(PrincipalRoot(m, s, l), m)
         /\ PrincipalRoot(m, s, l).kind = [m.kind EXCEPT ![s] = "Rollout"]
<1> DEFINE n == PrincipalRoot(m, s, l)
           c == CreateRootLocked(m, s, l)
<1>1. m \in BudgetState
  BY DEF StateInv
<1>2. StateInv(c) /\ Above(c, m)
  BY RootLocked
<1>3. c.kind = [m.kind EXCEPT ![s] = "Rollout"]
  <2>1. RootMade(m, c, s, l)
    BY <1>1, RootFields
  <2> HIDE DEF c
  <2> QED
    BY <2>1 DEF RootMade
<1>4. n = [c EXCEPT !.root = s]
  BY DEF PrincipalRoot
<1> HIDE DEF c, n
<1>5. c \in BudgetState
  BY <1>2 DEF StateInv
<1>6. /\ n \in BudgetState
      /\ n.kind = c.kind /\ n.parent = c.parent /\ n.limit = c.limit /\ n.remaining = c.remaining
      /\ n.closed = c.closed /\ n.reservations = c.reservations /\ n.kept = c.kept
      /\ n.received = c.received
  BY <1>4, <1>5 DEF BudgetState
<1>7. StateInv(n) /\ Above(n, c)
  BY <1>2, <1>6, SameBooks
<1> QED
  BY <1>2, <1>3, <1>6, <1>7, AboveTrans DEF n

\* set_budget.
LEMMA SetBudgetInv ==
  ASSUME BudgetInv, NEW s \in Scopes, NEW l \in Requests, SetBudget(s, l)
  PROVE  BudgetInv'
<1> DEFINE n == PrincipalRoot(mem, s, l)
<1>1. StateInv(n) /\ Above(n, mem)
  BY RootOfPrincipal, RequestsAreAmounts DEF BudgetInv, SetBudget, NewId, Fresh, Known
<1>2. mem' = n /\ UNCHANGED <<disk, faults, acked>>
  BY DEF SetBudget
<1> HIDE DEF n
<1> QED
  BY <1>1, <1>2, Volatile

\* One reservation of the adapter: the next one fits below it.
LEMMA AdapterReserves ==
  ASSUME NEW m, StateInv(m), NEW s \in Scopes, ~Known(m, s), NEW p \in Scopes,
         NEW k, NEW req \in Amount, MayReserve(m, p, k, req),
         NEW n, n = ReserveChildLocked(m, s, p, k, req)
  PROVE  /\ StateInv(n) /\ Above(n, m) /\ n.kind = [m.kind EXCEPT ![s] = k]
         /\ \A j : AcceptsChild(k, j) => MayReserve(n, s, j, req)
<1>1. m \in BudgetState /\ Tree(m)
  BY DEF StateInv
<1>2. s # p /\ k \in Kinds /\ k # "Unused" /\ CanAfford(m.remaining[p], req)
  BY DEF MayReserve, Open, Known, AcceptsChild, Kinds
<1>3. StateInv(n) /\ Above(n, m)
  BY ReserveLocked
<1>4. ChildMade(m, n, s, p, k, req)
  BY <1>1, <1>2, ReserveFields
<1>5. /\ n.kind = [m.kind EXCEPT ![s] = k]
      /\ n.remaining = [m.remaining EXCEPT ![p] = Subtract(m.remaining[p], req), ![s] = req]
      /\ n.closed = m.closed
  BY <1>4 DEF ChildMade
<1>6. n.kind[s] = k /\ n.remaining[s] = req /\ ~n.closed[s]
  BY <1>1, <1>5 DEF BudgetState, Tree
<1>7. CanAfford(req, req)
  BY AmountIsInt DEF CanAfford
<1> QED
  BY <1>2, <1>3, <1>5, <1>6, <1>7 DEF MayReserve, Open

\* reserve, the adapter: the root it may make and its three reservations.
LEMMA ReserveInv ==
  ASSUME BudgetInv, NEW p \in Scopes, NEW req \in Requests, Reserve(p, req)
  PROVE  BudgetInv'
<1> DEFINE r == IF mem.root = NoScope THEN p + 3 ELSE mem.root
           m == IF mem.root = NoScope THEN PrincipalRoot(mem, r, Unlimited) ELSE mem
           proc == ReserveChildLocked(m, p, r, "Process", req)
           oper == ReserveChildLocked(proc, p + 1, p, "Operation", req)
           capa == ReserveChildLocked(oper, p + 2, p + 1, "Capability", req)
           n == [capa EXCEPT !.chain[p + 2] = {p + 2, p + 1, p}]
<1>1. /\ StateInv(mem) /\ mem \in BudgetState /\ req \in Amount /\ p \in Nat
  BY RequestsAreAmounts DEF BudgetInv, StateInv, Scopes
<1>2. /\ p + 1 \in Scopes /\ p + 2 \in Scopes
      /\ ~Known(mem, p) /\ ~Known(mem, p + 1) /\ ~Known(mem, p + 2)
      /\ mem.root = NoScope => p + 3 \in Scopes /\ ~Known(mem, p + 3)
  BY DEF Reserve, NewId, Fresh, Known
<1>3. /\ MayReserve(m, r, "Process", req)
      /\ mem' = n /\ UNCHANGED <<disk, faults, acked>>
  BY DEF Reserve
<1>4. r \in Scopes /\ StateInv(m) /\ Above(m, mem) /\ m \in BudgetState
      /\ ~Known(m, p) /\ ~Known(m, p + 1) /\ ~Known(m, p + 2)
  <2>1. CASE mem.root = NoScope
    <3>1. r = p + 3 /\ m = PrincipalRoot(mem, r, Unlimited)
      BY <2>1
    <3> HIDE DEF r, m
    <3>2. r \in Scopes /\ ~Known(mem, r) /\ r # p /\ r # p + 1 /\ r # p + 2
      BY <1>1, <1>2, <2>1, <3>1
    <3>3. StateInv(m) /\ Above(m, mem) /\ m.kind = [mem.kind EXCEPT ![r] = "Rollout"]
      BY <1>1, <3>1, <3>2, RootOfPrincipal, RequestsAreAmounts
    <3> QED
      BY <1>1, <1>2, <3>2, <3>3 DEF Known, StateInv, BudgetState
  <2>2. CASE mem.root # NoScope
    <3>1. r = mem.root /\ m = mem
      BY <2>2
    <3> HIDE DEF r, m
    <3> QED
      BY <1>1, <1>2, <2>2, <3>1 DEF Above, BudgetState
  <2> QED
    BY <2>1, <2>2
<1> HIDE DEF r, m
<1>5. /\ StateInv(proc) /\ Above(proc, m) /\ proc.kind = [m.kind EXCEPT ![p] = "Process"]
      /\ MayReserve(proc, p, "Operation", req)
  BY <1>1, <1>3, <1>4, AdapterReserves DEF AcceptsChild
<1> HIDE DEF proc
<1>6. ~Known(proc, p + 1) /\ ~Known(proc, p + 2)
  BY <1>1, <1>2, <1>4, <1>5 DEF Known, BudgetState
<1>7. /\ StateInv(oper) /\ Above(oper, proc) /\ oper.kind = [proc.kind EXCEPT ![p + 1] = "Operation"]
      /\ MayReserve(oper, p + 1, "Capability", req)
  BY <1>1, <1>2, <1>5, <1>6, AdapterReserves DEF AcceptsChild
<1> HIDE DEF oper
<1>8. ~Known(oper, p + 2)
  <2>1. p + 2 # p + 1 /\ proc \in BudgetState
    BY <1>1, <1>5 DEF StateInv
  <2> QED
    BY <1>2, <1>6, <1>7, <2>1 DEF Known, BudgetState
<1>9. StateInv(capa) /\ Above(capa, oper)
  BY <1>1, <1>2, <1>7, <1>8, AdapterReserves
<1> HIDE DEF capa
<1>10. /\ n \in BudgetState
       /\ n.kind = capa.kind /\ n.parent = capa.parent /\ n.limit = capa.limit
       /\ n.remaining = capa.remaining /\ n.closed = capa.closed
       /\ n.reservations = capa.reservations /\ n.kept = capa.kept /\ n.received = capa.received
  <2>1. capa \in BudgetState /\ {p + 2, p + 1, p} \in SUBSET Scopes
    BY <1>2, <1>9 DEF StateInv
  <2> DEFINE three == {p + 2, p + 1, p}
  <2> HIDE DEF three
  <2>2. n = [capa EXCEPT !.chain[p + 2] = three] /\ three \in SUBSET Scopes
    BY <2>1 DEF three
  <2> HIDE DEF n
  <2> QED
    BY <1>2, <2>1, <2>2 DEF BudgetState
<1> HIDE DEF n
<1>11. StateInv(n) /\ Above(n, capa)
  BY <1>9, <1>10, SameBooks
<1>12. Above(n, mem)
  BY <1>4, <1>5, <1>7, <1>9, <1>11, AboveTrans
<1> QED
  BY <1>3, <1>11, <1>12, Volatile

\* settle and revoke.
LEMMA CloseForAdmissionInv ==
  ASSUME BudgetInv, NEW s \in Scopes, NEW u \in Usages \cup {NoUsage}, CloseForAdmission(s, u)
  PROVE  BudgetInv'
<1>1. StateInv(CloseChain(mem, s, u)) /\ Above(CloseChain(mem, s, u), mem)
  BY CloseChainInv, RequestsAreAmounts DEF BudgetInv
<1> QED
  BY <1>1, Volatile DEF CloseForAdmission

\* The invariant holds for a new controller.
LEMMA BudgetInitInv ==
  ASSUME BudgetInit
  PROVE  BudgetInv
<1>1. Empty \in BudgetState
  BY DEF Empty, BudgetState, Kinds, Amount
<1>2. Tree(Empty) /\ Reserved(Empty) /\ Counted(Empty) /\ BooksBalanced(Empty)
  <2>1. /\ Empty.reservations = {}
        /\ \A s \in Scopes : /\ Empty.kind[s] = "Unused" /\ Empty.parent[s] = NoScope /\ ~Empty.closed[s]
                             /\ Empty.received[s] = 0 /\ Empty.remaining[s] = 0 /\ Empty.limit[s] = 0
                             /\ Empty.kept[s] = 0
    BY DEF Empty
  <2>2. \A s \in Scopes : s # NoScope
    BY DEF Scopes, NoScope
  <2> QED
    BY <2>1, <2>2 DEF Tree, Reserved, Counted, BooksBalanced, Open, Known
<1>3. \A s \in Scopes : acked[s] = "nothing"
  BY DEF BudgetInit
<1> QED
  BY <1>1, <1>2, <1>3, BudgetAssumption DEF BudgetInit, BudgetInv, StateInv, Honours

\* Every step preserves it; a crash replaces the memory by the file.
LEMMA BudgetStep ==
  ASSUME BudgetInv, [BudgetNext]_budgetVars
  PROVE  BudgetInv'
<1> USE RequestsAreAmounts
<1>1. ASSUME NEW s \in Scopes, NEW l \in Requests, CreateRoot(s, l) \/ SetBudget(s, l)
      PROVE  BudgetInv'
  BY <1>1, CreateRootInv, SetBudgetInv
<1>2. ASSUME NEW s \in Scopes, NEW u \in Usages, SettleReservation(s, u)
      PROVE  BudgetInv'
  BY <1>2, CloseInv DEF SettleReservation
<1>3. ASSUME NEW s \in Scopes, RevokeReservation(s)
      PROVE  BudgetInv'
  BY <1>3, CloseInv DEF RevokeReservation
<1>4. CASE Crash
  BY <1>4 DEF Crash, BudgetInv
<1>5. CASE UNCHANGED budgetVars
  BY <1>5 DEF budgetVars, BudgetInv
<1> QED
  BY <1>1, <1>2, <1>3, <1>4, <1>5, ReserveChildInv, RevokeScopeTreeInv, BindOperationScopeInv,
     TransferRemainingInv, ReserveCapabilityInv, ReserveInv, CloseForAdmissionInv DEF BudgetNext

\* The invariant holds of memory and file alike.
LEMMA BudgetInvariant == BudgetSpec => []BudgetInv
BY BudgetInitInv, BudgetStep, PTL DEF BudgetSpec

\* The books balance at every open scope with a limit, for any number of
\* scopes and amounts.
THEOREM BudgetBalances == BudgetSpec => []Balance
<1>1. BudgetInv => Balance
  BY DEF BudgetInv, StateInv, Balance, BudgetTypeOK, BooksBalanced, Balanced
<1> QED
  BY <1>1, BudgetInvariant, PTL

\* A reservation can be closed exactly while its scope is open.
THEOREM ReservationsMatchScopes == BudgetSpec => []ReservedWhileOpen
<1>1. BudgetInv => ReservedWhileOpen
  BY DEF BudgetInv, StateInv, ReservedWhileOpen, Reserved
<1> QED
  BY <1>1, BudgetInvariant, PTL

\* What a persisting method has reported survives every crash.
THEOREM ReportsSurvive == BudgetSpec => []AckSurvives
<1>1. BudgetInv => AckSurvives
  BY DEF BudgetInv, AckSurvives, Honours, Known
<1> QED
  BY <1>1, BudgetInvariant, PTL
=============================================================================
