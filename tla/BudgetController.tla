-------------------------- MODULE BudgetController --------------------------
(***************************************************************************)
(* The kernel's hierarchical budget (crates/kernel/src/admission/          *)
(* budget.rs): rollout -> process -> operation -> capability.  Allocating  *)
(* a child takes capacity from its parent, closing it gives some back.     *)
(*                                                                         *)
(* All methods work under one lock, so a method is one step.  What makes   *)
(* the component hard is that three kinds of closing (settle, revoke,      *)
(* transfer) meet in one tree, and that only some methods write the state  *)
(* to disk before they return.  `mem` is the locked BudgetState, `disk`    *)
(* the file; a crash is the daemon reopening the file.                     *)
(*                                                                         *)
(* Tokens and cost are two coordinates treated alike; there is one here.   *)
(* A scope stands for its scope id and its reservation id.                 *)
(***************************************************************************)
EXTENDS Integers, FiniteSets

CONSTANTS MaxScopes, \* bound on the scopes ever created
          Limits,    \* the amounts a request may ask for
          Usages,    \* what a usage report may say
          MaxFaults  \* bound on the writes that fail

\* Identifiers are random and never met twice; numbering them in the order
\* of their creation loses nothing.
Scopes == 1..MaxScopes
NoScope == 0

\* max_tokens: None in a BudgetRequest; and no usage report at all.
Unlimited == -1
NoUsage == -1
Amount == Nat \cup {Unlimited}
Requests == Limits \cup {Unlimited}

ASSUME BudgetAssumption ==
  /\ Limits \subseteq Nat
  /\ Usages \subseteq Nat
  /\ MaxScopes \in Nat /\ MaxFaults \in Nat

VARIABLES
  mem,     \* BudgetState
  disk,    \* the persisted BudgetState
  faults,  \* how many writes have failed
  acked    \* what the methods that persist have told their callers about
           \* each scope (history)

budgetVars == <<mem, disk, faults, acked>>

Kinds == {"Unused", "Rollout", "Process", "Operation", "Capability"}

\* BudgetScopeKind::accepts_child.
AcceptsChild(kind, child) ==
  <<kind, child>> \in { <<"Rollout", "Process">>, <<"Process", "Operation">>,
                        <<"Operation", "Capability">> }

\* The last two fields are history: what a closed scope kept of its limit and
\* what transfers gave to a scope.
BudgetState ==
  [kind: [Scopes -> Kinds], parent: [Scopes -> Scopes \cup {NoScope}],
   limit: [Scopes -> Amount], remaining: [Scopes -> Amount],
   closed: [Scopes -> BOOLEAN], reservations: SUBSET Scopes,
   transfers: [Scopes -> Scopes \cup {NoScope}], bound: SUBSET Scopes,
   root: Scopes \cup {NoScope}, chain: [Scopes -> SUBSET Scopes],
   kept: [Scopes -> Nat], received: [Scopes -> Nat]]

Empty ==
  [kind |-> [s \in Scopes |-> "Unused"], parent |-> [s \in Scopes |-> NoScope],
   limit |-> [s \in Scopes |-> 0], remaining |-> [s \in Scopes |-> 0],
   closed |-> [s \in Scopes |-> FALSE], reservations |-> {},
   transfers |-> [s \in Scopes |-> NoScope], bound |-> {},
   root |-> NoScope, chain |-> [s \in Scopes |-> {}],
   kept |-> [s \in Scopes |-> 0], received |-> [s \in Scopes |-> 0]]

BudgetInit ==
  /\ mem = Empty
  /\ disk = Empty /\ faults = 0
  /\ acked = [s \in Scopes |-> "nothing"]

-----------------------------------------------------------------------------
(* Amount *)

CanAfford(remaining, request) ==
  request = Unlimited \/ remaining = Unlimited \/ request <= remaining

Subtract(remaining, request) ==
  IF remaining = Unlimited \/ request = Unlimited THEN remaining ELSE remaining - request

Add(remaining, amount) ==
  IF remaining = Unlimited \/ amount = Unlimited THEN remaining ELSE remaining + amount

Unused(limit, usage) ==
  IF limit = Unlimited THEN Unlimited ELSE IF limit < usage THEN 0 ELSE limit - usage

\* What a scope of this limit gives back: all of it when it is revoked.
Returned(limit, usage) == IF usage = NoUsage THEN limit ELSE Unused(limit, usage)

\* What a scope of this limit does not give back when it gives back `returned`.
Withheld(limit, returned) == IF limit = Unlimited THEN 0 ELSE limit - returned

\* The sum of the amounts f of the scopes S, as the number of units they stand
\* for; an unlimited amount stands for none.
Units(f, S) == UNION {{c} \X (1..f[c]) : c \in S}
Total(f, S) == Cardinality(Units(f, S))

-----------------------------------------------------------------------------
(* The locked operations, as functions of the state *)

Open(m, s) == m.kind[s] # "Unused" /\ ~m.closed[s]
OpenChildren(m, p) == {s \in Scopes : Open(m, s) /\ m.parent[s] = p}

\* The scopes of the compatibility adapter, whose ids no caller ever learns.
Private(m) == UNION {m.chain[s] : s \in Scopes}

\* create_root_locked.
CreateRootLocked(m, s, l) ==
  [m EXCEPT !.kind[s] = "Rollout", !.limit[s] = l, !.remaining[s] = l]

\* The root that set_budget, or reserve on the way, makes for the principal.
PrincipalRoot(m, s, l) == [CreateRootLocked(m, s, l) EXCEPT !.root = s]

MayReserve(m, p, k, req) ==
  Open(m, p) /\ AcceptsChild(m.kind[p], k) /\ CanAfford(m.remaining[p], req)

\* reserve_child_locked, once MayReserve holds.
ReserveChildLocked(m, s, p, k, req) ==
  [m EXCEPT !.kind[s] = k, !.parent[s] = p, !.limit[s] = req,
            !.remaining = [m.remaining EXCEPT ![p] = Subtract(m.remaining[p], req), ![s] = req],
            !.reservations = @ \cup {s}]

MayClose(m, s) ==
  s \in m.reservations /\ OpenChildren(m, s) = {} /\ ~m.closed[s]

\* Mutant: the reservation stays, and with it the right to close again.
CloseForgetfully(m, s, usage) ==
  [m EXCEPT !.closed[s] = TRUE,
            !.remaining[m.parent[s]] = Add(@, Returned(m.limit[s], usage)),
            !.kept[s] = Withheld(m.limit[s], Returned(m.limit[s], usage))]

\* Mutant: the parent gets the whole limit back whatever was used.
CloseGenerously(m, s, usage) ==
  [m EXCEPT !.closed[s] = TRUE,
            !.remaining[m.parent[s]] = Add(@, m.limit[s]),
            !.reservations = @ \ {s},
            !.kept[s] = Withheld(m.limit[s], Returned(m.limit[s], usage))]

\* close_locked, once MayClose holds: usage is NoUsage for a revocation.
CloseLocked(m, s, usage) ==
  [m EXCEPT !.closed[s] = TRUE,
            !.remaining[m.parent[s]] = Add(@, Returned(m.limit[s], usage)),
            !.reservations = @ \ {s},
            !.kept[s] = Withheld(m.limit[s], Returned(m.limit[s], usage))]

\* The compatibility adapter ignores what close_locked refuses.
TryClose(m, s, usage) == IF MayClose(m, s) THEN CloseLocked(m, s, usage) ELSE m

\* settle and revoke: the adapter's three scopes innermost first, or the one
\* scope that admission reserved for an operation.
CloseChain(m, s, usage) ==
  IF m.chain[s] = {} THEN TryClose(m, s, usage)
  ELSE LET op == m.parent[s]
           inner == TryClose([m EXCEPT !.chain[s] = {}], s, usage)
       IN  TryClose(TryClose(inner, op, usage), m.parent[op], usage)

\* descendants_post_order: what open scopes lead to from s.
OpenBelow(m, s) ==
  LET one == OpenChildren(m, s)
      two == UNION {OpenChildren(m, c) : c \in one}
      three == UNION {OpenChildren(m, c) : c \in two}
  IN  one \cup two \cup three

\* revoke_scope_tree: post-order, so that each close finds a leaf.  A root has
\* no reservation and stays open.
RevokeTree(m, s) ==
  LET D == OpenBelow(m, s) \cup ({s} \cap m.reservations)
      back(p) == Total(m.limit, {c \in D : m.parent[c] = p})
  IN  [m EXCEPT !.closed = [c \in Scopes |-> c \in D \/ m.closed[c]],
                !.remaining = [p \in Scopes |-> Add(m.remaining[p], back(p))],
                !.reservations = @ \ D]

MayTransfer(m, child, to) ==
  /\ m.transfers[child] = NoScope
  /\ child \in m.reservations /\ to \in m.reservations
  /\ ~m.closed[child] /\ ~m.closed[to]
  /\ child # to /\ m.parent[to] = m.parent[child]

\* transfer_remaining_reservation, once MayTransfer holds.  The parent keeps
\* the child's whole limit, the receiver's limit does not grow, and nothing
\* asks whether the child has open children.
TransferLocked(m, child, to, usage) ==
  LET accepted == Unused(m.limit[child], usage)
  IN  [m EXCEPT !.closed[child] = TRUE,
                !.remaining[to] = Add(@, accepted),
                !.reservations = @ \ {child},
                !.transfers[child] = to,
                !.received[to] = IF m.remaining[to] = Unlimited THEN @ ELSE Add(@, accepted),
                !.kept[child] = Withheld(m.limit[child], 0)]

-----------------------------------------------------------------------------
(* The methods that persist *)

Ack(s, what) == acked' = [acked EXCEPT ![s] = what]

\* The identifier for the next scope: unknown in memory, on disk and to callers.
Fresh(s) == /\ mem.kind[s] = "Unused" /\ disk.kind[s] = "Unused" /\ acked[s] = "nothing"
NewId(s) == Fresh(s) /\ \A i \in 1..(s - 1) : ~Fresh(i)

\* A write that fails leaves the old file, or the new one when only the last
\* fsync failed.
WriteFails(m) ==
  /\ faults < MaxFaults
  /\ faults' = faults + 1
  /\ disk' \in {disk, m}

\* Mutant: the answer is given without a write.
CommitLater(m, s, what) ==
  /\ mem' = m
  /\ Ack(s, what)
  /\ UNCHANGED <<disk, faults>>

\* persist, before the method returns: it succeeds, or the method restores
\* what it had and reports an error.
Commit(m, s, what) ==
  \/ /\ mem' = m
     /\ disk' = m
     /\ Ack(s, what)
     /\ UNCHANGED faults
  \/ /\ WriteFails(m)
     /\ UNCHANGED <<mem, acked>>

\* create_root: a write that fails panics in the caller and leaves the root in
\* memory.
CreateRoot(s, l) ==
  /\ NewId(s)
  /\ LET m == CreateRootLocked(mem, s, l)
     IN  /\ mem' = m
         /\ \/ Ack(s, "open") /\ disk' = m /\ UNCHANGED faults
            \/ WriteFails(m) /\ UNCHANGED acked

ReserveChild(s, p, k, req) ==
  /\ NewId(s) /\ p \notin Private(mem)
  /\ MayReserve(mem, p, k, req)
  /\ Commit(ReserveChildLocked(mem, s, p, k, req), s, "open")

SettleReservation(s, usage) ==
  /\ s \notin Private(mem)
  /\ MayClose(mem, s)
  /\ Commit(CloseLocked(mem, s, usage), s, "closed")

RevokeReservation(s) ==
  /\ s \notin Private(mem)
  /\ MayClose(mem, s)
  /\ Commit(CloseLocked(mem, s, NoUsage), s, "closed")

TransferRemaining(child, to, usage) ==
  /\ child \notin Private(mem) /\ to \notin Private(mem)
  /\ MayTransfer(mem, child, to)
  /\ Commit(TransferLocked(mem, child, to, usage), child, "closed")

-----------------------------------------------------------------------------
(* The methods that do not persist *)

\* revoke_scope_tree: a closed or unknown scope is a successful no-op.
RevokeScopeTree(s) ==
  /\ s \notin Private(mem) /\ mem.kind[s] # "Unused"
  /\ ~mem.closed[s]
  /\ mem' = RevokeTree(mem, s)
  /\ UNCHANGED <<disk, faults, acked>>

\* bind_operation_scope.
BindOperationScope(s) ==
  /\ mem.kind[s] = "Operation" /\ s \notin Private(mem)
  /\ mem' = [mem EXCEPT !.bound = @ \cup {s}]
  /\ UNCHANGED <<disk, faults, acked>>

\* reserve_capability_for_operation, the path of admission for an operation
\* whose scope is bound.
ReserveCapability(s, p, req) ==
  /\ NewId(s) /\ p \in mem.bound
  /\ MayReserve(mem, p, "Capability", req)
  /\ mem' = ReserveChildLocked(mem, s, p, "Capability", req)
  /\ UNCHANGED <<disk, faults, acked>>

\* set_budget: the principal gets a new root; the old one is forgotten.
SetBudget(s, l) ==
  /\ NewId(s)
  /\ mem' = PrincipalRoot(mem, s, l)
  /\ UNCHANGED <<disk, faults, acked>>

\* reserve, the adapter: a process, an operation and a capability of the same
\* request under the principal's root, which set_budget made; a missing root
\* is made on the way and has no limit.
Reserve(p, req) ==
  /\ NewId(p)
  /\ \A i \in 1..(IF mem.root = NoScope THEN 3 ELSE 2) : p + i \in Scopes /\ Fresh(p + i)
  /\ LET r == IF mem.root = NoScope THEN p + 3 ELSE mem.root
         m == IF mem.root = NoScope THEN PrincipalRoot(mem, r, Unlimited) ELSE mem
         proc == ReserveChildLocked(m, p, r, "Process", req)
         oper == ReserveChildLocked(proc, p + 1, p, "Operation", req)
         capa == ReserveChildLocked(oper, p + 2, p + 1, "Capability", req)
     IN  /\ MayReserve(m, r, "Process", req)
         /\ mem' = [capa EXCEPT !.chain[p + 2] = {p + 2, p + 1, p}]
  /\ UNCHANGED <<disk, faults, acked>>

\* settle and revoke, called by admission: usage is NoUsage for revoke.
CloseForAdmission(s, usage) ==
  /\ mem.kind[s] = "Capability"
  /\ mem' = CloseChain(mem, s, usage)
  /\ mem' # mem
  /\ UNCHANGED <<disk, faults, acked>>

-----------------------------------------------------------------------------
\* The daemon dies and opens the file again.
Crash ==
  /\ mem' = disk
  /\ UNCHANGED <<disk, faults, acked>>

BudgetNext ==
  \/ \E s \in Scopes, l \in Requests : CreateRoot(s, l) \/ SetBudget(s, l)
  \/ \E s, p \in Scopes, k \in Kinds, req \in Requests : ReserveChild(s, p, k, req)
  \/ \E s \in Scopes, u \in Usages : SettleReservation(s, u)
  \/ \E s \in Scopes : RevokeReservation(s) \/ RevokeScopeTree(s) \/ BindOperationScope(s)
  \/ \E child, to \in Scopes, u \in Usages : TransferRemaining(child, to, u)
  \/ \E s, p \in Scopes, req \in Requests : ReserveCapability(s, p, req)
  \/ \E p \in Scopes, req \in Requests : Reserve(p, req)
  \/ \E s \in Scopes, u \in Usages \cup {NoUsage} : CloseForAdmission(s, u)
  \/ Crash

BudgetSpec == BudgetInit /\ [][BudgetNext]_budgetVars

-----------------------------------------------------------------------------
(* Properties *)

\* The state of the model is well formed; in particular the unchecked
\* subtraction of reserve_child_locked never goes below zero.
BudgetTypeOK ==
  /\ mem \in BudgetState
  /\ disk \in BudgetState /\ faults \in 0..MaxFaults
  /\ acked \in [Scopes -> {"nothing", "open", "closed"}]

Lent(m, s) == Total(m.limit, OpenChildren(m, s))
ClosedChildren(m, s) == {c \in Scopes : m.kind[c] # "Unused" /\ m.closed[c] /\ m.parent[c] = s}
Kept(m, s) == Total(m.kept, ClosedChildren(m, s))

\* The books balance at every open scope with a limit: what is left, what its
\* open children hold and what its closed children kept add up to its limit
\* and what was transferred to it.  No closing returns capacity twice.
Balance ==
  /\ BudgetTypeOK
  /\ \A s \in Scopes : Open(mem, s) /\ mem.limit[s] # Unlimited =>
        mem.remaining[s] + Lent(mem, s) + Kept(mem, s) = mem.limit[s] + mem.received[s]

\* A reservation can be closed exactly while its scope is open, so that no
\* retry finds a reservation whose scope is gone, nor an open scope that
\* nothing can close.
ReservedWhileOpen ==
  \A s \in Scopes : s \in mem.reservations <=> Open(mem, s) /\ mem.kind[s] # "Rollout"

\* What a method that persists has reported survives every crash: a scope
\* that was reserved is known, one that was closed or transferred is closed
\* (the comment on open_durable).
AckSurvives ==
  \A s \in Scopes :
     /\ acked[s] = "open" => mem.kind[s] # "Unused"
     /\ acked[s] = "closed" => mem.closed[s]
=============================================================================
