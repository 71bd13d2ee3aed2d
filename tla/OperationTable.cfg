\* Three operations (a chain, or a parent with two children), two processes,
\* two concurrent calls that may be dropped, one waiter.
SPECIFICATION Spec
CONSTANTS
  Ops = {o1, o2, o3}
  Owners = {p1, p2}
  Tasks = {t1, t2}
  Waiters = {w1}
  None = None
SYMMETRY Symmetry
INVARIANTS TreeHasOneOwner CancelVisitsAll NoLostWakeup
PROPERTIES TerminalIsFinal
CHECK_DEADLOCK FALSE
