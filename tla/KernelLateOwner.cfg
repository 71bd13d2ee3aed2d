\* Things handed to a process while it is terminated.
SPECIFICATION Spec
CONSTANTS
  Callers = {c1, c2}
  MaxProcs = 1
  Agents = {a1}
  Workloads <- LateWorkload
  MaxIncidents = 0
  None = None
SYMMETRY Symmetry
INVARIANTS TerminalOwnsNothing
CHECK_DEADLOCK FALSE
