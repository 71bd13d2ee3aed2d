\* Cleanups and restarts by two callers; one cleanup fails or one caller is dropped.
SPECIFICATION Spec
CONSTANTS
  Callers = {c1, c2}
  MaxProcs = 3
  Agents = {a1}
  Workloads <- QuietWorkloads
  MaxIncidents = 1
  None = None
SYMMETRY Symmetry
INVARIANTS TerminalOwnsNothing AnswersAgree RestartsBounded
CHECK_DEADLOCK FALSE
