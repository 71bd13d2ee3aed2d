\* Two clients submit, cancel and wait; one write fails, call is dropped or restart.
SPECIFICATION Spec
CONSTANTS
  Clients = {c1, c2}
  Requests <- MCRequests
  MaxPending = 1
  MaxConcurrent = 1
  MaxIncidents = 2
  None = None
SYMMETRY Symmetry
INVARIANTS OneJobPerKey StoreOpens Attended NoLostWakeup
PROPERTIES TerminalStands
CHECK_DEADLOCK FALSE
