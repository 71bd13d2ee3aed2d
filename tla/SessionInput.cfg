\* Two edits or cancellations, and a failing call, lost connection or restart.
SPECIFICATION FairSpec
CONSTANTS
  Clients = {c1, c2}
  Detached = d
  Prompts = {p1, p2}
  Interjections = {i1}
  MaxQueueLen = 2
  MaxChanges = 2
  MaxIncidents = 1
  None = None
INVARIANTS ExactlyOnce InOrder
PROPERTIES RunsWhatItSays Served
CHECK_DEADLOCK FALSE
