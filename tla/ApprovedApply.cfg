\* A repeated decision, two things that go wrong and two moves of the goal.
SPECIFICATION FairSpec
CONSTANTS
  Callers = {c1, c2}
  MaxIncidents = 2
  MaxMoves = 2
  None = None
INVARIANTS AppliedOnce ReceiptIsTrue
PROPERTIES Recovers
CHECK_DEADLOCK FALSE
