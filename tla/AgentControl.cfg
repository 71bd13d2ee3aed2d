\* A parent and a child, one failing call and up to two crashes of the daemon.
SPECIFICATION FairSpec
CONSTANTS
  p = p
  c = c
  Agents = {p, c}
  Parent <- ParentOf
  Survivors = {c}
  Labels = 2
  Hardened = {TRUE, FALSE}
  MaxFaults = 1
  MaxCrashes = 2
  None = None
INVARIANTS NothingLeft Reclaimed SurvivorBringsItsBudget
PROPERTIES EndStands FollowsLifecycle RunsEnd
CHECK_DEADLOCK FALSE
