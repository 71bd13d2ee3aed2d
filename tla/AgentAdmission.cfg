\* Three agents of two trees compete for one or two slots; one agent meets a fault.
SPECIFICATION FairSpec
CONSTANTS
  a1 = a1
  a2 = a2
  a3 = a3
  r1 = r1
  r2 = r2
  Agents = {a1, a2, a3}
  Roots = {r1, r2}
  Root <- RootOf
  Parent <- ParentOf
  Configs <- SmallConfigs
  MaxFaults = 1
  None = None
INVARIANTS BooksBalance ReleaseNotMissed ReservationHasOwner
PROPERTIES Served
CHECK_DEADLOCK FALSE
