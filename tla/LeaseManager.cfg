\* Holders that may outlive their leases, stale clocks, leases of no duration.
SPECIFICATION LeaseSpec
CONSTANTS
  Resources = {r1, r2}
  Leases = {l1, l2, l3}
  Callers = {c1, c2, c3}
  Durations = {0, 2}
  MaxTime = 3
  Nothing = Nothing
SYMMETRY Symmetry
INVARIANTS ReleasedNeverBlocks EntryCanBeReleased ExclusiveWhilePrompt
CHECK_DEADLOCK FALSE
