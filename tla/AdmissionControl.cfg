\* Two invocations compete for one reservation and one lease while their process is cleaned
\* up; callers may be dropped at any await point.
SPECIFICATION Spec
CONSTANTS
  Invocations = {i1, i2}
  Cleaners = {c1}
  Processes = {p1}
  Operations = {o1, o2}
  Capacity = 1
  None = None
SYMMETRY Symmetry
INVARIANTS ClosedOnce NothingLeaks
CHECK_DEADLOCK FALSE
