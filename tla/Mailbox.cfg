\* Two senders, two receivers, both lanes at their limits.
SPECIFICATION FairSpec
CONSTANTS
  Senders = {s1, s2}
  Receivers = {r1, r2}
  Capacity = 2
  MaxSends = 3
  Nobody = Nobody
INVARIANTS InOrder ReceiverNotified
PROPERTIES AllReceived
CHECK_DEADLOCK FALSE
