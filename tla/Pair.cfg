SPECIFICATION Spec
CONSTANTS
  c1 = c1
  c2 = c2
  c3 = c3
  Nobody = Nobody
  Clients = {c1, c2, c3}
  NMsg = 4
  QueueBound = 1
  MaxStarts = 2
INVARIANTS
  OwnMessageComesBack
PROPERTIES
  ConnectedIsServed
  NextIsServed
  PairTimingEnds
  PairIsMeasurement
CHECK_DEADLOCK FALSE
