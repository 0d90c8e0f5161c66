SPECIFICATION Spec
CONSTANTS
  BusSize = 3
  OneProcess = FALSE
  QueueBound = 2
  MaxStops = 1
INVARIANTS
  OneLinkPerPair
  OnceInOrder
PROPERTIES
  EverybodyHeard
  MeshHeals
CHECK_DEADLOCK FALSE
