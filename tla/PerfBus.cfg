SPECIFICATION Spec
CONSTANTS
  BusSize = 4
  OneProcess = TRUE
  NMsg = 2
  SeqBound = 3
  QueueBound = 2
INVARIANTS
  TypeOK
  OneLinkPerPair
  NoDialRefused
  MeshUp
  NoEarlyTerminate
  TerminateReachesAll
PROPERTIES
  ClockStops
  BusRunEnds
  BusIsMeasurement
CHECK_DEADLOCK FALSE
