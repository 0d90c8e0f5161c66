SPECIFICATION Spec
CONSTANTS
  p1 = p1
  p2 = p2
  Pullers = {p1, p2}
  NMsg = 4
  QueueBound = 1
  MaxRuns = 1
PROPERTIES
  CrashedConsumerHalts
CHECK_DEADLOCK FALSE
