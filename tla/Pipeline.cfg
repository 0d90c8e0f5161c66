SPECIFICATION Spec
CONSTANTS
  p1 = p1
  p2 = p2
  Pullers = {p1, p2}
  NMsg = 3
  QueueBound = 2
  MaxRuns = 2
INVARIANTS
  OnePullerEach
  OnlyEndsAreLost
PROPERTIES
  AllArePushed
  EndsForAllEndTheRun
  PushGetsThrough
  PipelineIsMeasurement
CHECK_DEADLOCK FALSE
