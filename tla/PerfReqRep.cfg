SPECIFICATION Spec
CONSTANTS
  NMsg = 5
INVARIANTS
  InStep
  PhasesApart
PROPERTIES
  RequestTimingsEnd
CHECK_DEADLOCK FALSE
