SPECIFICATION Spec
CONSTANTS
  c1 = c1
  c2 = c2
  c3 = c3
  Clients = {c1, c2, c3}
  Stoppers = {c1}
  MaxStarts = 3
INVARIANTS
  OncePerServer
PROPERTIES
  RequestsAreAnswered
CHECK_DEADLOCK FALSE
