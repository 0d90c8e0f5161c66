SPECIFICATION Spec
CONSTANTS
  even = even
  odd = odd
  Respondents = {even, odd}
  EvenPids = {even}
  MaxSurveys = 3
  MaxRuns = 2
  QueueBound = 2
INVARIANTS
  AnsweredSurveyEndsWell
CHECK_DEADLOCK FALSE
