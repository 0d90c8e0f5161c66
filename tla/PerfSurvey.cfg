SPECIFICATION Spec
CONSTANTS
  r1 = r1
  r2 = r2
  r3 = r3
  Responders = {r1, r2, r3}
  NReq = 2
INVARIANTS
  LastResponseFirst
PROPERTIES
  SurveyTimingsEnd
  SurveysAreMeasurements
CHECK_DEADLOCK FALSE
