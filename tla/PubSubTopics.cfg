SPECIFICATION Spec
CONSTANTS
  s1 = s1
  s2 = s2
  Subscribers = {s1, s2}
  NMsg = 3
  QueueBound = 2
  MaxRuns = 2
INVARIANTS
  AdvertisedTopicsArePublished
CHECK_DEADLOCK FALSE
