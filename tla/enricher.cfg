SPECIFICATION Spec
CONSTANTS
  Addresses = {a1, a2, a3}
  a1 = a1
  a2 = a2
  a3 = a3
  Paths = {p1, p2}
  p2 = p2
  p1 = p1
  QueueCap = 1
  CacheCap = 2
  Fresh = 2
  Timeout = 1
  MaxTime = 4
  NetworkStays = FALSE
CHECK_DEADLOCK FALSE
INVARIANT TypeOK
INVARIANT PrivacyStopsLookups
INVARIANT AnswersBelong
INVARIANT NoDuplicateLookup
PROPERTY SampleEndsOverdue
