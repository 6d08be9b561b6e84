SPECIFICATION Spec
CONSTANTS
  MaxRetries = 6
  GoodRun = 3
  BadRun = 3
  Reopens = TRUE
CHECK_DEADLOCK FALSE
INVARIANT NoDeadEnd
