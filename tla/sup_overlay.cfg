SPECIFICATION FairSpec
CONSTANTS
  MaxRetries = 6
  GoodRun = 3
  BadRun = 3
  Reopens = FALSE
CHECK_DEADLOCK FALSE
INVARIANT NoDeadEnd
INVARIANT ClosedHoldsNothing
INVARIANT LaunchesCapped
INVARIANT WatchesCanFire
PROPERTY CloseStopsHelper
PROPERTY AcquiresOrGivesUp
PROPERTY StallIsNoticed
