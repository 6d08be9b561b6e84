SPECIFICATION Spec
CONSTANTS
  Bases = {2, 4}
  Records <- SomeRecords
  MaxRecords = 2
  Limit = 1
  Rate = 1
  Window = 2
  Multipliers <- Halves
  Ceiling = 6
  SlowRun = 2
  FastRun = 2
  Durations = {0, 1, 3}
INVARIANT FramingExact
INVARIANT RateBounded
INVARIANT ConfiguredIsSampled
PROPERTY MovesWhenSustained
