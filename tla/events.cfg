SPECIFICATION Spec
CONSTANTS
  a = a
  b = b
  p = p
  q = q
  Domains = {a, b}
  Entities <- Crowded
  Ttl = 1
  QueueLimit = 3
  GhostLimit = 1
  EntityLimit = 1
  MaxTime = 1
CHECK_DEADLOCK FALSE
INVARIANT TypeOK
INVARIANT GhostsAreGone
INVARIANT OpensOnce
PROPERTY ClosedIsGone
PROPERTY AgeGoesOn
