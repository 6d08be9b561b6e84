SPECIFICATION Spec
CONSTANTS
  Tokens = {a, b}
  NoToken = NoToken
  LockTimeout = 3
  IpcTimeout = 2
  Skew = 2
  PressTtl = 2
  Retain = 4
  Cap = 2
  Faults <- OwnerFaults
  MaxClock = 5
CHECK_DEADLOCK FALSE
INVARIANT VisibleHasOwner
SYMMETRY TokenSymmetry
