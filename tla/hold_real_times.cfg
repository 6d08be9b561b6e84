SPECIFICATION Spec
CONSTANTS
  Tokens = {a, b}
  NoToken = NoToken
  LockTimeout = 8
  IpcTimeout = 4
  Skew = 5
  PressTtl = 30
  Retain = 60
  Cap = 2
  Faults <- NoFaults
  MaxClock = 9
CHECK_DEADLOCK FALSE
INVARIANT LatePressNeverOpens
