SPECIFICATION Spec
CONSTANTS
  Tokens = {a, b}
  NoToken = NoToken
  LockTimeout = 2
  IpcTimeout = 1
  Skew = 1
  PressTtl = 1
  Retain = 3
  Cap = 2
  Faults <- ContractFaults
  MaxClock = 4
CHECK_DEADLOCK FALSE
INVARIANT LatePressIgnored
PROPERTY ContractSpec
