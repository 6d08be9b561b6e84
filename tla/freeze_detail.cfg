SPECIFICATION Spec
CONSTANTS
  Groups = {g1}
  g1 = g1
  MaxGen = 2
  MaxRequests = 1
  PipeLen = 3
  MaxExits = 0
  FaultSets = {{"error"}}
CHECK_DEADLOCK FALSE
INVARIANT FrozenDetailExact
