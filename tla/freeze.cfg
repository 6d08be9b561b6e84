SPECIFICATION Spec
CONSTANTS
  Groups = {g1}
  g1 = g1
  MaxGen = 2
  MaxRequests = 2
  PipeLen = 2
  MaxExits = 1
  FaultSets = {{"error", "reopen"}, {"error", "exit"}, {"rate", "action"}}
CHECK_DEADLOCK FALSE
INVARIANT FrozenShowsPinned
INVARIANT FrozenScopeShown
INVARIANT NoActionWhileFrozen
INVARIANT ScopeDelivered
PROPERTY FreezeContractSpec
