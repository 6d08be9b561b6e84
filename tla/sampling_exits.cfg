SPECIFICATION SocketSpec
CONSTANTS
  p = p
  q = q
  Sockets = {"t", "u"}
  Processes = {p, q}
  GroupOf <- EachItsGroup
  NoGroup = NoGroup
  Tables <- SomeTables
  TableOf <- InTable
  MaxContacts = 3
  OwnerInterval = 1
  FallbackTime = 1
  SocketFaultSets <- IncompleteProcesses
  MaxNow = 1
  MaxMoves = 1
CHECK_DEADLOCK FALSE
PROPERTY LinkExitsAreReal
