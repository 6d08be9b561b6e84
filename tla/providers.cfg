SPECIFICATION Spec
CONSTANTS
  p = p
  q = q
  Sockets = {"t", "u"}
  Processes = {p, q}
  GroupOf <- EachItsGroup
  NoGroup = NoGroup
  Tables <- SomeTables
  TableOf <- InTable
  MaxContacts = 2
  OwnerInterval = 1
  FallbackTime = 1
  SocketFaultSets <- SomeFaults
  MaxNow = 1
  MaxMoves = 1
  Pids = {1, 2}
  Images = {"interpreter", "program"}
  NoImage = "none"
  Runtimes = {"interpreter"}
  MaxProcesses = 2
  IdentityTime = 2
  MaxTicks = 1
  MaxScans = 2
  MaxEvents = 4
  Contacts = {"c1", "c2", "c3"}
  Holders = {"a1", "a2", "b"}
  Application <- Applications
  Nobody = "nobody"
  Shapes <- SomeShapes
  Nodes = {"m", "n", "o"}
  ObjectIds = {1, 2}
  NoNode = "none"
  MaxChanges = 2
  MaxRequests = 3
  MaxBytes = 1
  OutputBound = 3
SYMMETRY Symmetry
CONSTRAINT FewEvents
CHECK_DEADLOCK FALSE
INVARIANT OwnersHeldIt
INVARIANT RowIsOneProcess
INVARIANT AncestryIsReal
INVARIANT ModelIsExact
INVARIANT GroupIsCleaned
INVARIANT NoOrphanRuns
INVARIANT NeverWaitsOverdue
PROPERTY SocketExitsAreReal
PROPERTY ProcessExitsAreReal
PROPERTY HitsSelected
PROPERTY UndoRestores
