CONSTANTS
  l1 = l1
  c1 = c1
  c2 = c2
  c3 = c3
  NULL = NULL
  MaxThreads = 6
  Node <- Nodes6
  UserQ <- Queues
  Lock <- Locks1
  CV <- Cvs3
  Tests <- AllTests
  Size <- Sizes
  LOOPS = 2
  PotatoCalm = 1
  testlock = l1
  SignalCv <- ThreeCvs
  queue = c1
SPECIFICATION TSpec
INVARIANTS
  AssertionsHold
  SharedInOrder
  OutputAsPromised
PROPERTIES
  TestsEnd
