CONSTANTS
  n1 = n1
  n2 = n2
  n3 = n3
  n4 = n4
  q1 = q1
  NULL = NULL
  MaxThreads = 3
  Node <- Nodes3
  UserQ <- Queues1
SPECIFICATION FairSpec
INVARIANTS
  Consistent
  SavedContexts
  NothingStale
PROPERTIES
  WakeupInOrder
  ReadyRuns
  WaitEnds
