CONSTANTS
  n1 = n1
  n2 = n2
  n3 = n3
  l1 = l1
  c1 = c1
  NULL = NULL
  MaxThreads = 3
  Node <- Nodes3
  UserQ <- Queues
  Lock <- Locks1
  CV <- Cvs1
SPECIFICATION MFairSpec
INVARIANTS
  LocksSound
  NoLostSignal
PROPERTIES
  ImplementsMesa
  LockWaitersWake
