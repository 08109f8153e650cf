CONSTANTS
  n1 = n1
  n2 = n2
  n3 = n3
  n4 = n4
  q1 = q1
  NULL = NULL
  MaxThreads = 3
  Node <- Nodes4
  UserQ <- Queues1
SYMMETRY NodeSymmetry
SPECIFICATION Spec
INVARIANT WaitedMeansExited
