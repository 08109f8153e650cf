CONSTANTS
  t1 = t1
  t2 = t2
  t3 = t3
  Thread <- Threads3
  MaxDepth = 4
SPECIFICATION IFairSpec
INVARIANTS
  InterruptsInClientOnly
  TimerInOnePlace
PROPERTIES
  InterruptsRecur
