CONSTANTS
  main = main
  w1 = w1
  w2 = w2
  w3 = w3
  a = a
  b = b
  c = c
  d = d
  NULL = NULL
  Main <- main
  Worker <- Workers2
  Conn <- Conns4
  MaxRequests = 2
SPECIFICATION FairSpec
INVARIANTS
  QTypeOK
  Exclusive
  NoLostWakeup
PROPERTIES
  ImplementsBuffer
  RequestsTaken
  ListenerResumes
  ExitEndsUnlessRace
CHECK_DEADLOCK FALSE
