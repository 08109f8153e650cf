CONSTANTS
  main = main
  w1 = w1
  w2 = w2
  w3 = w3
  a = a
  b = b
  c = c
  d = d
  NULL = NULL
  Main <- main
  Worker <- Workers2
  Conn <- Conns3
  MaxRequests = 1
SPECIFICATION FairSpec
PROPERTIES
  ExitEnds
CHECK_DEADLOCK FALSE
