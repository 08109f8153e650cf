CONSTANTS
  NULL = NULL
  NoFile = NoFile
  Unset = Unset
  Nothing = Nothing
  PerWord = 5
  HashRange = 65536
  Code <- Codes
  Texts <- FittingTexts
  Trees <- FileSystems
  Src <- Source
  Dsts <- Targets
  MaxOpen = 4
  Names = {"src", "dst", "no", "a", "b", "c", "f"}
  Blocks = {"x", "y", "bad"}
  Means = {1, 2, 3}
  Counts = {0, 1, 2}
  Sizes = {2, 3}
  Char = {1, 2}
  BLOCK = 2
  INT_MAX = 7
  IdxMax = 3
  Thread = {t1, t2}
  Times = 1
  OldSet <- OldIndex
  Server = {s1, s2}
  Ports <- PortChoices
  Client = {c1}
  Script = {k1, k2}
  LISTENQ = 1
SPECIFICATION Spec
INVARIANTS
  CountsRight
  CopyIsFaithful
  GoodSetServes
  CutIndexNoticed
  FifoIsServers
PROPERTIES
  ImplementsBag
  CopyEnds
  ShutdownStops
CHECK_DEADLOCK FALSE
