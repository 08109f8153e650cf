CONSTANTS
  steady = steady
  hasty = hasty
  plain = plain
  header = header
  Missing = Missing
  Conn <- Both
  Impatient <- OnlyHasty
  Name <- Names
  Fragile <- Unstable
  Hidden <- HiddenNames
  File <- Content
  WireCap = 2
SPECIFICATION FairSpec
INVARIANTS
  RepliesWellFramed
  AssertionsDecide
PROPERTIES
  RequestsEnd
CHECK_DEADLOCK FALSE
