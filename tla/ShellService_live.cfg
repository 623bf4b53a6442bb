SPECIFICATION FairSpec
CONSTANTS
  a = a
  b = b
  Ids = {a, b}
  Limits = {1}
  MaxCreates = 2
  Histories <- SameID
CHECK_DEADLOCK FALSE
PROPERTIES
  SessionEnds
  SlotFreed
  StopGoesThrough
