SPECIFICATION Spec
CONSTANTS
  ChildMayRun = TRUE
  LongLines = FALSE
CHECK_DEADLOCK FALSE
INVARIANTS
  GroupTornDown
