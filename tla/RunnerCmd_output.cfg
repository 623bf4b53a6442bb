SPECIFICATION Spec
CONSTANTS
  ChildMayRun = FALSE
  LongLines = FALSE
CHECK_DEADLOCK FALSE
INVARIANTS
  OutputDrained
