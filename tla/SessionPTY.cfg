SPECIFICATION FairSpec
CHECK_DEADLOCK FALSE
INVARIANTS
  PtyInv
  JobClosedOnce
PROPERTIES
  ImplementsPty
  TermOnTarget
  CloseReturns
  ExitNoticed
