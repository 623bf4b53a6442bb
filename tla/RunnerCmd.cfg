SPECIFICATION FairSpec
CONSTANTS
  ChildMayRun = TRUE
  LongLines = TRUE
CHECK_DEADLOCK FALSE
INVARIANTS
  RunnerCmdInv
  TornDown
  LinesBeforeOffline
  StrayOnlyInShutdown
PROPERTIES
  ImplementsRunSession
  ShutdownBounded
  RunCompletes
