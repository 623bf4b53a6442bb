SPECIFICATION FairSpec
CONSTANTS
  MaxRetries = 1
  SetupMayFail = FALSE
  SpawnWorks = TRUE
  MaxFails = 0
  MaxCrashes = 0
  MaxBreaks = 0
  MaxWriteFaults = 0
CHECK_DEADLOCK FALSE
PROPERTIES
  TerminatedWhenOver
