SPECIFICATION FairSpec
CONSTANTS
  MaxRetries = 1
  SetupMayFail = FALSE
  SpawnWorks = TRUE
  MaxFails = 0
  MaxCrashes = 1
  MaxBreaks = 0
  MaxWriteFaults = 0
CHECK_DEADLOCK FALSE
PROPERTIES
  RestartReports
