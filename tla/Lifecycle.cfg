SPECIFICATION FairSpec
CONSTANTS
  MaxRetries = 1
  SetupMayFail = TRUE
  SpawnWorks = TRUE
  MaxFails = 3
  MaxCrashes = 1
  MaxBreaks = 2
  MaxWriteFaults = 1
CHECK_DEADLOCK FALSE
INVARIANTS
  LifecycleTypeOK
  KeeperWatchesProcess
  NoFalseTermination
  LifecycleInv
PROPERTIES
  FailedOnlyUntouched
  DemotedOnlyByLoop
  ImplementsOneJob
  IdleRunnerRestarted
  RunnerRetired
  ReconnectReports
