\* The scripts and workflows that watch, back up and check production.
SPECIFICATION OpsSpec
CONSTANTS
  Checks = {"schedules"}
  RemindAfter = 1
  MaxTicks = 2
  MaxWorldChanges = 2
  MaxAlertFaults = 1
  MaxWrites = 4
  MaxLevel = 3
  MaxBackups = 2
  MaxBackupFaults = 1
  HealthSources = {1, 2}
  FailureStreak = 2
  LookbackDays = 1
  StaleAfter = 0
  AbandonedAfter = 0
  DeadAfterFetches = 2
  AttemptPage = 2
  MaxAttempts = 3
  MaxHealthDays = 2
  MaxSwitches = 1
  MaxDrifts = 2
  MaxEdits = 2
INVARIANTS
  AlertsReachTheOwner
  BackupIsSafe
  
  
PROPERTIES
  FailingIsReported
\* Each part stops when its bounds are used up.
CHECK_DEADLOCK FALSE
