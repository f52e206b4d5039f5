SPECIFICATION Spec
CONSTANTS
  IdleDelay = 9
  ActiveSec = 3
  ScreenOffSec = 2
  DeepIdleSec = 1
  AbortSec = 1
  BackoffSec = 1
  DefaultSec = 1
  BootSec = 1
  SweepPaths = 2
  MaxPackages = 1
  MaxTargets = 1
  MaxChildren = 1
INVARIANTS
  TypeOK
  NeverSleepsForever
  MaintenanceAlwaysLeft
  StopsAfterOneEvaluation
PROPERTIES
  StartsOnlyAfterQuiet
  GatesPassedRecently
  StopIsObeyed
  MaintenanceRecurs
  WakesFromDozeUnlessActive
