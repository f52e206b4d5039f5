SPECIFICATION Spec
CONSTANTS
  IdleDelay = 3
  ActiveSec = 3
  ScreenOffSec = 2
  DeepIdleSec = 1
  AbortSec = 1
  BackoffSec = 1
  DefaultSec = 1
  BootSec = 1
  SweepPaths = 1
  MaxPackages = 1
  MaxTargets = 1
  MaxChildren = 1
PROPERTY
  DozeReleased
