SPECIFICATION FairSpec
CONSTANTS
  Endpoints <- Two
  ReplicationInterval = 2
  MaintenanceDelay = 3
  PressureDelay = 3
  WatchdogDelay = 3
  MinBackoff = 1
  MaxBackoff = 2
  DirectDelays <- AtOnceOrLater
  TimerDelay = 1
  Raises <- None
  MaxTasks = 5
INVARIANT TimerSet
INVARIANT LoopsGoOn
INVARIANT RetriedInTime
INVARIANT AlarmPending
INVARIANT EventPending
PROPERTY EventuallyServed
