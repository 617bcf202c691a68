SPECIFICATION FaultySpec
CONSTANTS
  Endpoints <- None
  ReplicationInterval = 2
  MaintenanceDelay = 3
  PressureDelay = 3
  WatchdogDelay = 3
  MinBackoff = 1
  MaxBackoff = 2
  DirectDelays <- AtOnceOrLater
  TimerDelay = 1
  Raises <- JustReplication
  MaxTasks = 4
PROPERTY EventuallyScheduled
