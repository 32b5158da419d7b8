\* A journal of two events that overflows; one wait of either kind, or two drains.
SPECIFICATION MCSpec
CONSTANTS
  w1 = w1
  Waiters <- OneWait
  NoCall = NoCall
  Capacity = 2
  MaxRecords = 3
  WaitRecords = 2
  MaxLogs = 1
  MaxDrains = 2
INVARIANTS
  TypeOK
  NoLostWakeup
  FoundIsFirstRetained
  TriggerPrecedesStops
PROPERTIES
  WaitsReturn
  DrainLosesNothing
CHECK_DEADLOCK FALSE
