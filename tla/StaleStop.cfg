SPECIFICATION Spec
CONSTANTS
  w1 = w1
  Waiters <- OneWait
  NoCall = NoCall
  Capacity = 1024
  MaxRecords = 3
  WaitRecords = 3
  MaxLogs = 0
  MaxDrains = 0
INVARIANTS
  CurrentStopIsCurrent
CHECK_DEADLOCK FALSE
