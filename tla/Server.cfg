\* Three evals, a channel with room for one request, one background task.
SPECIFICATION FairSpec
CONSTANTS
  MaxEvals = 3
  EvalTimeout = 1
  WaitTimeout = 2
  MaxBudget = 1
  ChannelCapacity = 1
  BudgetArgs = {0, 2}
  RebuildFails = FALSE
  Probes = 1
INVARIANTS
  TypeOK
  RunsWithinBudget
  InterruptIsDue
  ServedInOrder
  EngineIsSound
  OnlyAbortedHolds
PROPERTIES
  EveryCallReturns
  DisconnectEnds
CHECK_DEADLOCK FALSE
