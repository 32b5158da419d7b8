\* One eval with one call of (mi ..) that times out.
SPECIFICATION Spec
CONSTANTS
  MaxEvals = 1
  EvalTimeout = 1
  WaitTimeout = 2
  MaxBudget = 1
  ChannelCapacity = 1
  BudgetArgs = {0, 2}
  RebuildFails = FALSE
  Probes = 0
INVARIANTS
  TransportIsUnique
CHECK_DEADLOCK FALSE
