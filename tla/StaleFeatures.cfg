\* The features are listed, and then the program is run.
SPECIFICATION SessionSpec
CONSTANTS
  t1 = t1
  t2 = t2
  b1 = b1
  v1 = v1
  v1c = v1c
  x = x
  y = y
  ThreadIds <- MCThreads
  MainThread = t1
  All = All
  NoThread = NoThread
  NoFrame = NoFrame
  Locations = {x, y}
  BreakIds <- MCBreaks
  VarNames <- MCVarNames
  Parent = v1
  Child = v1c
  Values = {x, y}
  Features = {x}
  Modes = {TRUE, FALSE}
  Scripts <- RerunScripts
  MaxCommands = 2
  MaxAsync = 0
INVARIANTS
  TargetFeaturesCurrent
CHECK_DEADLOCK FALSE
