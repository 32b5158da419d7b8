\* Two tool calls at once beside the Scheme thread, a remote and a local target.
SPECIFICATION FairSpec
CONSTANTS
  c1 = c1
  c2 = c2
  Startup = startup
  Scheme = scheme
  Nobody = nobody
  board = board
  native = native
  NoTarget = none
  Tools = {c1, c2}
  Targets = {board, native}
  Remote = {board}
  NonStop = TRUE
  MaxRequests = 3
INVARIANTS
  TypeOK
  MemoIsLatest
  OneRetry
PROPERTIES
  BootstrapEnds
  GdbExitEndsRequests
CHECK_DEADLOCK FALSE
