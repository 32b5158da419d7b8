\* The runtime of the binary, liveness.
SPECIFICATION FairSpec
CONSTANTS
  c1 = c1
  c2 = c2
  quit = quit
  Calls <- MCCalls
  Quit = quit
  Outcomes = {"done", "error"}
  SingleThreaded = TRUE
  ReadFailures = FALSE
  ChannelCapacity = 1
  PipeCapacity = 1
  MaxExtra = 0
INVARIANTS NoStrandedCall
PROPERTIES ReaderExitWakesCalls ShutdownTerminates
