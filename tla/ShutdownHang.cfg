\* The runtime of the binary, with reads that fail while GDB lives.
SPECIFICATION FairSpec
CONSTANTS
  c1 = c1
  c2 = c2
  quit = quit
  Calls <- MCCalls
  Quit = quit
  Outcomes = {"done", "error"}
  SingleThreaded = TRUE
  ReadFailures = TRUE
  ChannelCapacity = 1
  PipeCapacity = 1
  MaxExtra = 0

PROPERTY ShutdownTerminates
