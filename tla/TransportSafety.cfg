\* Multi-threaded runtime and failing reads: the largest set of interleavings.
SPECIFICATION Spec
CONSTANTS
  c1 = c1
  c2 = c2
  quit = quit
  Calls <- MCCalls
  Quit = quit
  Outcomes = {"done", "error"}
  SingleThreaded = FALSE
  ReadFailures = TRUE
  ChannelCapacity = 1
  PipeCapacity = 1
  MaxExtra = 1
SYMMETRY CallSymmetry
INVARIANTS TypeOK OutcomeIsOwn ExitedIsFinal NoOrphanSender
PROPERTY ServiceSpec
