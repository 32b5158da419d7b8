SPECIFICATION Spec
CONSTANTS
  x = x
  sp = sp
  LF = LF
  CR = CR
  Prompt = Prompt
  Bytes <- MCBytes
  Blanks <- MCBlanks
  MaxChunk = 3
  MaxInput = 6
INVARIANTS
  ChunkingIrrelevant
PROPERTIES
  LinesSpec
  MemoryBound
CHECK_DEADLOCK FALSE
