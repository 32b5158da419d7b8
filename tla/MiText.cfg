SPECIFICATION TextSpec
CONSTANTS
  Words <- MCWords
  Lower <- MCLower
  Alphabet <- MCAlphabet
  Keys <- MCKeys
  String <- MCStrings
  U32 <- MCU32
  I64 <- MCI64
  Callable <- AllTools
  MaxToken = 255
  MaxText = 2
  MaxLine = 5
  MaxParts = 2
  MaxDepth = 2
INVARIANTS
  CommandsArrive
  GuardAgrees
  CallsArrive
  RecordsArrive
CHECK_DEADLOCK FALSE
