SPECIFICATION FairSpec
CONSTANTS
  MaxLines = 3
  Capacity = 1
  MaxOutput = 2
INVARIANTS
  CleanPrompt
PROPERTIES
  LineEnds
CHECK_DEADLOCK FALSE
