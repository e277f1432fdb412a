SPECIFICATION MCSpec
CONSTANTS
  Lines <- AllLines
  Faults <- Everything
  Sessions <- TypedSessions
  Block = 2
  MaxBlocks = 3
  ReallocMayFail = TRUE
  Inputs = {0, 1, 4}
  ReadAhead = 3
  MaxReads = 6
INVARIANTS
  FreesItsOwn
  NoOutputTwice
  OnlyExitEnds
  OnlyBadLinesCrash
  DeliversTheLines
  LinesInTurn
PROPERTIES
  BackToPrompt
CHECK_DEADLOCK FALSE
