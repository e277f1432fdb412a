SPECIFICATION MCSpec
CONSTANTS
  Requests <- Ordinary
  Second = 2
  IntLimit = 8
  Size = 2
  Leftovers <- Leftover
  MaxClock = 5
  ThreadMayFail = TRUE
  Sections = 4
  Memfo = 3
  Numbers <- MCNumbers
  Live <- MCLive
  Paths = {"a", "b"}
  Shells = {s1, s2, s3}
  Chunks = 2
  MaxLines = 2
INVARIANTS
  PrintsTheTicks
  TicksOnTime
  PrintsFinishedBuffers
  MovesAndSignals
PROPERTIES
  Returns
  BothReturn
  SystatReturns
CHECK_DEADLOCK FALSE
