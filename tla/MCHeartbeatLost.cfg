SPECIFICATION Spec
CONSTANTS
  Requests <- OneTick
  Second = 2
  IntLimit = 8
  Size = 2
  Leftovers <- NoLeftover
  MaxClock = 5
  ThreadMayFail = FALSE
INVARIANTS
  EveryTickPrinted
CHECK_DEADLOCK FALSE
