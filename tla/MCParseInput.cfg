CONSTANTS
  MaxLen = 7
  Lines <- MCLines
SPECIFICATION Spec
INVARIANTS ExactlyEnough ParsesTheLine
CHECK_DEADLOCK FALSE
