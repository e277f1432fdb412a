SPECIFICATION Spec
CONSTANTS
  Count = 3
  Width = 8
  MaxCalls = 5
INVARIANTS
  WritesAll
CHECK_DEADLOCK FALSE
