SPECIFICATION MCSpec
CONSTANTS
  Clients = {a, b, c}
  Slow = {a}
  Faults = TRUE
  Requests <- SampleRequests
  BufSize = 9
  MaxProcesses = 5
  VecSize = 2
  IovMax = 6
INVARIANTS
  WaitNeverBlocks
  AnswersTheRequest
  PageWhole
  
PROPERTIES
  LetGo
  EndsAtBlankLine
CHECK_DEADLOCK FALSE
