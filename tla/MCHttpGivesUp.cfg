SPECIFICATION MCSpec
CONSTANTS
  Clients = {a}
  Slow = {}
  Faults = FALSE
  Requests <- SampleRequests
  BufSize = 9
  MaxProcesses = 1
  VecSize = 2
  IovMax = 6
PROPERTY GivesUp
CHECK_DEADLOCK FALSE
