SPECIFICATION MCSpec
CONSTANTS
  Numerals = {0, 11}
  UIntMax = 7
  MaxTokens = 5
  Clients = {a, b, c}
  Quitters = {b}
  Slow = {c}
  Procs = {p, q, r}
  Lines = 3
  Capacity = 2
  Count = 3
  Width = 8
  MaxCalls = 5
  Accounts = {x, y}
  Tellers = {t, u}
  Money = 4
  Balances = {0, 4}
  Amounts <- SomeAmounts
  Precision = 2
  MaxThreads = 3
  Ports = {80, 65616}
  PortRange = 65536
  MaxWords = 3
INVARIANTS
  RightAnswer
  MutualExclusion
  WholeOrError
  MoneyConserved
  LeavesNothing
  DoesAsTold
PROPERTIES
  TextsPrinted
  WaitersGetIn
  EveryLinePrinted
CHECK_DEADLOCK FALSE
