SPECIFICATION MCSpec
CONSTANTS
  Jobs = {j1, j2, j3}
  Workers = {w1, w2}
  Producers = {p1, p2}
  None = None
  Waiters = {a, b}
  MaxSets = 3
INVARIANTS
  EachJobOnce
  WorksWhenSet
PROPERTIES
  NoneLeft
  WorkGoesOn
CHECK_DEADLOCK FALSE
