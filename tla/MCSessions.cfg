CONSTANTS
  Jobs <- AllJobs
  MaxJobs = 2
  FdLimit = 12
  Capacity = 2
  ForkMayFail = TRUE
SPECIFICATION MCSpec
INVARIANTS DescriptorsInOrder
PROPERTIES Returns KeepsItsPromise
CHECK_DEADLOCK FALSE
