CONSTANTS
  Jobs <- BigOutput
  MaxJobs = 1
  FdLimit = 8
  Capacity = 2
  ForkMayFail = FALSE
SPECIFICATION Spec
PROPERTY Returns
CHECK_DEADLOCK FALSE
