SPECIFICATION Spec
CONSTANTS
  NumValues = 4
  NumThreads = 2
  ErrorsAt = {1}
  MaxRetries = 2
  NTimes = 1
  IntMax = 7
PROPERTIES BothDecide
CHECK_DEADLOCK FALSE
