SPECIFICATION Spec
CONSTANTS
  QueueSize = 3
  Rows = 1
  Cols = 5
  MaxFaults = 1
  NoResult = NoResult
  Product <- MCProduct
  PartialSum <- MCPartialSum
  Corruptions <- SentinelCorruptions
PROPERTY SoftErrorDetected
\* Both threads spin: the system stops here, and that is what the run shows.
CHECK_DEADLOCK FALSE
