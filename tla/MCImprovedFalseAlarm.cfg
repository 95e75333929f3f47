SPECIFICATION Spec
CONSTANTS
  QueueSize = 3
  Rows = 1
  Cols = 7
  MaxFaults = 0
  NoResult = NoResult
  Product <- MCProduct
  PartialSum <- MCPartialSum
  Corruptions <- MCCorruptions
INVARIANT NoFalseAlarm
