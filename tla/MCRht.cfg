SPECIFICATION Spec
CONSTANTS
  QueueSize = 3
  Rows = 3
  Cols = 7
  MaxFaults = 2
  NoResult = NoResult
  Product <- MCProduct
  PartialSum <- MCPartialSum
  Corruptions <- MCCorruptions
INVARIANTS TypeOK AlarmIsRight BatchesAreSafe
PROPERTIES NoOverwrite ImplementsReplicatedRows Terminates SoftErrorDetected
