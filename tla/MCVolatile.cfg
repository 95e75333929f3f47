SPECIFICATION Spec
CONSTANTS
  QueueSize = 3
  Rows = 3
  Cols = 5
  MaxFaults = 2
  NoResult = NoResult
  Product <- MCProduct
  PartialSum <- MCPartialSum
  Corruptions <- MCCorruptions
INVARIANTS TypeOK AlarmIsRight OneSlotFree
PROPERTIES ImplementsReplicatedRows
