SPECIFICATION QueuesSpec
CONSTANTS
  MaxElements = 4
  SectionSize = 2
  NumSections = 3
  Count = 14
  Uninitialized = Uninitialized
INVARIANTS QueueInv SectionInv
PROPERTIES SimpleImplementsChannel ImplementsChannel
