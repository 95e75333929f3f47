SPECIFICATION Spec
CONSTANTS
  NumValues = 5
  NumThreads = 2
  ErrorsAt = {1, 2, 5}
  MaxRetries = 2
  NTimes = 2
  IntMax = 7
INVARIANTS LockstepInv ReplicaInStep BarrierSyncInv AtomicityInv RetryInv PassesIffNothingReported
PROPERTIES ErrorIsNoticed Terminates TestEnds
CHECK_DEADLOCK FALSE
