SPECIFICATION ProgramSpec
CONSTANTS
  NumRuns = 5
  MaxFaults = 2
  Schedules <- MCSchedules
  NumValues = 5
  MaxAborts = 2
  NumResults = 2
  MaxCoreFaults = 1
  MaxThreads = 3
  Handles = {h1, h2, h3, h4}
INVARIANTS MatrixDriverInv AffinityInv AddedIsRight AtomicOpsInv IndexInv
PROPERTIES AffinityEnds AtomicOpsEnds
CHECK_DEADLOCK FALSE
