SPECIFICATION Spec
CONSTANTS
  NumValues = 3
  MaxAborts = 2
  NumResults = 2
  MaxCoreFaults = 1
  MaxThreads = 2
  Handles = {h1, h2}
PROPERTIES MainFinishes
CHECK_DEADLOCK FALSE
