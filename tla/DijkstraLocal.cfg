SPECIFICATION Spec
CONSTANTS
  N = 3
  Local = 1
  Weights = {1, 2}
  Graphs <- AllGraphs
CHECK_DEADLOCK FALSE
INVARIANTS
  DistancesAreFromLocal
