SPECIFICATION Spec
CONSTANTS
  N = 4
  Local = 0
  Weights = {1, 2, 4}
  Graphs <- AllGraphs
CHECK_DEADLOCK FALSE
INVARIANTS
  TypeOK
  ShortestFromV0
  SettledAreNearest
  PathsAreTight
