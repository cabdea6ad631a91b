SPECIFICATION FairSpec
CONSTANTS
  N = 4
  Local = 1
  Weights = {2}
  Graphs <- AllGraphs
  Readings <- SomeReadings
  EtcdFails = TRUE
  NULL = NULL
CHECK_DEADLOCK FALSE
INVARIANTS
  TypeOK
  ListIsOrdered
  NothingDeleted
  CrashesOnlyWithoutCandidate
  ChoiceIsOptimal
  ReachableIsPreferred
PROPERTIES
  SelectionEnds
  ImplementsChoice
