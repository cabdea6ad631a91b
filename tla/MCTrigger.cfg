SPECIFICATION FairSpec
CONSTANTS
  Local = local
  Peers = {p1, p2}
  NoNode = NoNode
  NoReading = NoReading
  Readings <- AllReadings
  CandidateSets <- AnyCandidates
  EtcdFails = TRUE
  GraphFails = TRUE
  DnsFails = TRUE
  RedisFails = TRUE
  Replies = {204, 304, 500, 0}
  SampleRounds = 2
  overloadFrequencyThreshold = 2
CHECK_DEADLOCK FALSE
INVARIANTS
  TypeOK
  FreshAtUse
  StartsOnlyUnderLastingOverload
  NoOutage
  SuccessNamesTheOneStarted
PROPERTIES
  StopsOnlyWhenReplaced
  ImplementsHandover
  ImplementsChoice
  DistributedIsAnswered
  OneOverIsAnswered
