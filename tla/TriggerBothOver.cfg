SPECIFICATION FairSpec
CONSTANTS
  Local = local
  Peers = {p1, p2}
  NoNode = NoNode
  NoReading = NoReading
  Readings <- BothOver
  CandidateSets <- SomeCandidates
  EtcdFails = FALSE
  GraphFails = FALSE
  DnsFails = TRUE
  RedisFails = FALSE
  Replies = {204, 304}
  SampleRounds = 2
  overloadFrequencyThreshold = 2
CHECK_DEADLOCK FALSE
PROPERTIES
  OverloadIsAnswered
