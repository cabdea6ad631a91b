SPECIFICATION FairSpec
CONSTANTS
  Node = {n1, n2}
  First = n1
  NoNode = NoNode
  Loads <- Extremes
  Crashes = TRUE
  Lossy = TRUE
INVARIANTS
  TypeOK
  NoOutageUnlessCrossed
  DnsFollows
  ChoiceIsOfThisTick
PROPERTIES
  AgentsKeepThePromise
  CmdIsServed
