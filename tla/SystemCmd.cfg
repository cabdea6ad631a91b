SPECIFICATION Spec
CONSTANTS
  Node = {n1, n2}
  First = n1
  NoNode = NoNode
  Loads <- Extremes
  Crashes = FALSE
  Lossy = FALSE
PROPERTY
  CmdMigrates
