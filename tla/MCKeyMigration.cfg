SPECIFICATION FairSpec
CONSTANTS
  Hosts = {h1, h2}
  Keys = {k1, k2}
  NoHost = NoHost
  NoKey = NoKey
  Faults = TRUE
  WritesDuringCopy = TRUE
  MaxOpen = 4
  MaxWrites = 3
  MaxCopies = 3
CHECK_DEADLOCK FALSE
INVARIANTS
  TypeOK
  NothingInvented
  QuietCopyIsComplete
  QuietCopyClosesAll
  UndisturbedKeysArrive
PROPERTIES
  CopyReturns
