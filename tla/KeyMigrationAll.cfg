SPECIFICATION Spec
CONSTANTS
  Hosts = {h1, h2}
  Keys = {k1, k2}
  NoHost = NoHost
  NoKey = NoKey
  Faults = FALSE
  WritesDuringCopy = FALSE
  MaxOpen = 4
  MaxWrites = 2
  MaxCopies = 2
CHECK_DEADLOCK FALSE
INVARIANTS
  AllDataMigrated
