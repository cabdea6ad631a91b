SPECIFICATION FairSpec
CONSTANTS
  Root <- XmlRoot
  Kind <- XmlKind
  Children <- XmlChildren
  Parent <- XmlParent
  NoStatus = NoStatus
INVARIANTS
  TreeTypeOK
  TickReturnsVerdict
  NoLeafTwice
  TicksStartFresh
PROPERTIES
  TicksEnd
