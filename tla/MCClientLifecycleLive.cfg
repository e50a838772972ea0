SPECIFICATION FairSpec
CONSTANTS
  Conn = {c1, c2}
  NumBases = 1
  MaxPending = 1
PROPERTIES
  LeaseSpec
  ClosedPeerRemoved
  ReadersEnd
  RegistryDrains
CHECK_DEADLOCK FALSE
