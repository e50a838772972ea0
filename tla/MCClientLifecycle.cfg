SPECIFICATION Spec
CONSTANTS
  Conn = {c1, c2}
  NumBases = 2
  MaxPending = 2
INVARIANTS
  BasesExclusive
  NoOrphanResources
  ShutdownReachesSetup
  IndInv
CHECK_DEADLOCK FALSE
