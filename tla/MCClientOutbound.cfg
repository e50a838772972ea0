SPECIFICATION FairSpec
CONSTANTS
  Sizes = {1, 2, 4}
  KernelCap = 3
  OutboundCap = 4
  MaxUnits = 12
INVARIANTS
  WholeInOrder
  BacklogBounded
PROPERTIES
  StreamSpec
  TailGoesOut
CHECK_DEADLOCK FALSE
