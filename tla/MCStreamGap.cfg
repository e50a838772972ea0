SPECIFICATION Spec
CONSTANTS
  Sizes = {1, 2, 4}
  KernelCap = 3
  OutboundCap = 4
  MaxUnits = 12
PROPERTIES
  NoGapSpec
CHECK_DEADLOCK FALSE
