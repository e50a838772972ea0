SPECIFICATION Spec
CONSTANTS
  NumBos = 3
  NumSlots = 3
  Rects = {r1}
  MaxFaults = 0
INVARIANT NoSlotLost
