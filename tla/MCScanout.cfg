SPECIFICATION FairSpec
CONSTANTS
  NumBos = 3
  NumSlots = 3
  Rects = {r1, r2}
  MaxFaults = 1
INVARIANTS
  TypeOK
  PoolsOutliveFrames
  AcksMatchFlips
  DamageCoversScreen
PROPERTIES
  RendersOffScreen
  FlipRetiresItself
  NoHopelessCommit
  FramesAcked
  DamageFlips
