SPECIFICATION FairSpec
CONSTANTS
  Client = {c1}
  Kinds = {"plain", "enable", "badMinor"}
  Budget = 1
  SeqWrap = 3
  MaxQueued = 3
INVARIANTS
  TypeOK
  FramingAgrees
  InputNotStarved
  NothingLostOrReordered
PROPERTIES
  QueuesDrain
  ParkedReleased
ACTION_CONSTRAINT
  OneBadMinor
