SPECIFICATION FairSpec
CONSTANTS
  Client = {c1}
  Kinds = {"enable", "enableTooBig"}
  Budget = 1
  SeqWrap = 3
  MaxQueued = 2
PROPERTIES
  ParkedReleased
