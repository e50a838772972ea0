SPECIFICATION Spec
CONSTANTS
  a = a
  b = b
  w1 = w1
  w2 = w2
  w3 = w3
  Window = {w1, w2, w3}
  Client = {a, b}
  OwnerOf <- OwnerOfThree
  Root = Root
  Cow = Cow
  None = None
  PointerRoot = PointerRoot
  MaxClaims = 2
CONSTRAINT Smaller
SYMMETRY AlikeWindows
INVARIANTS
  TypeOK
  TreeConsistent
PROPERTIES
  CowStaysOnTop
  MapReveals
  OneMovesAtATime
  LeavesNothing
  TargetsSurvive
  FocusMovesToViewable
