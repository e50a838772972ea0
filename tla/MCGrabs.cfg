SPECIFICATION Spec
CONSTANTS
  Client = {a, b}
  Key = {k}
  None = None
  MaxHeld = 2
INVARIANTS
  GrabsAgree
  Thawable
  NothingStranded
PROPERTIES
  KeysOnce
  LetsGo
SYMMETRY Alike
VIEW Ahead
CONSTRAINT Smaller
