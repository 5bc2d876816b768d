SPECIFICATION Spec
CONSTANTS
  N = 4
  Room = 5
INVARIANTS
  UsedPagesAreBacked
  BlocksAreWhole
PROPERTIES
  AbsSpec
