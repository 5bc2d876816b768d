SPECIFICATION Spec
CONSTANTS
  Frames = {f0, f1, f2}
  Frame0 = f0
  None = None
  BootTable = BootTable
  PT = 4
  Pages <- MCPages
  BootTables = {0}
  ShareSizes = {0, 2}
  MaxRefs = 2
  MaxCommands = 3
  RefMod = 4
SYMMETRY FrameSymmetry
INVARIANTS
  NoFreeFrameInUse
  SharedRangesTranslateAlike
PROPERTIES
  LostOnlyInFailures
  CountsFollowUses
