SPECIFICATION TablesSpec
CONSTANTS
  N = 3
  Frames = {f1, f2, f3, f4, f5}
  NoFrame = NoFrame
  Entries = {d1, d2}
  Slots = {i1, i2}
SYMMETRY Symmetry
INVARIANTS
  ProcessorSeesMappings
  TablesStayApart
  HeapIsOwned
PROPERTIES
  StopsOnlyForTables
CHECK_DEADLOCK FALSE
