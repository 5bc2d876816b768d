SPECIFICATION Spec
CONSTANTS
  CONSBUFSIZE = 3
  CRT_COLS = 2
  CRT_ROWS = 3
  SerialData = {"NO", "y", "z"}
  KeySets = {{"lctl", "rctl", "lalt", "del", "point"}, {"rctl", "lalt", "ralt", "del"},
             {"lshift", "rshift", "caps", "a"}, {"lshift", "rctl", "a"}}
  MaxUnread = 4
  PaperRows = 6
INVARIANTS
  BufferHoldsNewest
  ModifiersAreHeld
  ScreenIsWindow
PROPERTIES
  RebootNeedsCtlAltDel
