CONSTANTS
  PAGE = 4
  PT = 8
  KernelTables = 4
  IOPage = 4
  ExtPage = 5
  Images = {28, 29, 31, 32}
  ExtSizes = {88, 95, 98, 108}
  EnvsSize = 6
  DiskSize = 5
SPECIFICATION BootSpec
INVARIANTS
  BlocksDisjoint
  KernelFindsItself
  FreeListIsTheRest
