SPECIFICATION Spec
CONSTANTS
  i1 = i1
  i2 = i2
  x = x
  xs = xs
  NoName = NoName
  NoParent = NoParent
  Ids = {i1, i2}
  Names = {x, xs}
  Trim <- TrimXs
  DiskFaults = FALSE
  SlowDaemons = TRUE
  TodoWrites = TRUE
SYMMETRY Symmetry
INVARIANTS
  EveryChatAddressable
  NoOrphans
  RemovedForGood
PROPERTIES
  BookSpec
CHECK_DEADLOCK FALSE
