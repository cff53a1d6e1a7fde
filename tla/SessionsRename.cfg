SPECIFICATION Spec
CONSTANTS
  i1 = i1
  i2 = i2
  x = x
  xs = xs
  y = y
  NoName = NoName
  NoParent = NoParent
  Ids = {i1, i2}
  Names = {x, xs, y}
  Trim <- TrimXs
  DiskFaults = TRUE
  SlowDaemons = FALSE
  TodoWrites = FALSE
PROPERTIES
  RenameSparesOthers
CHECK_DEADLOCK FALSE
