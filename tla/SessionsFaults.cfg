SPECIFICATION Spec
CONSTANTS
  i1 = i1
  i2 = i2
  i3 = i3
  x = x
  xs = xs
  NoName = NoName
  NoParent = NoParent
  Ids = {i1, i2, i3}
  Names = {x, xs}
  Trim <- TrimXs
  DiskFaults = TRUE
  SlowDaemons = FALSE
  TodoWrites = FALSE
SYMMETRY Symmetry
INVARIANTS
  FInv
  NamesResolve
  NestsOneLevel
CHECK_DEADLOCK FALSE
