SPECIFICATION Spec
CONSTANTS
  Browsers = {b1}
  b1 = b1
  Nobody = Nobody
  RingMax = 1
  HistMax = 2
  DaemonCap = 2
  WsCap = 1
  MaxOut = 3
  MaxSpawns = 2
  MaxRestarts = 1
  MaxDrops = 1
  MaxRemounts = 0
INVARIANTS
  PaintedInOrder
  OverlapOnlyWithReplay
  ClaimIsTrue
  SettledIsComplete
PROPERTIES
  ScreenSpec
CHECK_DEADLOCK FALSE
