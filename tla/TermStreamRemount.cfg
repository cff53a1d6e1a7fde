SPECIFICATION Spec
CONSTANTS
  Browsers = {b1}
  b1 = b1
  Nobody = Nobody
  RingMax = 1
  HistMax = 2
  DaemonCap = 2
  WsCap = 1
  MaxOut = 4
  MaxSpawns = 1
  MaxRestarts = 0
  MaxDrops = 1
  MaxRemounts = 1
PROPERTIES
  ScreenSpec
CHECK_DEADLOCK FALSE
