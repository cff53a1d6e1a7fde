SPECIFICATION FairSpec
CONSTANTS
  Browsers = {b1}
  b1 = b1
  Nobody = Nobody
  RingMax = 1
  HistMax = 2
  DaemonCap = 1
  WsCap = 1
  MaxOut = 2
  MaxSpawns = 2
  MaxRestarts = 1
  MaxDrops = 1
  MaxRemounts = 0
PROPERTIES
  CatchesUp
CHECK_DEADLOCK FALSE
