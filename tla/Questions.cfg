SPECIFICATION AskSpec
CONSTANTS
  Browsers = {b1}
  Nobody = Nobody
  RingMax = 1
  HistMax = 2
  DaemonCap = 1
  WsCap = 1
  MaxOut = 1
  MaxSpawns = 1
  MaxInject = 1
  MaxRestarts = 1
  MaxDrops = 2
  MaxReloads = 1
INVARIANTS
  EventsInOrder
  RepeatsOnlyReplay
  FreshIsComplete
  AskInv
CHECK_DEADLOCK FALSE
