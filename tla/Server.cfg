SPECIFICATION Spec
CONSTANTS
  Tracked = {"1", "2"}
  Untracked = {"6"}
  PendingCap = 6
  HistoryMax = 3
  ModePlans <- MCModePlans
  Stale = 2
  Lodgers = {"m", "c"}
  MaxHooks = 4
  Peers = {"p", "q"}
  Limit = 2
  Window = 2
  Lifetime = 2
  MaxTime = 3
  MaxAttempts = 4
  MaxLives = 1
  Calls = {"c", "d"}
  TurnCap = 2
  TurnTexts = 1
  MaxPosts = 1
  MaxDeaths = 1
  MaxStarts = 2
  Jobs = {"j", "k"}
  Deaf = {"leader", "j"}
INVARIANTS
  ModesTracked
  ActivityTold
  LoginInv
  TurnsInv
  DaemonInv
PROPERTIES
  KillEnds
CHECK_DEADLOCK FALSE
