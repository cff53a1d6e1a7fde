SPECIFICATION Spec
CONSTANTS
  A = A
  K = K
  N = N
  F1 = F1
  U1 = U1
  a1 = a1
  a2 = a2
  NoSample = NoSample
  Convs = {A, K, N}
  Files = {F1}
  Urls = {U1}
  Sessions <- MCSessions
  DeskBudgets <- MCDeskBudgets
  Agents = {a1, a2}
  Commands = {"c1", "c2"}
  Paths = {"f1"}
  Ports = {80}
  MaxRecent = 2
  MaxEvents = 3
  StoredDocs <- MCDocs
  Tree <- MCTree
  Repos <- MCRepos
  Typed <- MCTyped
  Tasks <- MCTasks
  Proxies = {"", "x"}
  FormPlans <- MCFormPlans
  Roots = {"r", "s"}
  Names = {"n", "m"}
  Queries <- MCQueries
  Recents <- MCRecents
  Launchers <- MCLaunchers
  PickPlans <- MCPickPlans
  Rooms = {0, 1, 3}
  SpawnRows = 2
  Budgets <- MCBudgets
  Payloads = {"p", "q"}
  MaxCopies = 3
  MaxGestures = 3
  Views = {"v", "w"}
  MaxVersion = 3
  Patterns = {"", "x", "y"}
  Hits <- MCHits
  Art = {1, 2}
  ViewPlans <- MCViewPlans
  WebPages = {"https://a", "https://b"}
  AddressOf <- MCAddresses
  MaxClicks = 6
  Cards = {"a", "b", "c"}
  Kin <- MCKin
  StoredStacks <- MCStored
  StackPlans <- MCStackPlans
  SheetTree <- MCSheetTree
  Unreadable <- MCUnreadable
  Texts = {"", "t"}
  SheetProxies = {"", "p"}
  CardPlans <- MCCardPlans
INVARIANTS
  TasksShown
  DeskInv
  ConfigInv
  FormsInv
  TerminalInv
  PanelsTellTrue
  StackInv
PROPERTIES
  PageSteps
CHECK_DEADLOCK FALSE
