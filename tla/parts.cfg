SPECIFICATION PartsSpec
CONSTANTS
  Groups <- MCGroups
  Mapping <- MCMapping
  Callers <- MCCallers
  Writers = {"w1", "w2", "long"}
  Oversized = {"long"}
  Readers = {"r1", "r2"}
  StoreOf <- MCStoreOf
  Nobody = Nobody
  MaxStoreDeaths = 1
  ToolCalls = {"c1", "c2", "c3"}
  BearerOf <- MCBearerOf
  AccountsOf <- MCAccountsOf
  GroupsIn <- MCGroupsIn
  DefaultGroups = {"SRE"}
  Required <- MCRequired
  Accounts = {"111", "222"}
  NoClient = NoClient
  TokenLife = 2
  MaxTime = 4
  MaxMoves = 1
  Sizes = {1, 2}
  Endings <- MCEndings
  WaitsFor = {"ContainerCreating", "ErrImagePull", "CreateContainerConfigError", "InvalidImageName"}
  MaxEndings = 2
  Jobs = {j1}
  Raisers = {a1, a2}
  Original = 3
  Limits = {4}
  MaxTouches = 1
INVARIANTS PartsTypeOK
  RulesAreDisjoint GateCoversLadder MoreGroupsRunMore RunsAreEntitled
  ReadsMissNothing ReadersAreUndisturbed
  OneClient ReachIsInScope TokenOutlivesRequest
  ScanReportsTheUnhealthy DiagnosisFitsScan
  DownIsAccountedFor RaisesAreKept
PROPERTIES FileImplementsStore
CHECK_DEADLOCK FALSE
