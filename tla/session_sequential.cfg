CONSTANTS
  c1 = c1  c2 = c2  k1 = k1  k2 = k2  none = none
  login = login  sel = sel  com = com  ins = ins  close = close  quit = quit  big = big  cut = cut
  Conns = {c1, c2}
  Keys = {k1, k2}
  Stmts = {login, sel, com, quit}
  Login = login
  NoStmt = none
  Scraps <- MCScraps
  Frames <- MCFrames
  Parts <- MCParts
  Cacheable = {sel, com}
  Loggable = {sel, com}
  Mute = {}
  Quits = {quit}
  LookupKey <- MCLookupKey
  StoreKey <- MCStoreKey
  ReadMax = 2
  RemoteCap = 2
  RespCap = 0
  MaxReqs = 3
  TaskCap = 1
  LogCap = 1
  Faults = {}
  Window = 1
SPECIFICATION Spec
INVARIANTS FlushedReplyIsWhole ProcessSurvives
PROPERTIES ImplementsQueryService
SYMMETRY SessionSymmetry
