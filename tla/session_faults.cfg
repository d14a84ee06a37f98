CONSTANTS
  c1 = c1  c2 = c2  k1 = k1  k2 = k2  none = none
  login = login  sel = sel  com = com  ins = ins  close = close  quit = quit  big = big  cut = cut
  Conns = {c1}
  Keys = {k1, k2}
  Stmts = {login, sel, com, ins, quit}
  Login = login
  NoStmt = none
  Scraps <- MCScraps
  Frames <- MCFrames
  Parts <- MCParts
  Cacheable = {sel, com}
  Loggable = {sel, com}
  Mute = {}
  Quits = {quit}
  LookupKey <- MCLookupKey
  StoreKey <- MCStoreKey
  ReadMax = 2
  RemoteCap = 2
  RespCap = 0
  MaxReqs = 4
  TaskCap = 1
  LogCap = 1
  Faults = {"redis", "backend", "reset", "short"}
  Window = 1
SPECIFICATION FairSpec
INVARIANTS CacheHoldsWholeReplies
PROPERTIES RequestAnswered RecordsPosted
