CONSTANTS
  c1 = c1  c2 = c2  k1 = k1  k2 = k2  none = none
  login = login  sel = sel  com = com  ins = ins  close = close  quit = quit  big = big  cut = cut
  Conns = {c1}
  Keys = {k1, k2}
  Stmts = {login, sel}
  Login = login
  NoStmt = none
  Scraps <- MCScraps
  Frames <- MCFrames
  Parts <- MCParts
  Cacheable = {sel}
  Loggable = {sel}
  Mute = {}
  Quits = {}
  LookupKey <- MCLookupKey
  StoreKey <- MCStoreKey
  ReadMax = 2
  RemoteCap = 2
  RespCap = 0
  MaxReqs = 2
  TaskCap = 1
  LogCap = 1
  Faults = {"reset"}
  Window = 1
SPECIFICATION Spec
INVARIANTS AssertedWriteSucceeds
