CONSTANTS
  k1 = k1  s1 = s1  s2 = s2
  Keys = {k1}
  Sessions = {s1, s2}
  TaskCap = 1
  LogCap = 1
  Faults = {"redis"}
  Rules = {1, 3}
  Floor = 2
  MaxChanges = 1
  Cap = 5
SPECIFICATION FairSpec
INVARIANTS TypeOK StaleWithinBounds
PROPERTIES StaleReadsEnd
