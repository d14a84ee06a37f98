CONSTANTS
  q1 = q1  q2 = q2  a = a  b = b
  Ids = {1, 2}
  Stmts = {q1, q2}
  Templates <- MCTemplates
  Durations = {60, 90}
  Junk = 7
  Sessions = {a}
  MinCap = 1
  MaxEdits = 3
  MetaFaults = {"conn", "query"}
SPECIFICATION FairSpec
INVARIANTS TypeOK LookupSeesOneRefresh
PROPERTIES EditsReachSessions
