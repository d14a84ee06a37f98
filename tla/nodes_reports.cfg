CONSTANTS
  s1 = s1  s2 = s2  h1 = h1  h2 = h2
  Servers = {s1, s2}
  Handlers = {h1, h2}
  Patterns <- MCPatterns
  Lease = 1
  Nap = 1
  MaxExecs = 2
  Flaky = {s2}
  NodeFaults = {"db", "crash"}
SPECIFICATION FairSpec
INVARIANTS TypeOK CountedOnce LeaseUnderLock
PROPERTIES ImplementsQueue LeaseOnlyRenewed ReportServed ExpiredForgotten
