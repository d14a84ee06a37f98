CONSTANTS
  s1 = s1  s2 = s2  h1 = h1  h2 = h2
  Servers = {s1}
  Handlers = {h1, h2}
  Patterns <- MCPatterns
  Lease = 2
  Nap = 1
  MaxExecs = 1
  Flaky = {}
  NodeFaults = {}
SPECIFICATION FairSpec
PROPERTIES AliveNodesKept
