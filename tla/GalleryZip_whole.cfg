SPECIFICATION Spec
CONSTANTS
  Assets = {a1}
  Builds = {j1, j2}
  Clients = {c1}
  PoolSize = 2
  MaxTries = 1
  MaxRev = 2
  MaxCrashes = 0
  None = None
CHECK_DEADLOCK FALSE
INVARIANT ArchiveIsComplete
