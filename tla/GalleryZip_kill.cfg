SPECIFICATION ZipSpec
CONSTANTS
  Assets = {a1}
  Builds = {j1, j2}
  Clients = {c1, c2}
  PoolSize = 2
  MaxTries = 1
  MaxRev = 2
  MaxCrashes = 1
  None = None
CHECK_DEADLOCK FALSE
INVARIANTS
  IInv
  NoDeletedPhoto
  HalfBuiltOnlyIfTwins
PROPERTY WaitEnds
