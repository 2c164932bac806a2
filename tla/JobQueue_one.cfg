SPECIFICATION Spec
CONSTANTS
  Jobs = {j1}
  Primary = {j1}
  Workers = {w1, w2}
  Callers = {c1}
  Sweeper = Sweeper
  Main = Main
  NoJob = NoJob
  MaxAttempts = 2
  MaxCrashes = 1
  MaxStops = 1
  MaxRetries = 2
  MaxFaults = 1
  MaxSpoilt = 2
CHECK_DEADLOCK FALSE
INVARIANTS
  IInv
  DoneAssetIsReady
  ExclusiveExecution
  InflightNeverLeaks
  RepeatsHaveACause
PROPERTY KeepsPromise
