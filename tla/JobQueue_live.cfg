SPECIFICATION FairSpec
CONSTANTS
  Jobs = {j1}
  Primary = {j1}
  Workers = {w1, w2}
  Callers = {c1}
  Sweeper = Sweeper
  Main = Main
  NoJob = NoJob
  MaxAttempts = 2
  MaxCrashes = 1
  MaxStops = 1
  MaxRetries = 1
  MaxFaults = 0
  MaxSpoilt = 0
CHECK_DEADLOCK FALSE
PROPERTIES EveryJobSettles InflightDrains
