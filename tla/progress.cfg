SPECIFICATION FairSpec
CONSTANTS
  Projects = {1, 2}
  Global = 0
  T1 = 0
  T2 = 1
  T3 = 2
  Grace = 0
  MaxDeletions = 1
  Handlers = {h1}
  Dreams = {d1}
  Workload <- Aging
  Exclusive <- AllOperations
  MaxClock = 4
  MaxPush = 2
  MaxStops = 1
  MaxBadWrites = 1
INVARIANTS
  IndexVisible
  ScanClean
PROPERTIES
  Lifecycle
  Progress
  DestroysCondemned
