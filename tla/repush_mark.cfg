SPECIFICATION Spec
CONSTANTS
  Projects = {1}
  Global = 0
  T1 = 0
  T2 = 1
  T3 = 2
  Grace = 0
  MaxDeletions = 1
  Handlers = {h1}
  Dreams = {d1}
  Workload <- Repushing
  Exclusive <- AllOperations
  MaxClock = 6
  MaxPush = 2
  MaxStops = 0
  MaxBadWrites = 0
INVARIANTS
  FreshMark
