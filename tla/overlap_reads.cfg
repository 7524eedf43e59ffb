SPECIFICATION Spec
CONSTANTS
  Projects = {1}
  Global = 0
  T1 = 0
  T2 = 1
  T3 = 2
  Grace = 0
  MaxDeletions = 1
  Handlers = {h1, h2}
  Dreams = {d1}
  Workload <- Requests
  Exclusive <- AllButReads
  MaxClock = 4
  MaxPush = 3
  MaxStops = 1
  MaxBadWrites = 0
SYMMETRY TwoHandlers
INVARIANTS
  NoLoss
  RemindFresh
  InitComplete
