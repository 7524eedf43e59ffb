SPECIFICATION Spec
CONSTANTS
  Projects = {1}
  Global = 0
  T1 = 0
  T2 = 1
  T3 = 2
  Grace = 0
  MaxDeletions = 1
  Handlers = {h1}
  Dreams = {d1}
  Workload <- AllOperations
  Exclusive <- AllOperations
  MaxClock = 4
  MaxPush = 3
  MaxStops = 2
  MaxBadWrites = 1
INVARIANTS
  NoLoss
  RemindFresh
  RepairComplete
  LinesLead
