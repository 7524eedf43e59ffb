SPECIFICATION Spec
CONSTANTS
  Projects = {1}
  Global = 0
  T1 = 0
  T2 = 1
  T3 = 2
  Grace = 0
  MaxDeletions = 1
  Handlers = {h1}
  Dreams = {d1}
  Workload <- Reminding
  Exclusive <- PushAlone
  MaxClock = 5
  MaxPush = 1
  MaxStops = 0
  MaxBadWrites = 0
PROPERTIES
  DestroysCondemned
