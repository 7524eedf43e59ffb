SPECIFICATION Spec
CONSTANTS
  Projects = {1}
  Global = 0
  T1 = 0
  T2 = 0
  T3 = 0
  Grace = 0
  MaxDeletions = 1
  Handlers = {h1}
  Dreams = {d1}
  Workload <- Alterations
  Exclusive <- Nothing
  MaxClock = 2
  MaxPush = 3
  MaxStops = 1
  MaxBadWrites = 0
INVARIANTS
  TypeOK
  PinnedSafe
PROPERTIES
  GraceClock
