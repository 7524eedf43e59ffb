SPECIFICATION Spec
CONSTANTS
  a = a
  b = b
  Machines = {a, b}
  Namings <- TwoAgents
  Projects = {1}
  Uses <- SameProject
  Curators = {}
  MaxEntries = 1
  MaxStaged = 2
  MaxFaults = 0
INVARIANTS
  Owned
CHECK_DEADLOCK FALSE
