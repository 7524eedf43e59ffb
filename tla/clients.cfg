SPECIFICATION FairSpec
CONSTANTS
  a = a
  b = b
  Machines = {a, b}
  Namings <- Names
  Projects = {1, 2, 3}
  Uses <- OwnProjects
  Curators = {a, b}
  MaxEntries = 1
  MaxStaged = 2
  MaxFaults = 1
INVARIANTS
  TypeOK
  IdentityAgrees
  Owned
  RoundTrip
PROPERTIES
  Delivered
  Flushed
