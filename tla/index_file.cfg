SPECIFICATION IndexSpec
CONSTANTS
  Mems = {"m1", "m2", "m3"}
  Descriptions <- SomeDescriptions
  HookMax = 2
  MaxWrites = 4
  MaxStops = 1
INVARIANTS
  WellFormed
PROPERTIES
  IndexAtomic
  BackedUp
CHECK_DEADLOCK FALSE
