SPECIFICATION Spec
CONSTANTS
  Name <- MCName
  MaxLinks = 2
  MaxSteps = 8
  NoLchown = FALSE
  InUserNS = FALSE
  MapSize = 0
  MapOffset = 0
  Clock = 9
  Layer <- MCLayer
  MaxEntries = 3
  Lowers <- MCLowers
  TempName = "t"
  Faults = TRUE
  MaxRemovals = 1
  RemovedAt = {"read"}
INVARIANTS
  DirTimesRestored
PROPERTY
  AppliesAsLayer
