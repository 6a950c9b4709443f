SPECIFICATION Spec
CONSTANTS
  Name <- MCName
  MaxLinks = 2
  MaxSteps = 8
  NoLchown = FALSE
  InUserNS = FALSE
  MapSize = 2
  MapOffset = 10
  Clock = 9
  Layer <- MCLayer
  MaxEntries = 3
  Lowers <- MCLowers
  TempName = "t"
  Faults = TRUE
  MaxRemovals = 1
  RemovedAt = {"read", "plnk", "implied", "apply", "create", "times", "cleanup"}
INVARIANTS
  TypeOK
  TempDirGone
PROPERTY
  LowerHidden
