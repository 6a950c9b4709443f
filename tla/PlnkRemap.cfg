SPECIFICATION Spec
CONSTANTS
  Name <- MCName
  MaxLinks = 2
  MaxSteps = 8
  NoLchown = FALSE
  InUserNS = FALSE
  MapSize = 2
  MapOffset = 10
  Clock = 9
  Layer <- PlnkLayer
  MaxEntries = 3
  Lowers <- PlnkLowers
  TempName = "t"
  Faults = FALSE
  MaxRemovals = 0
  RemovedAt = {"read"}
INVARIANT
  PlnkLinksApply
