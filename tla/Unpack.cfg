SPECIFICATION Spec
CONSTANTS
  Name <- MCName
  MaxLinks = 2
  MaxSteps = 8
  NoLchown = FALSE
  InUserNS = FALSE
  MapSize = 2
  MapOffset = 0
  Clock = 9
  Calls <- MCCalls
  MaxEntries = 3
  Excluded <- MCExcluded
  Faults = TRUE
  MaxRemovals = 1
INVARIANTS
  TypeOK
  DirsKept
  DirTimesRestored
PROPERTY
  UnpacksAsLayer
