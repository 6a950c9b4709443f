SPECIFICATION Spec
CONSTANTS
  Name <- MCName
  MaxLinks = 4
  MaxSteps = 10
  NoLchown = FALSE
  InUserNS = FALSE
  MapSize = 0
  MapOffset = 0
  Clock = 95
  Second = 10
  Rank <- MCRank
  maxSymlinkIter = 1
  Tree <- MCTree
  Copies <- MCCopies
INVARIANTS
  PlacedLikeCp
  WholeOrError
PROPERTIES
  Finishes
