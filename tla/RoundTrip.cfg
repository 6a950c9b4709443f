SPECIFICATION Spec
CONSTANTS
  Name <- MCName
  MaxLinks = 2
  MaxSteps = 8
  NoLchown = FALSE
  InUserNS = FALSE
  MapSize = 2
  MapOffset = 20
  Clock = 95
  Second = 10
  Lowers <- MCLowers
  Cases <- MCCases
  Rank <- MCRank
  MaxEntries = 6
  TempName = "t"
INVARIANTS
  TypeOK
  RoundTrip
  LinksKept
  OnlyDirsFail
  WholeApplies
