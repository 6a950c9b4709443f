SPECIFICATION Spec
CONSTANTS
  Name <- MCName
  MaxLinks = 1
  MaxSteps = 3
  NoLchown = FALSE
  InUserNS = FALSE
  MapSize = 0
  MapOffset = 0
  Clock = 95
  Second = 10
  Rank <- MCRank
  Cases <- MCCases
INVARIANTS
  TypeOK
  ArchivesWhatIsAsked
  WholeOrError
  LinksToReceived
PROPERTIES
  Finishes
