SPECIFICATION Spec
CONSTANTS
  Name <- MCName
  MaxLinks = 3
  MaxSteps = 20
  Trees <- MCTrees
  Paths <- MCPaths
  MaxChanges = 1
INVARIANTS
  TypeOK
  NoSymlinkLeft
  WalkIsResolution
  EscapeClassified
  ResolvesLikeChroot
PROPERTY
  Terminates
