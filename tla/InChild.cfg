SPECIFICATION ChildSpec
CONSTANTS
  Buffer = 2
  Options = {1, 4}
  Archive = {0, 1, 5}
INVARIANTS
  WholeOrError
PROPERTIES
  Settles
CHECK_DEADLOCK FALSE
