SPECIFICATION Spec
CONSTANTS
  Buffer = 1
  EntryName = {"a", "b"}
  MaxEntries = 3
INVARIANTS
  WholeOrError
  NothingLeft
PROPERTIES
  Finishes
