CONSTANTS
  Names <- MCNames
  Stored <- MCStored
  Words = {"a", "a..."}
  MAX_CHILDREN = 3
  DotDot = ".."
  RootName = "/"
  Readme = "README"
  NoArg = "none"
  FileSize = 1
  MaxNodes = 6
  MayFail = TRUE
SPECIFICATION Spec
CHECK_DEADLOCK FALSE
INVARIANTS TypeOK TreeConsistent RemovalMatchesLoop CreatedUnlessFull
PROPERTIES Contract
