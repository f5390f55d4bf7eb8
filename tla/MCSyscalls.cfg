CONSTANTS
  Names <- MCNames
  Stored <- MCStored
  Words = {"a"}
  MAX_CHILDREN = 2
  DotDot = ".."
  RootName = "/"
  Readme = "README"
  NoArg = "none"
  FileSize = 1
  MaxNodes = 4
  MayFail = TRUE
  MAX_OPEN_FILES = 2
  EmptyName = ""
  Paths <- MCPaths
  Buffers <- MCBuffers
  ReadSizes = {0, 1, 2, 4}
  Capacity = 2
SPECIFICATION SysSpec
CHECK_DEADLOCK FALSE
INVARIANTS SysTypeOK ReadsWhatWasWritten
PROPERTIES BoundUntilClosed
