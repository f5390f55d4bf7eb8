CONSTANTS
  Half = 128
  BufferSize = 5
  Calls <- MCCalls
  Cells = 6
  Lines <- MCLines
  Paths <- MCPaths
  PathSize = 8
  NameSize = 7
SPECIFICATION LibrarySpec
INVARIANTS StdioTypeOK NumeralsReadBack CopiesAtOnce TokensAreWords SplitRejoins
