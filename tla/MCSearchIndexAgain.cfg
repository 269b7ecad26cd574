SPECIFICATION Spec
CONSTANTS
  a = a
  b = b
  Words = {a, b}
  Paths <- MCPaths
  Files <- MCFiles
  MaxWords = 2
  MaxQueries = 2
INVARIANT QueriesKeepIndex
CHECK_DEADLOCK FALSE
