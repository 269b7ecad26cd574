SPECIFICATION Spec
CONSTANTS
  a = a
  b = b
  Words = {a, b}
  Paths <- MCPaths
  Files <- MCFiles
  MaxWords = 2
  MaxQueries = 2
INVARIANTS TypeOK IndexExact MergedInOrder AnswerExact
CHECK_DEADLOCK FALSE
