SPECIFICATION FairSpec
CONSTANTS
  Letters <- MCLetters
  MaxLength = 2
  MaxInserts = 3
INVARIANTS TypeOK ListsAscending SearchExact
PROPERTIES ImplementsIndex OperationsEnd
CHECK_DEADLOCK FALSE
