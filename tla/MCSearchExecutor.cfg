SPECIFICATION FairSpec
CONSTANTS
  MaxWorkers = 2
  NoDirs = 3
  Numbers = {4}
  Results <- MCResults
  MaxQueries = 3
  MaxSessions = 2
  PipeSize = 2
INVARIANTS TypeOK LagIsMissedDeadlines EveryDirectoryIndexed
PROPERTY EveryQueryConcluded
CHECK_DEADLOCK FALSE
