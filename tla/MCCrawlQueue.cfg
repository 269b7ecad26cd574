SPECIFICATION FairSpec
CONSTANTS
  p1 = p1
  p2 = p2
  p3 = p3
  NoName = NoName
  Pages <- MCPages
  Start = p1
  Links <- MCLinks
  Exists = {p1, p2}
  CutNames = {p3}
  Threads = {t1, t2, t3}
  NoPage = NoPage
  Free = Free
INVARIANTS TypeOK JobsCounted SomeoneAwake GateOpensWhenDone CrawlExact
PROPERTIES ImplementsHandoff CrawlEnds
CHECK_DEADLOCK FALSE
