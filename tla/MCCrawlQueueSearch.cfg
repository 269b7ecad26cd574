SPECIFICATION Spec
CONSTANTS
  p1 = p1
  p2 = p2
  p3 = p3
  NoName = NoName
  Pages <- MCPages
  Start = p1
  Links <- MCLinks
  Exists = {p1, p2}
  CutNames = {p3}
  Threads = {t1, t2}
  NoPage = NoPage
  Free = Free
INVARIANT SearchOnlyWhenDone
CHECK_DEADLOCK FALSE
