SPECIFICATION FairSpec
CONSTANTS
  c1 = c1
  c2 = c2
  c3 = c3
  Conns <- MCConns
  Reply <- MCReply
  Workers = {w1, w2}
  FDBUFFERSIZE = 2
  Main = Main
  NoFd = NoFd
  Free = Free
INVARIANTS TypeOK NoOverflow OneOwner StatsNeverOverreport PoolSleepsOnlyWhileEmpty
PROPERTIES ImplementsHandoff EveryConnectionAnswered
CHECK_DEADLOCK FALSE
