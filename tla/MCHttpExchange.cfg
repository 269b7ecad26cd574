SPECIFICATION FairSpec
CONSTANTS
  p = p
  r = r
  f = f
  m = m
  d = d
  p1 = p1
  p2 = p2
  r1 = r1
  r2 = r2
  f1 = f1
  f2 = f2
  m1 = m1
  m2 = m2
  d1 = d1
  d2 = d2
  words = words
  BUFFERSIZE = 8
  Names = {p, r, f, m, d}
  Spelling <- MCSpelling
  Text <- MCText
  Forbidden = {f}
  Storable = {p, r, f, m}
INVARIANTS TypeOK ExchangeExact DeathOnlyByCut NothingInvented
PROPERTY ExchangeEnds
CHECK_DEADLOCK FALSE
