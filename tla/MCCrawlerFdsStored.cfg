SPECIFICATION Spec
CONSTANTS
  Pages = {p, q, m}
  Exists = {p, q}
  Threads = {t1, t2}
  MaxSessions = 1
  None = None
SYMMETRY ThreadSymmetry
INVARIANT PageIsStored
CHECK_DEADLOCK FALSE
