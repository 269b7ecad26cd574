SPECIFICATION Spec
CONSTANTS
  Pages = {p, q, m}
  Exists = {p, q}
  Threads = {t1, t2}
  MaxSessions = 2
  None = None
SYMMETRY ThreadSymmetry
INVARIANTS TypeOK KeepsItsNumbers SavedItsText NoNumberLeaks
CHECK_DEADLOCK FALSE
