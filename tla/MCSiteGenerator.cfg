SPECIFICATION FairSpec
CONSTANTS
  W = 2
  P = 3
  Numbers = {x, y}
INVARIANTS SitesTypeOK LinksRight FilesRight
PROPERTY GeneratorEnds
CHECK_DEADLOCK FALSE
