SPECIFICATION FairSpec
CHECK_DEADLOCK FALSE
CONSTANTS
  top = top
  sub = sub
  f = f
  Dirs = {top, sub}
  Files = {f}
  Roots = {top, sub}
  Parent <- MCParent
  Size <- MCSize
  MaxAttempts = 2
  MaxRuns = 3
  MaxChanges = 2
INVARIANTS
  TypeOK
  NothingLeftPending
  NothingMissed
  UpdateIsCurrent
  NeverTruncated
PROPERTIES
  MirroredIsLeftAlone
  RunEnds
