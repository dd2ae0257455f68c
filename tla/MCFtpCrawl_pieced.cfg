SPECIFICATION Spec
CHECK_DEADLOCK FALSE
CONSTANTS
  top = top
  sub = sub
  f = f
  Dirs = {top}
  Files = {f}
  Roots = {top}
  Parent <- MCParent
  Size <- MCSize
  MaxAttempts = 1
  MaxRuns = 2
  MaxChanges = 1
INVARIANTS
  UpdateIsWhole
