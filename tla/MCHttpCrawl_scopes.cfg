SPECIFICATION Spec
CHECK_DEADLOCK FALSE
CONSTANTS
  source = source
  home = home
  page = page
  style = style
  other = other
  Url = {home, page, other}
  Starts = {home, page}
  Site <- MCNested
  Scope <- MCNestedScope
  MaxAttempts = 1
  MaxRuns = 2
  MaxChanges = 0
INVARIANTS
  UpdateIsComplete
