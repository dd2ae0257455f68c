SPECIFICATION FairSpec
CHECK_DEADLOCK FALSE
CONSTANTS
  source = source
  home = home
  page = page
  style = style
  other = other
  Url = {source, home, page, style, other}
  Starts = {source}
  Site <- MCSite
  Scope <- MCScope
  MaxAttempts = 2
  MaxRuns = 3
  MaxChanges = 1
INVARIANTS
  TypeOK
  SuccessIsComplete
  CurrentAfterUpdate
  EtagOfFile
  NoEscape
PROPERTIES
  MirroredIsLeftAlone
  RunEnds
