SPECIFICATION FairSpec
CONSTANTS
  x = x
  y = y
  None = None
  Text <- MCText
  Blanks <- MCBlanks
  Searches <- MCSearches
  Limits <- MCLimits
  MaxCopies = 2
  MaxSelects = 2
  MaxQueue = 2
  MaxToggles = 1
  PrivateMode = TRUE
INVARIANTS
  TypeOK
  WaitsForLast
  SkipsOnlyEcho
  LossBounded
  BufferExact
PROPERTY Settles
CHECK_DEADLOCK FALSE
