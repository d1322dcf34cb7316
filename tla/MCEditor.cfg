SPECIFICATION FairSpec
CONSTANTS
  b = b
  d = d
  c = c
  Blank = Blank
  None = None
  Content <- MCContent
  Hash <- MCHash
  MaxEntries = 2
  OwnsLock = TRUE
  MaxCopies = 2
  MaxSessions = 2
INVARIANTS
  TypeOK
  NoOrphan
PROPERTIES
  NeverHangs
  EditsOwnEntry
  SaveLands
  Retires
CHECK_DEADLOCK FALSE
