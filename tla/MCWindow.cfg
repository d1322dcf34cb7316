SPECIFICATION Spec
CONSTANTS
  a = a
  b = b
  None = None
  Content <- MCContent
  Hash <- MCHash
  Copies <- MCCopies
  MaxEntries = 2
  OwnsLock = TRUE
  Capacity = 1
  MaxCalls = 4
  MaxEdits = 2
  MaxFaults = 1
INVARIANTS
  TypeOK
  WindowAgrees
  OwnTitles
CHECK_DEADLOCK FALSE
