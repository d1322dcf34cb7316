SPECIFICATION Spec
CONSTANTS
  b = b
  c = c
  title = title
  Blank = Blank
  None = None
  Content <- MCContent
  Hash <- MCHash
  Titles = {}
  OwnsLock = TRUE
  MaxEntries = 1
  MaxTime = 3
  MaxFavs = 2
  MaxJobs = 2
  MaxCrashes = 1
  MaxOthers = 0
  MaxFaults = 1
  UniqueSession = FALSE
  Lifetime = None
INVARIANTS
  TypeOK
  InSync
ACTION_CONSTRAINT WaitsForLoad
SYMMETRY MCSymmetry
CHECK_DEADLOCK FALSE
