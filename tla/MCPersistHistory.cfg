SPECIFICATION Spec
CONSTANTS
  b = b
  c = c
  title = title
  Blank = Blank
  None = None
  Content <- MCContent
  Hash <- MCHash
  Titles <- MCTitles
  OwnsLock = TRUE
  MaxEntries = 1
  MaxTime = 3
  MaxFavs = 0
  MaxJobs = 2
  MaxCrashes = 1
  MaxOthers = 1
  MaxFaults = 1
  UniqueSession = TRUE
  Lifetime = 4
INVARIANTS
  IndexesExact
  NoMissedUpdate
PROPERTIES
  StartPrunes
SYMMETRY MCSymmetry
CHECK_DEADLOCK FALSE
