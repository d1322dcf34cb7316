SPECIFICATION Spec
CONSTANTS
  b = b
  c = c
  title = title
  Blank = Blank
  None = None
  Content <- MCContent
  Hash <- MCHash
  Titles <- MCTitles
  OwnsLock = TRUE
  MaxEntries = 2
  MaxTime = 3
  MaxFavs = 0
  MaxJobs = 2
  MaxCrashes = 0
  MaxOthers = 0
  MaxFaults = 0
  UniqueSession = FALSE
  Lifetime = None
INVARIANT NoPanic
SYMMETRY MCSymmetry
CHECK_DEADLOCK FALSE
