SPECIFICATION FairSpec
CONSTANTS
  b = b
  c = c
  title = title
  Blank = Blank
  None = None
  Content <- MCContent
  Hash <- MCHash
  Titles <- MCTitles
  OwnsLock = TRUE
  MaxEntries = 1
  MaxTime = 2
  MaxFavs = 1
  MaxJobs = 2
  MaxCrashes = 0
  MaxOthers = 1
  MaxFaults = 0
  UniqueSession = FALSE
  Lifetime = None
PROPERTIES
  Converges
CHECK_DEADLOCK FALSE
