SPECIFICATION Spec
CONSTANTS
  plain = plain
  rich = rich
  b = b
  c = c
  title = title
  None = None
  Content <- MCContent
  Hash <- MCHash
  Titles <- MCTitles
  Queries <- MCQueries
  Ticks <- MCStrictTicks
  MaxEntries = 2
  OwnsLock = TRUE
  MaxTime = 4
  MaxFavs = 4
  StaleEdits = FALSE
  StaleConfirms = FALSE
  Refavorites = FALSE
INVARIANTS
  TypeOK
  ListShown
  NoPanic
  IndexesAgree
PROPERTIES
  FavoritesKept
  EvictsOldest
SYMMETRY MCSymmetry
