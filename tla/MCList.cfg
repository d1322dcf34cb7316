SPECIFICATION FairSpec
CONSTANTS
  a = a
  b = b
  title = title
  None = None
  Content <- MCContent
  Hash <- MCHash
  Titles <- MCTitles
  Queries <- MCQueries
  MaxEntries = 2
  OwnsLock = TRUE
  MaxTime = 3
  Ticks = {1}
  StaleEdits = FALSE
  StaleConfirms = FALSE
  Refavorites = FALSE
  MaxFavs = 1
  PerPage = 1
  MaxTasks = 2
  MaxFlows = 2
INVARIANT ListTypeOK
PROPERTIES
  ArrowHighlights
  EnterCopiesHighlighted
  SuggestionKeepsTyped
  SuggestionEnds
CHECK_DEADLOCK FALSE
