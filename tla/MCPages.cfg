SPECIFICATION Spec
CONSTANTS
  None = None
  Core <- Core2
  Partial <- Partial2
  TagClass <- TagClass0
  Unfiltered = {"kids"}
  Books <- Books4
  Asks <- Asks4
  Sizes = {1, 2}
  ListLimit = 3
  ExactLimit = 2
  FallbackLimit = 6
  TicksASecond = 2
  Lifetime = 2
  Happenings <- Happenings3
  SavedLists <- SavedLists2
  Profiles <- Profiles3
  Indexes <- Indexes3
  Shelf <- Books4
  Searches <- Searches6
  Fit <- Fit3
  Closeness <- Closeness3
  Scan <- Scan4
  PageSizes = {1, 2}
  CandidateLimit = 3
  VectorLimit = 3
  SortVectorLimit = 2
  LookupLimit = 2
  LookupBudget = 2
  LookupMin = 1
  MinAllWords = 2
  CursorLife = 1
  MaxClock = 2
  MaxTroubles = 2
  Nothing = Nothing
  MaxTime = 3
  MaxChanges = 1
INVARIANTS FeedPagesJoin FeedNotCutOff SearchPagesJoin SameTitleFound
PROPERTY ShownFits
CHECK_DEADLOCK FALSE
