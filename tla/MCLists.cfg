SPECIFICATION Spec
CONSTANTS
  Core <- Core2
  Partial <- Partial2
  TagClass <- TagClass1
  Unfiltered = {"kids"}
  Stock <- Stock8
  Novel = "novel"
  Parent <- Parent3
  Subcategories <- Sub3
  ClassTable <- ClassTable2
  NameAt <- NameAt6
  UsedMemories = 2
  UsedLiked = 2
  AnchorLimit = 1
  Lines <- Lines8
  Onboardings <- Onboardings3
  Events <- Events3
  Indexes <- Indexes2
  KeywordAt <- KeywordAt1
  Total = 5
  MaxInterests = 3
  AuthorBlock = 3
  AuthorPerBlock = 2
  PickFactor = 1
  PickMin = 2
  PickMax = 4
  ReadFactor = 2
  ExactLimit = 2
  FallbackLimit = 4
  MaxLines = 3
  MaxRows = 1
INVARIANTS NothingUnwanted SeatsShared AuthorsSpread LatecomersSmall
CHECK_DEADLOCK FALSE
