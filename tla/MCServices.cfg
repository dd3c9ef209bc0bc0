SPECIFICATION Spec
CONSTANTS
  Streams = {"s1"}
  Polled = {"j1", "j2"}
  Says <- MCSays
  Keep = 1
  MaxAge = 2
  MaxPolls <- MCPolls
  MaxStops = 1
  MaxTurns = 2
  MaxExtractions = 2
  MaxNames = 2
  FewestWords = 1
  Genres = {"SF", "Essay"}
  Callers = {"c0", "c1", "c2", "c3"}
  Does <- MCDoes
  Talks <- MCConversations
  Answers <- MCAnswers
  Limit = 2
  OwnLimit = 1
  Cooldown = 2
  MaxClock = 3
  LastBook = 3
  ScanSize = 2
  BatchSize = 1
  Models = {"m", "n"}
  Files <- MCFiles
  SkipPercent = 34
  MaxEdits = 2
  MaxRuns = 2
INVARIANTS
  StreamEndsOnce
  JobAnswersStay
  SearchHasReason
  OneTimeLimit
  NoLoadStorm
  ExtractionsFit
  EmbedResumes
  ClassesWhole
PROPERTY StreamsEnd
CHECK_DEADLOCK FALSE
