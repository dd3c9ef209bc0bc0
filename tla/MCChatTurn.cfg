SPECIFICATION FairSpec
CONSTANTS
  None = None
  Odd = Odd
  b1 = b1
  b2 = b2
  b3 = b3
  Word <- MCWord
  Filler <- MCFiller
  Mood <- MCMood
  Usable <- MCUsable
  Book <- MCBook
  Edition <- MCEdition
  Messages <- MCMessages
  Patches <- MCPatches
  Narrowing = TRUE
  MaxTurns = 3
INVARIANTS
  SpecStaysValid
  NoJudgeLeft
  OldRequestGone
  ExactWordsOfOneTurn
  AskedOnce
PROPERTIES
  RejectedStaysAway
  TurnEnds
CHECK_DEADLOCK FALSE
