SPECIFICATION Spec
CONSTANTS
  b1 = b1  b2 = b2  b3 = b3
  None = None
  Books = {b1, b2, b3}
  MaxLines = 2
  MaxQty = 2
  CardRanks = {1, 2}
  Quantities = {1, 2}
  MaxSteps = 1
  MaxCalls = 2
  MaxTurnCalls = 4
  Requests <- OneShopper
INVARIANTS DoneIsSaid
CHECK_DEADLOCK FALSE
