SPECIFICATION Spec
CONSTANTS
  b1 = b1  b2 = b2  b3 = b3
  None = None
  Books = {b1, b2, b3}
  MaxLines = 2
  MaxQty = 2
  CardRanks = {1, 2}
  Quantities = {0, 2}
  MaxSteps = 3
  MaxCalls = 3
  MaxTurnCalls = 4
  Requests <- Everyone
INVARIANTS
  TypeOK PickedOrChanged RecordsMakeTheCart ShownIsTrue
  AllOrNothing ActionsApply
CHECK_DEADLOCK FALSE
