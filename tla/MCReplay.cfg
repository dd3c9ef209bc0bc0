SPECIFICATION Spec
CONSTANTS
  a1 = a1  a2 = a2  a3 = a3  a4 = a4  a5 = a5  a6 = a6  k1 = k1
  sure = sure  unsure = unsure  bad = bad
  None = None
  Attempts = {a1, a2, a3, a4, a5, a6}
  Keys = {k1}
  Bodies = {sure, unsure, bad}
  SureBodies = {sure}
  Malformed = {bad}
  MaxFaults = 1
  Request <- OneKey
INVARIANTS RecordIsTrue OneTurnPerKey SureRetryGetsFirst
CHECK_DEADLOCK FALSE
