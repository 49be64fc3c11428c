SPECIFICATION LiveSpec
CONSTANTS
  Docs = {d1, d2}
  Items = {i1}
  Workers = {w1, w2}
  None = None
  MaxDocAttempts = 2
  MaxDispatches = 1
  MaxClaims = 1
CHECK_DEADLOCK FALSE
INVARIANTS SuccessMeansDone
PROPERTIES SealsSettledRun SettledForGood DocumentsSettle
