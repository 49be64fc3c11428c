SPECIFICATION FairSpec
CONSTANTS
  j1 = j1
  r1 = r1
  Jobs = {j1}
  Batches = {b1}
  Tasks = {t1}
  Runs = {r1}
  None = None
  Kind <- OnePage
  Parent <- PageOfR1
  MaxAttempts = 2
  BatchSize = 2
  MaxSends = 1
  LostAnswers = TRUE
  Immediate = FALSE
INVARIANTS NoneStranded
PROPERTIES JobsSettle
CHECK_DEADLOCK FALSE
