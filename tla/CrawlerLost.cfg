SPECIFICATION Spec
CONSTANTS
  j1 = j1
  j2 = j2
  r1 = r1
  t1 = t1
  t2 = t2
  Jobs = {j1}
  Batches = {b1}
  Tasks = {t1}
  Runs = {}
  None = None
  Kind <- OnePdf
  Parent <- NoParent
  MaxAttempts = 2
  BatchSize = 2
  MaxSends = 2
  LostAnswers = TRUE
  Immediate = FALSE
INVARIANTS AcceptedBundleKept
CHECK_DEADLOCK FALSE
