CONSTANTS
  j1 = j1
  j2 = j2
  j3 = j3
  r1 = r1
  b1 = b1
  b2 = b2
  t1 = t1
  t2 = t2
  None = None
  Jobs = {j1, j2, j3}
  Batches = {b1, b2}
  Tasks = {t1, t2}
  Runs = {r1}
  Kind <- OneOfEach
  Parent <- PageOfR1
  MaxAttempts = 2
  BatchSize = 2
  MaxSends = 2
  LostAnswers = FALSE
  Immediate = TRUE
SPECIFICATION Spec
INVARIANTS AcceptedBundleKept ResultOfLastAttempt
PROPERTIES TicketKept
CONSTRAINT Instances
SYMMETRY Interchangeable
CHECK_DEADLOCK FALSE
