SPECIFICATION LiveSpec
CONSTANTS
  Workers = {w1, w2}
  None = None
  MaxAttempts = 2
  Overlap = FALSE
INVARIANTS BilledOnce SuccessIsPaid AlertedOfSuccess
PROPERTIES RunCloses
CHECK_DEADLOCK FALSE
