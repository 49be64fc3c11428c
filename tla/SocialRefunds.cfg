SPECIFICATION Spec
CONSTANTS
  Rows = {k1}
  Deliveries = {d1}
  None = None
INVARIANTS RefundedOnce
CHECK_DEADLOCK FALSE
