CONSTANTS
  r1 = r1
  s1 = s1
  w1 = w1
  w2 = w2
  None = None
  Scouts = {s1}
  Runs = {r1}
  Workers = {w1}
  ScoutOf <- OneScout
  TypeOf <- Page
  Capacity = 1
  MaxAttempts = 1
  Threshold = 2
  Outlive = FALSE
SPECIFICATION Spec
INVARIANTS DeferredHasRetry
CHECK_DEADLOCK FALSE
