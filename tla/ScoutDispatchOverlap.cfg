CONSTANTS
  r1 = r1
  s1 = s1
  w1 = w1
  w2 = w2
  None = None
  Scouts = {s1}
  Runs = {r1}
  Workers = {w1, w2}
  ScoutOf <- OneScout
  TypeOf <- Beat
  Capacity = 1
  MaxAttempts = 2
  Threshold = 2
  Outlive = TRUE
SPECIFICATION LiveSpec
INVARIANTS TypeOK
PROPERTIES StaleCallHarmless RowsClose RunsSettle
CHECK_DEADLOCK FALSE
