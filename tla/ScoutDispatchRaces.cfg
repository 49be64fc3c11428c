CONSTANTS
  r1 = r1
  r2 = r2
  r3 = r3
  p1 = p1
  c1 = c1
  s1 = s1
  s2 = s2
  s3 = s3
  w1 = w1
  w2 = w2
  None = None
  Scouts = {s1, s2, s3}
  Runs = {r1, r2, r3, p1, c1}
  Workers = {w1, w2}
  ScoutOf <- ThreeScouts
  TypeOf <- OneOfEach
  Capacity = 1
  MaxAttempts = 1
  Threshold = 2
  Outlive = FALSE
SPECIFICATION Spec
INVARIANTS OneActiveRowPerScout OneRetryPerRun CapacityRespected SettledBeforeSuccess
PROPERTIES ImplementsSlots DoneMeansDelivered
CONSTRAINT Instances
SYMMETRY Interchangeable
CHECK_DEADLOCK FALSE
