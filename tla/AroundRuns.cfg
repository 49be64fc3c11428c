SPECIFICATION SumSpec
CONSTANTS
  u1 = u1
  u2 = u2
  o1 = o1
  c1 = c1
  c2 = c2
  c3 = c3
  k1 = k1
  d1 = d1
  d2 = d2
  d3 = d3
  t1 = t1
  t2 = t2
  q1 = q1
  None = None
  Users = {u1, u2}
  Orgs = {o1}
  Accounts = {u1, o1}
  Callers = {c1, c2, c3}
  UserOf <- OneKeyedRun
  Cost <- TwoAndOne
  Keyed = {c1, c2}
  Key <- SharedKey
  Caps = {1, 3}
  MaxRenewals = 2
  Rows = {k1}
  Deliveries = {d1, d2, d3}
  Ticks = {t1, t2}
  Requests = {q1}
  Schedules = {{4}, {5}}
  Offset <- SetBack
  End = 6
  MaxRequests = 3
  Overlap = FALSE
INVARIANTS Solvent AuditTrail KeyedOnce FailedEventRefundsOnce OncePerSlot ActiveHasJob
CHECK_DEADLOCK FALSE
