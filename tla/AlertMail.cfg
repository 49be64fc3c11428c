SPECIFICATION SumSpec
CONSTANTS
  Docs = {d1, d2}
  Items = {i1, i2}
  Workers = {w1, w2}
  None = None
  MaxDocAttempts = 2
  MaxDispatches = 1
  MaxClaims = 3
  MailEvents = {e1, e2, e3}
  When <- InOrder
  Telling = {e1, e2}
  Calls = {c1, c2}
  Promises = {i1, i2}
  Limit = 2
  MaxRuns = 2
  e1 = e1
  e2 = e2
  e3 = e3
  c1 = c1
  c2 = c2
SYMMETRY Interchangeable
CHECK_DEADLOCK FALSE
PROPERTY KeepsTheBox
INVARIANTS AcceptedForGood NoResubmission NewestEventShows RemindedOnce
