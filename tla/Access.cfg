SPECIFICATION SumSpec
CONSTANTS
  Users = {u1, u2}
  Requests = {r1}
  Manual = {m1}
  Calls = {c1, c2, c3}
  KeyLimit = 1
  None = None
  Codes = {k1, k2}
  Clients = {"Osaurus", "other"}
  Osaurus = {"Osaurus"}
  ClientOf <- OneOfOsaurus
  Exchanges = {q1, q2, q3}
  k1 = k1
  k2 = k2
  q1 = q1
  q2 = q2
  q3 = q3
INVARIANTS OneKeyPerRequest KeyLimitHolds NoSilentOrphan TokensHandedOutOnce OsaurusAsksFirst
PROPERTIES DecisionStands
CHECK_DEADLOCK FALSE
