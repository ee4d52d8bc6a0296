SPECIFICATION Spec
CONSTANTS
  d1 = d1
  d2 = d2
  q1 = q1
  q2 = q2
  Domains = {d1, d2}
  Reqs = {q1, q2}
  MaxOps = 3
INVARIANTS
  RedisFollowsPG
  NoSilentStaleness
PROPERTIES
  ListCatchesUp
CHECK_DEADLOCK FALSE
