SPECIFICATION Spec
CONSTANTS
  q1 = q1
  q2 = q2
  Reqs = {q1, q2}
  Boot = Boot
  MaxOps = 2
CHECK_DEADLOCK FALSE
INVARIANTS
  CurrentConfigInRedis
