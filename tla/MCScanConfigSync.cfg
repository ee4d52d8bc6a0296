SPECIFICATION Spec
CONSTANTS
  q1 = q1
  q2 = q2
  Reqs = {q1, q2}
  Boot = Boot
  MaxOps = 3
CHECK_DEADLOCK FALSE
INVARIANTS
  KeyFollowsPG
  NoSilentStaleness
  DecisionNotTorn
PROPERTIES
  PolicyCatchesUp
