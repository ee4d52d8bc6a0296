SPECIFICATION Spec
CONSTANTS
  d1 = d1
  d2 = d2
  d3 = d3
  c1 = c1
  c2 = c2
  Domains = {d1, d2, d3}
  Conns = {c1, c2}
  NoDomain = NoDomain
  MaxMem = 1
  Life = 3
  MaxNow = 4
  MaxServed = 3
  MaxFaults = 2
SYMMETRY Symmetry
CHECK_DEADLOCK FALSE
INVARIANTS
  ServedHasADay
  OldLeavesDieOut
  UsableCA
  MemBounded
