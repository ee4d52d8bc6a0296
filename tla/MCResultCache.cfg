SPECIFICATION Spec
CONSTANTS
  k1 = k1
  p1 = p1
  p2 = p2
  Keys = {k1}
  Procs = {p1, p2}
  Janitor = Janitor
  MaxEntries = 1
  TTL <- MCTTL
  Rdb = "flaky"
  MaxNow = 2
  MaxStores = 2
SYMMETRY Symmetry
INVARIANTS
  CounterNeverOvercounts
PROPERTIES
  ImplementsVerdictStore
CHECK_DEADLOCK FALSE
