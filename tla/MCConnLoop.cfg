SPECIFICATION Spec
CONSTANTS
  h1 = h1
  h2 = h2
  Hosts = {h1, h2}
  NoHost = NoHost
  MaxReqs = 2
  MaxLen = 2
  MaxLists = 1
  MaxData = 1
CHECK_DEADLOCK FALSE
INVARIANTS
  TypeOK
  InStep
  RequestInStep
  BlockedNotForwarded
PROPERTY BridgeEnds
