\* Three requests over a queue of one record, two versions of the list.
CONSTANTS
  Labels <- MCLabels
  Lower <- MCLower
  Records <- MCRecords
  BufSize = 1
  MaxReqs = 3
  Hosts <- MCHosts
  Lists <- MCLists
SPECIFICATION Spec
INVARIANT OneRecord
INVARIANT ServedAreFlushed
 
PROPERTY ShutdownEnds
\* The process exits.
CHECK_DEADLOCK FALSE
