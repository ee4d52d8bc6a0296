SPECIFICATION Spec
CONSTANTS
  MaxBody = 3
  Limits = {1, 2}
CHECK_DEADLOCK FALSE
INVARIANTS
  TypeOK
  VerdictBeforeDone
  InfectedNeverDelivered
  TailContinuesFile
  NoLostWakeup
  DeliveredWhole
  CachedCoversBody
  ConsumedBodyIsClosed
PROPERTIES
  NoReadAfterClose
  ScanFinishes
  ReaderFinishes
  ImplementsPromise
