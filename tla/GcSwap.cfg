SPECIFICATION Spec
CONSTANTS
  Keys = {1, 2, 3}
  Meta = 2
  BatchSize = 2
  MaxRuns = 3
  MaxFaults = 4
INVARIANTS
  TypeOK
  NoLoss
  NeverTruncated
  FailedGcKeepsSource
  CompletedGcExact
  HandleClosedOnce
PROPERTIES
  ImplementsDurableDb
CHECK_DEADLOCK FALSE
