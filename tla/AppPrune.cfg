SPECIFICATION Spec
CONSTANTS
  Stores = {a, b}
  Leaked = {}
  Keeps = {0, 1, 2}
  Strategies = {"inplace", "snapshot"}
  Verifies = {TRUE, FALSE}
  Hashings = {TRUE, FALSE}
  MaxVersion = 4
  MaxRuns = 3
  MaxFaults = 2
INVARIANTS
  TypeOK
  CommittedStateKept
  VerifiedRunLoads
  FailedRestoreKeepsOriginal
CHECK_DEADLOCK FALSE
