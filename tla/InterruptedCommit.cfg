SPECIFICATION Spec
CONSTANTS
  Stores = {a, b}
  Leaked = {}
  Keeps = {2}
  Strategies = {"inplace"}
  Verifies = {TRUE}
  Hashings = {TRUE}
  MaxVersion = 4
  MaxRuns = 1
  MaxFaults = 0
INVARIANTS
  CommitInfoStaysValid
CHECK_DEADLOCK FALSE
