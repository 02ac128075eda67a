SPECIFICATION Spec
CONSTANTS
  Stores = {a, b}
  Leaked = {m}
  Keeps = {2}
  Strategies = {"snapshot"}
  Verifies = {TRUE}
  Hashings = {TRUE}
  MaxVersion = 4
  MaxRuns = 1
  MaxFaults = 0
INVARIANTS
  AppHashIntact
CHECK_DEADLOCK FALSE
