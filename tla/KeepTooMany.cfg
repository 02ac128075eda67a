SPECIFICATION Spec
CONSTANTS
  Base = 10
  Modulus = 16384
  FloatExact = 64
  Ulp = 4
  MaxDigits = 5
  Keeps = {30}
  ValHistoryToKeep = 3
  InitialHeights = {1}
  ValidatorChanges = {}
  MaxHeight = 12
  MaxRuns = 1
  MaxFaults = 0
INVARIANTS
  RetainedBlocks
CHECK_DEADLOCK FALSE
