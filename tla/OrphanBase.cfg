SPECIFICATION Spec
CONSTANTS
  Base = 3
  Modulus = 729
  FloatExact = 243
  Ulp = 2
  MaxDigits = 6
  Keeps = {2, 5}
  ValHistoryToKeep = 3
  InitialHeights = {5}
  ValidatorChanges = {4}
  MaxHeight = 12
  MaxRuns = 2
  MaxFaults = 0
INVARIANTS
  OrphanNeverBase
CHECK_DEADLOCK FALSE
