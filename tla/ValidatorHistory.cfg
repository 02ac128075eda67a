SPECIFICATION Spec
CONSTANTS
  Base = 3
  Modulus = 729
  FloatExact = 243
  Ulp = 2
  MaxDigits = 6
  Keeps = {2}
  ValHistoryToKeep = 3
  InitialHeights = {2}
  ValidatorChanges = {8, 11}
  MaxHeight = 15
  MaxRuns = 1
  MaxFaults = 0
INVARIANTS
  ValidatorHistoryTrimmed
CHECK_DEADLOCK FALSE
