SPECIFICATION FairSpec
CONSTANTS
  Base = 3
  Modulus = 729
  FloatExact = 243
  Ulp = 2
  MaxDigits = 6
  Keeps = {2}
  ValHistoryToKeep = 1
  InitialHeights = {7}
  ValidatorChanges = {8}
  MaxHeight = 9
  MaxRuns = 2
  MaxFaults = 1
PROPERTIES
  PruneTerminates
CHECK_DEADLOCK FALSE
