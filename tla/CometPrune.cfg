SPECIFICATION Spec
CONSTANTS
  Base = 3
  Modulus = 729
  FloatExact = 243
  Ulp = 2
  MaxDigits = 6
  Keeps = {1, 3}
  ValHistoryToKeep = 2
  InitialHeights = {4}
  ValidatorChanges = {6}
  MaxHeight = 11
  MaxRuns = 2
  MaxFaults = 1
INVARIANTS
  TypeOK
  RetainedBlocks
  RetainedState
  ValidatorsLoadable
  BaseContiguous
  BaseCoversRetained
  OrphansOnly
CHECK_DEADLOCK FALSE
