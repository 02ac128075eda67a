SPECIFICATION Spec
CONSTANTS
  Modulus = 32
  Keeps <- SomeKeeps
  InitialHeights = {1, 4}
  MaxHeight = 7
  MaxRuns = 3
  MaxFaults = 3
INVARIANTS
  TypeOK
  RetainedBlocks
  MetaHasBlock
  CatchesUp
CHECK_DEADLOCK FALSE
