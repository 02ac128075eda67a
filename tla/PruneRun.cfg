SPECIFICATION Spec
CONSTANTS
  Strategies <- AllStrategies
  MaxRuns = 2
  MaxFaults = 3
CHECK_DEADLOCK FALSE
INVARIANTS
  TypeOK
  HandlesClosedOnce
  UsesOpenHandle
  
  OwnersRestored
PROPERTIES
  CommandEnds
