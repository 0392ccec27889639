SPECIFICATION Spec
CONSTANTS
  FailureLimit = 2
  WatchdogThreshold = 2
  MaxCycles = 0
  Faults <- Recoverable
INVARIANTS
  TypeOK
  DecidesOnGoodHealth
  FailuresBelowLimit
PROPERTIES
  EmergencyBlocksOrders
  StopEndsLoop
  DeadGenerationLeaves
