SPECIFICATION Spec
CONSTANTS
  FailureLimit = 2
  WatchdogThreshold = 2
  MaxCycles = 2
  Faults <- FailingDeaths
PROPERTIES
  LimitedRunEnds
