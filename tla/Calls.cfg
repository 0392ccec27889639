SPECIFICATION CallsSpec
CONSTANTS
  t1 = t1
  t2 = t2
  Threads <- TwoThreads
  Roles <- ThreeRoles
  Asks <- TwoAgents
  Structured <- NewsRole
  LocalRoles <- LocalRole
  MaxRetries = 2
  Threshold = 2
INVARIANTS
  CallsTypeOK
  AttemptsBookedOnce
PROPERTIES
  OutagesHeal
  CallsReturn
