SPECIFICATION Spec
CONSTANTS
  d1 = d1
  d2 = d2
  o1 = o1
  o2 = o2
  Decisions <- TwoDecisions
  OrderIds <- TwoOrders
  NoOrder = NoOrder
  NoDecision = NoDecision
  Durable = TRUE
  Faults <- AllFaults
INVARIANTS
  TypeOK
  TrackedBeforeLive
  InvestmentsConfirmed
  ExecutedHasInvestment
PROPERTIES
  ThreadReturns
  ImplementsOnceOnly
