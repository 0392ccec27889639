SPECIFICATION Spec
CONSTANTS
  d1 = d1
  d2 = d2
  o1 = o1
  o2 = o2
  Decisions <- OneDecision
  OrderIds <- TwoOrders
  NoOrder = NoOrder
  NoDecision = NoDecision
  Durable = TRUE
  Faults <- StoreErrors
INVARIANT RetriesNeverDuplicate
