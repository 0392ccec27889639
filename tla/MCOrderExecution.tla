--------------------------- MODULE MCOrderExecution ---------------------------
(* Finite instances of OrderExecution: order ids are interchangeable.      *)
EXTENDS OrderExecution, TLC

CONSTANTS d1, d2, o1, o2

TwoDecisions == {d1, d2}
OneDecision  == {d1}
TwoOrders    == {o1, o2}
OrderSymmetry == Permutations(OrderIds)

AllFaults == FaultKinds
StoreErrors == {"store_error"}
=============================================================================
