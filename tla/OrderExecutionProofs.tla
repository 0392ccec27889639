------------------------- MODULE OrderExecutionProofs -------------------------
(***************************************************************************)
(* Proofs that OrderExecution keeps its safety properties for every set of *)
(* decisions and order ids, with a durable or a volatile store and under   *)
(* any combination of faults.                                              *)
(***************************************************************************)
EXTENDS OrderExecution, TLAPS

Answered == {"record", "confirm", "invest", "complete"}

(* The attempt under way owns its claim, has been verified before it can   *)
(* submit, and its locals agree with the broker and the store.             *)
AttemptInv ==
  /\ pc \in Working => op[cur] = "IN_PROGRESS"
  /\ pc \in {"build", "submit"} => verified = "paper"
  /\ pc \in Answered \union {"submit"} => lifecycle[cur] # "NONE"
  /\ pc \in Answered =>
       /\ ord \in OrderIds
       /\ Live(ord)
       /\ owner[ord] = cur
       /\ seen \in OrderStatus
  /\ pc \in {"record", "confirm", "invest"} => invested[ord] = 0
  /\ pc = "invest" => bstatus[ord] = "FILLED" /\ seen = "FILLED"
  /\ pc = "complete" /\ seen = "FILLED" => invested[ord] = 1

(* Orders have owners exactly when the broker has them.                    *)
OwnersInv == \A o \in OrderIds : Live(o) => owner[o] \in Decisions

(* Only a live, filled order has an investment record.                     *)
InvestedInv ==
  \A o \in OrderIds : invested[o] = 0 \/ (invested[o] = 1 /\ bstatus[o] = "FILLED")

(* A result is stored exactly with completion.                             *)
ResultsInv == \A d \in Decisions : op[d] # "COMPLETED" => result[d] = "NONE"

(* The inductive invariant: no property below is inductive by itself.      *)
IInv ==
  /\ TypeOK
  /\ AttemptInv
  /\ OwnersInv
  /\ InvestedInv
  /\ ResultsInv
  /\ TrackedBeforeLive
  /\ ExecutedHasInvestment

-----------------------------------------------------------------------------
(* Every step keeps the inductive invariant, one step of the proof for     *)
(* each action.  The steps that decide a property are spelled out by its   *)
(* conjuncts: the claim, the two submissions, the investment record, the   *)
(* completion and the adoption of a listed order.                          *)

LEMMA InitEstablishesIInv == Init => IInv
  BY ConstantsAssumption
     DEF Init, NoRecords, Idem!IdemInit, IInv, TypeOK, AttemptInv, OwnersInv,
         InvestedInv, ResultsInv, TrackedBeforeLive, ExecutedHasInvestment,
         Idem!IdemTypeOK, Idem!OpStatus, PCs, Working, Listing, Answered, Live,
         ExecutionResults, OrderStatus, OpenStatus

LEMMA StepKeepsIInv == IInv /\ [Next]_vars => IInv'
<1> SUFFICES ASSUME IInv, [Next]_vars
             PROVE  IInv'
  OBVIOUS
<1> USE ConstantsAssumption
    DEF IInv, TypeOK, AttemptInv, OwnersInv, InvestedInv, ResultsInv,
        TrackedBeforeLive, ExecutedHasInvestment, Idem!IdemTypeOK,
        Idem!OpStatus, PCs, Working, Listing, Answered, Live, IsOpen,
        ExecutionResults, OrderStatus, OpenStatus, idem, broker, records, locals
<1>1. ASSUME NEW d \in Decisions, ClaimDecision(d)
      PROVE  IInv'
  <2> USE <1>1 DEF ClaimDecision, Idem!Begin, Idem!Claimable
  <2>1. TypeOK' /\ AttemptInv'
    OBVIOUS
  <2>2. ResultsInv' /\ ExecutedHasInvestment'
    \* the claim erases the result of the key and touches no other
    OBVIOUS
  <2> QED
    BY <2>1, <2>2
<1>2. ASSUME NEW d \in Decisions, ClaimExpires(d)
      PROVE  IInv'
  BY <1>2 DEF ClaimExpires, Idem!Expire
<1>3. CASE Verify
  BY <1>3 DEF Verify, FailAndReturn, KeyReleased, Return, Idem!Fail
<1>4. CASE BuildRefused
  BY <1>4 DEF BuildRefused, FailAndReturn, KeyReleased, Return, Idem!Fail
<1>5. CASE BuildOrder
  BY <1>5 DEF BuildOrder
<1>6. ASSUME NEW o \in OrderIds, Submit(o)
      PROVE  IInv'
  <2> USE <1>6 DEF Submit, BrokerTakes
  <2>1. TypeOK' /\ OwnersInv'
    OBVIOUS
  <2>2. AttemptInv' /\ InvestedInv'
    \* the new order was not live, so it has no investment record
    OBVIOUS
  <2>3. TrackedBeforeLive'
    \* the thread at "submit" has saved the record of cur
    OBVIOUS
  <2>4. ResultsInv' /\ ExecutedHasInvestment'
    \* an order with an investment record was live and keeps its owner
    OBVIOUS
  <2> QED
    BY <2>1, <2>2, <2>3, <2>4
<1>7. CASE SubmitRejected
  BY <1>7 DEF SubmitRejected, FailAndReturn, KeyReleased, Return, Idem!Fail
<1>8. ASSUME NEW o \in OrderIds, SubmitLostResponse(o)
      PROVE  IInv'
  <2> USE <1>8 DEF SubmitLostResponse, BrokerTakes, FailAndReturn, KeyReleased, Return, Idem!Fail
  <2>1. TypeOK' /\ AttemptInv' /\ OwnersInv' /\ InvestedInv'
    OBVIOUS
  <2>2. TrackedBeforeLive'
    OBVIOUS
  <2>3. ResultsInv' /\ ExecutedHasInvestment'
    OBVIOUS
  <2> QED
    BY <2>1, <2>2, <2>3
<1>9. CASE RecordResponse
  BY <1>9 DEF RecordResponse
<1>10. CASE Confirm
  BY <1>10 DEF Confirm
<1>11. CASE ConfirmFails
  BY <1>11 DEF ConfirmFails, FailAndReturn, KeyReleased, Return, Idem!Fail
<1>12. CASE CreateInvestmentRecord
  <2> USE <1>12 DEF CreateInvestmentRecord
  <2>1. TypeOK'
    OBVIOUS
  <2>2. AttemptInv' /\ InvestedInv'
    \* confirm left ord filled and without a record
    OBVIOUS
  <2>3. ExecutedHasInvestment'
    OBVIOUS
  <2> QED
    BY <2>1, <2>2, <2>3
<1>13. CASE CompleteDecision
  <2> USE <1>13 DEF CompleteDecision, Idem!Complete, Return
  <2>1. TypeOK' /\ AttemptInv' /\ ResultsInv'
    OBVIOUS
  <2>2. ExecutedHasInvestment'
    \* EXECUTED is stored only if ord was seen filled; ord is the witness
    OBVIOUS
  <2> QED
    BY <2>1, <2>2
<1>14. CASE StoreRaises
  BY <1>14 DEF StoreRaises, FailAndReturn, KeyReleased, Return, Idem!Fail
<1>15. CASE ForceVerification
  BY <1>15 DEF ForceVerification
<1>16. CASE ListForReconciliation
  BY <1>16 DEF ListForReconciliation, OpenOrders
<1>17. ASSUME NEW r \in todo, AdoptOrder(r)
      PROVE  IInv'
  <2> USE <1>17 DEF AdoptOrder
  <2>1. r.status \in OpenStatus
    OBVIOUS
  <2>2. TypeOK'
    BY <2>1
  <2>3. AttemptInv' /\ OwnersInv' /\ InvestedInv' /\ ResultsInv'
    OBVIOUS
  <2>4. TrackedBeforeLive'
    BY <2>1
  <2>5. ExecutedHasInvestment'
    OBVIOUS
  <2> QED
    BY <2>2, <2>3, <2>4, <2>5
<1>18. CASE ListForCancellation
  BY <1>18 DEF ListForCancellation, OpenOrders
<1>19. ASSUME NEW r \in todo, CancelOrder(r)
      PROVE  IInv'
  BY <1>19 DEF CancelOrder
<1>20. CASE ListDone
  BY <1>20 DEF ListDone
<1>21. CASE AdoptRaises
  BY <1>21 DEF AdoptRaises
<1>22. ASSUME NEW o \in OrderIds, BrokerMoves(o)
      PROVE  IInv'
  BY <1>22 DEF BrokerMoves
<1>23. CASE Crash
  BY <1>23 DEF Crash
<1>24. CASE Restart
  BY <1>24 DEF Restart
<1>25. CASE UNCHANGED vars
  BY <1>25 DEF vars
<1> QED
  BY <1>1, <1>2, <1>3, <1>4, <1>5, <1>6, <1>7, <1>8, <1>9, <1>10, <1>11, <1>12,
     <1>13, <1>14, <1>15, <1>16, <1>17, <1>18, <1>19, <1>20, <1>21, <1>22, <1>23,
     <1>24, <1>25
  DEF Next, Execute, ReconcileOrCancel

THEOREM Invariance == Spec => []IInv
  BY InitEstablishesIInv, StepKeepsIInv, PTL DEF Spec

-----------------------------------------------------------------------------
(* The state of the service and of its broker is always well-typed.        *)
THEOREM TypeCorrect == Spec => []TypeOK
<1>1. IInv => TypeOK
  BY DEF IInv
<1> QED
  BY <1>1, Invariance, PTL

(* With a durable store no order is ever live at the broker without a      *)
(* lifecycle record of its decision, whatever step the process died in.    *)
THEOREM OrdersAreTracked == Spec => []TrackedBeforeLive
<1>1. IInv => TrackedBeforeLive
  BY DEF IInv
<1> QED
  BY <1>1, Invariance, PTL

(* At most one investment record per order, and only for a filled one.     *)
THEOREM InvestmentsAreConfirmed == Spec => []InvestmentsConfirmed
<1>1. IInv => InvestmentsConfirmed
  BY DEF IInv, InvestedInv, InvestmentsConfirmed
<1> QED
  BY <1>1, Invariance, PTL

(* A decision settled as EXECUTED has its investment record.               *)
THEOREM ExecutedIsInvested == Spec => []ExecutedHasInvestment
<1>1. IInv => ExecutedHasInvestment
  BY DEF IInv
<1> QED
  BY <1>1, Invariance, PTL

-----------------------------------------------------------------------------
(* The action properties: what the actions that could break them do.       *)

(* Only a submission makes an order live, and the thread gets there only   *)
(* through a positive verification.                                        *)
THEOREM VerifiedBeforeLive == Spec => LiveOnlyWhenVerified
<1>1. ASSUME IInv, [Next]_vars
      PROVE  [\A o \in OrderIds : ~Live(o) /\ Live(o)' => verified = "paper"]_vars
  <2> SUFFICES ASSUME Next, NEW o \in OrderIds, ~Live(o), Live(o)'
               PROVE  verified = "paper"
    BY <1>1
  <2>1. pc = "submit"
    BY <1>1 DEF IInv, TypeOK, Next, Execute, ReconcileOrCancel, ClaimDecision,
          ClaimExpires, Verify, BuildRefused, BuildOrder, Submit, SubmitRejected,
          SubmitLostResponse, RecordResponse, Confirm, ConfirmFails,
          CreateInvestmentRecord, CompleteDecision, StoreRaises, ForceVerification,
          ListForReconciliation, AdoptOrder, AdoptRaises, ListForCancellation, CancelOrder,
          ListDone, BrokerMoves, Crash, Restart, Live, IsOpen, OpenStatus, broker
  <2> QED
    BY <1>1, <2>1 DEF IInv, AttemptInv
<1> QED
  BY <1>1, Invariance, PTL DEF Spec, LiveOnlyWhenVerified

(* With a durable store a completed decision stays completed, with the     *)
(* same result, and gets no further order: begin() refuses its key, so it  *)
(* is never again the decision of a running attempt.                       *)
THEOREM CompletionIsFinal == Spec => NothingAfterCompletion
<1>1. ASSUME IInv, [Next]_vars
      PROVE  [Durable => \A d \in Decisions :
                op[d] = "COMPLETED" =>
                  /\ op'[d] = "COMPLETED"
                  /\ result'[d] = result[d]
                  /\ \A o \in OrderIds : owner'[o] = d => owner[o] = d]_vars
  <2> SUFFICES ASSUME Next, Durable, NEW d \in Decisions, op[d] = "COMPLETED"
               PROVE  /\ op'[d] = "COMPLETED"
                      /\ result'[d] = result[d]
                      /\ \A o \in OrderIds : owner'[o] = d => owner[o] = d
    BY <1>1
  <2>1. pc \in Working => cur # d
    BY <1>1 DEF IInv, AttemptInv
  <2>2. CASE \E e \in Decisions : ClaimDecision(e) \/ ClaimExpires(e)
    BY <1>1, <2>2 DEF ClaimDecision, ClaimExpires, Idem!Begin, Idem!Claimable,
          Idem!Expire, IInv, TypeOK, Idem!IdemTypeOK, broker
  <2>3. CASE Execute
    BY <1>1, <2>1, <2>3 DEF Execute, Verify, BuildRefused, BuildOrder, Submit,
          BrokerTakes, SubmitRejected, SubmitLostResponse, RecordResponse, Confirm,
          ConfirmFails, CreateInvestmentRecord, CompleteDecision, StoreRaises,
          FailAndReturn, KeyReleased, Idem!Fail, Idem!Complete, Working, IInv, TypeOK,
          Idem!IdemTypeOK, idem, broker
  <2>4. CASE ReconcileOrCancel
    BY <2>4 DEF ReconcileOrCancel, ListForReconciliation, ListDone, AdoptOrder, AdoptRaises,
          CancelOrder, idem, broker
  <2>5. CASE \/ ForceVerification \/ ListForCancellation \/ Crash \/ Restart
             \/ \E o \in OrderIds : BrokerMoves(o)
    BY <2>5 DEF ForceVerification, ListForCancellation, Crash, Restart, BrokerMoves,
          idem, broker
  <2> QED
    BY <2>2, <2>3, <2>4, <2>5 DEF Next
<1> QED
  BY <1>1, Invariance, PTL DEF Spec, NothingAfterCompletion

-----------------------------------------------------------------------------
(* Reconciliation.  Its listing is worked through one order at a time      *)
(* while the broker goes on filling and closing them; nothing else moves   *)
(* orders meanwhile.  So an open order has a record or is still listed.    *)

AdoptInv ==
  pc = "adopt" =>
    \A o \in OrderIds : IsOpen(o) => \/ lifecycle[owner[o]] # "NONE"
                                   \/ \E r \in todo : r.order = o

LEMMA InitEstablishesAdoptInv == Init => AdoptInv
  BY DEF Init, AdoptInv

LEMMA StepKeepsAdoptInv == IInv /\ AdoptInv /\ [Next]_vars => AdoptInv'
<1> SUFFICES ASSUME IInv, AdoptInv, [Next]_vars, pc' = "adopt"
             PROVE  AdoptInv'
  BY DEF AdoptInv
<1>1. CASE ListForReconciliation
  <2> SUFFICES ASSUME NEW o \in OrderIds, IsOpen(o)'
               PROVE  \E r \in todo' : r.order = o
    BY DEF AdoptInv
  <2>1. IsOpen(o) /\ todo' = OpenOrders
    BY <1>1 DEF ListForReconciliation, IsOpen, broker
  <2>2. [order |-> o, status |-> bstatus[o]] \in OpenOrders
    BY <2>1 DEF OpenOrders
  <2> QED
    BY <2>1, <2>2
<1>2. ASSUME NEW r \in todo, AdoptOrder(r)
      PROVE  AdoptInv'
  <2>1. r.order \in OrderIds /\ r.status \in OpenStatus
    BY DEF IInv, TypeOK
  <2>2. /\ lifecycle' = [lifecycle EXCEPT ![owner[r.order]] = r.status]
        /\ todo' = todo \ {r} /\ UNCHANGED broker /\ pc = "adopt"
    BY <1>2 DEF AdoptOrder
  <2> SUFFICES ASSUME NEW o \in OrderIds, IsOpen(o)'
               PROVE  \/ lifecycle'[owner'[o]] # "NONE"
                      \/ \E s \in todo' : s.order = o
    BY DEF AdoptInv
  <2>3. IsOpen(o) /\ owner'[o] = owner[o]
    BY <2>2 DEF IsOpen, broker
  <2>4. owner[o] \in Decisions /\ lifecycle \in [Decisions -> OrderStatus \union {"NONE", "CREATED"}]
    BY <2>3 DEF IInv, OwnersInv, TypeOK, Live, IsOpen, OpenStatus
  <2>5. CASE owner[o] = owner[r.order]
    \* the record just written is this order's, or one it shares
    BY <2>1, <2>2, <2>3, <2>4, <2>5 DEF OpenStatus
  <2>6. CASE owner[o] # owner[r.order]
    <3>1. lifecycle'[owner'[o]] = lifecycle[owner[o]]
      BY <2>2, <2>3, <2>4, <2>6
    <3>2. \A s \in todo : s.order = o => s \in todo'
      BY <2>2, <2>6
    <3> QED
      BY <2>2, <2>3, <3>1, <3>2 DEF AdoptInv
  <2> QED
    BY <2>5, <2>6
<1>3. ASSUME NEW o \in OrderIds, BrokerMoves(o)
      PROVE  AdoptInv'
  \* an order never opens again, and keeps its owner
  <2>1. /\ UNCHANGED <<owner, lifecycle, todo, pc>>
        /\ \A p \in OrderIds : IsOpen(p)' => IsOpen(p)
    BY <1>3 DEF BrokerMoves, IsOpen, OpenStatus, IInv, TypeOK, records, locals
  <2> QED
    BY <2>1 DEF AdoptInv
<1>4. CASE UNCHANGED <<broker, lifecycle, pc, todo>>
  BY <1>4 DEF AdoptInv, IsOpen, broker
<1> QED
  \* the other steps leave these alone, or do not go on reconciling
  BY <1>1, <1>2, <1>3, <1>4
  DEF Next, Execute, ReconcileOrCancel, ClaimDecision, ClaimExpires, Verify, BuildRefused,
      BuildOrder, Submit, SubmitRejected, SubmitLostResponse, RecordResponse, Confirm,
      ConfirmFails, CreateInvestmentRecord, CompleteDecision, StoreRaises, FailAndReturn,
      Return, ForceVerification, AdoptRaises, ListForCancellation, CancelOrder, ListDone,
      Crash, Restart, records, locals, vars

(* When reconciliation comes to the end of its listing, every order still  *)
(* open at the broker has a lifecycle record: also on a store that lost    *)
(* all of them in the crash, with the broker moving orders meanwhile.      *)
THEOREM ReconciliationIsComplete == Spec => ReconciliationTracksOpen
<1>1. ASSUME AdoptInv, [Next]_vars
      PROVE  [pc = "adopt" /\ todo = {} /\ pc' = "idle" =>
                \A o \in OrderIds : IsOpen(o) => lifecycle[owner[o]] # "NONE"]_vars
  BY <1>1 DEF AdoptInv
<1> QED
  BY <1>1, Invariance, InitEstablishesAdoptInv, StepKeepsAdoptInv, PTL
     DEF Spec, ReconciliationTracksOpen

-----------------------------------------------------------------------------
(* Over a durable store the service implements OnceOnly: claims are        *)
(* attempts, fail() gives up, complete() decides, all else stutters.       *)

Attempting == {d \in Decisions : op[d] = "IN_PROGRESS"}

(* The effect of the three methods on the abstract state.                  *)
LEMMA ClaimIsAttempt ==
  ASSUME IInv, NEW d \in Decisions, Idem!Begin(d)
  PROVE  [Once!Next]_Once!vars
<1> USE DEF IInv, TypeOK, Idem!IdemTypeOK, Idem!Begin, Idem!Claimable
<1>1. result[d] = "NONE" /\ result' = result
  BY DEF ResultsInv
<1>2. CASE op[d] = "IN_PROGRESS"
  <2>1. op' = op
    BY <1>2
  <2> QED
    BY <1>1, <2>1 DEF Once!vars
<1>3. CASE op[d] # "IN_PROGRESS"
  <2>1. Attempting' = Attempting \union {d}
    BY <1>3 DEF Attempting
  <2>2. Once!Attempt(d)
    BY <1>1, <1>3, <2>1 DEF Once!Attempt, Attempting
  <2> QED
    BY <2>2 DEF Once!Next
<1> QED
  BY <1>2, <1>3

LEMMA FailureGivesUp ==
  ASSUME IInv, pc \in Working, Idem!Fail(cur)
  PROVE  Once!Next
<1>1. cur \in Decisions /\ op[cur] = "IN_PROGRESS" /\ op \in [Decisions -> Idem!OpStatus]
  BY DEF IInv, TypeOK, AttemptInv, Idem!IdemTypeOK
<1>2. Attempting' = Attempting \ {cur} /\ result' = result
  BY <1>1 DEF Attempting, Idem!Fail
<1>3. \E d \in Decisions : Once!GiveUp(d)
  BY <1>1, <1>2 DEF Once!GiveUp, Attempting
<1> QED
  BY <1>3 DEF Once!Next

LEMMA CompletionDecides ==
  ASSUME IInv, pc \in Working, NEW r \in ExecutionResults, Idem!Complete(cur, r)
  PROVE  Once!Next
<1>1. /\ cur \in Decisions /\ op[cur] = "IN_PROGRESS" /\ result[cur] = "NONE"
      /\ Idem!IdemTypeOK
  BY DEF IInv, TypeOK, AttemptInv, ResultsInv
<1>2. /\ Attempting' = Attempting \ {cur}
      /\ result' = [result EXCEPT ![cur] = r]
  BY <1>1 DEF Attempting, Idem!Complete, Idem!IdemTypeOK
<1>3. \E d \in Decisions : Once!Decide(d)
  BY <1>1, <1>2 DEF Once!Decide, Attempting
<1> QED
  BY <1>3 DEF Once!Next

LEMMA StepsRefineOnceOnly ==
  ASSUME Durable, IInv, [Next]_vars
  PROVE  [Once!Next]_Once!vars
<1> USE DEF Once!vars, idem
<1>1. CASE \E d \in Decisions : ClaimDecision(d)
  BY <1>1, ClaimIsAttempt DEF ClaimDecision
<1>2. CASE \E d \in Decisions : ClaimExpires(d)
  BY <1>2 DEF ClaimExpires, Idem!Expire
<1>3. CASE Execute
  <2>1. CASE pc \in Working /\ Idem!Fail(cur)
    BY <2>1, FailureGivesUp
  <2>2. CASE CompleteDecision
    <3>1. (IF seen = "FILLED" THEN "EXECUTED" ELSE "SUBMITTED") \in ExecutionResults
      BY DEF ExecutionResults
    <3> QED
      BY <2>2, <3>1, CompletionDecides DEF CompleteDecision, Working
  <2>3. CASE UNCHANGED <<op, result>>
    BY <2>3
  <2> QED
    BY <1>3, <2>1, <2>2, <2>3 DEF Execute, Verify, BuildRefused, BuildOrder, Submit,
       SubmitRejected, SubmitLostResponse, RecordResponse, Confirm, ConfirmFails,
       CreateInvestmentRecord, StoreRaises, FailAndReturn, KeyReleased, Working
<1>4. CASE \/ ReconcileOrCancel \/ ForceVerification \/ ListForCancellation
           \/ Crash \/ Restart \/ \E o \in OrderIds : BrokerMoves(o)
           \/ UNCHANGED vars
  BY <1>4 DEF ReconcileOrCancel, ListForReconciliation, ListDone, AdoptOrder, AdoptRaises,
     CancelOrder, ForceVerification, ListForCancellation, Crash, Restart,
     BrokerMoves, vars
<1> QED
  BY <1>1, <1>2, <1>3, <1>4 DEF Next

(* Whatever fails, an order submission with a recorded outcome keeps it    *)
(* and is not attempted again, as long as the records survive a crash.     *)
THEOREM OrdersImplementOnceOnly ==
  ASSUME Durable
  PROVE  Spec => ImplementsOnceOnly
<1>1. Init => Once!Init
  BY DEF Init, Idem!IdemInit, Once!Init
<1>2. IInv /\ [Next]_vars => [Once!Next]_Once!vars
  BY StepsRefineOnceOnly
<1> QED
  BY <1>1, <1>2, Invariance, PTL DEF Spec, ImplementsOnceOnly, Once!Spec

=============================================================================
