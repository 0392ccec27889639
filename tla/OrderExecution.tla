---------------------------- MODULE OrderExecution ----------------------------
(***************************************************************************)
(* PaperExecutionService (app/core/runtime/execution_service.py) executing *)
(* decisions against a paper broker, with the idempotency records and the  *)
(* lifecycle and investment records it keeps in the memory store.          *)
(*                                                                         *)
(* The service runs in one thread (the runtime loop).  Between any two of  *)
(* its steps the broker may fill or close an order, the process may crash, *)
(* and the TTL of a claim may run out.  What a crash leaves behind depends *)
(* on the store: SqliteMemoryStore keeps every record, InMemoryStore none. *)
(***************************************************************************)
EXTENDS FiniteSets, Naturals

CONSTANTS
  Decisions,    \* decision ids; each determines its client_order_id
  OrderIds,     \* ids the broker can still give: bounds the submissions
  NoOrder,      \* "no order id"
  NoDecision,   \* "no decision"
  Durable,      \* TRUE for SqliteMemoryStore, FALSE for InMemoryStore
  Faults        \* which failures the environment may produce

FaultKinds == {"crash", "lost_response", "confirm_error", "store_error"}

ASSUME ConstantsAssumption ==
  /\ NoOrder \notin OrderIds
  /\ NoDecision \notin Decisions
  /\ Durable \in BOOLEAN
  /\ Faults \subseteq FaultKinds

VARIABLES
  op, stale, result,  \* idempotency records of the order submissions
  owner,        \* broker: the decision each order was submitted for
  bstatus,      \* broker: status of each order, "ABSENT" if not submitted
  lifecycle,    \* store: current_status of the decision's lifecycle record
  invested,     \* store: investment records naming each order
  verified,     \* the cached paper-mode verification
  pc,           \* what the service's thread does next
  cur,          \* the decision being executed
  ord,          \* the order id the broker answered with
  seen,         \* the order status last read from the broker
  todo          \* orders listed for reconciliation or cancellation

idem    == <<op, stale, result>>
broker  == <<owner, bstatus>>
records == <<lifecycle, invested>>
locals  == <<cur, ord, seen, todo>>
vars    == <<idem, broker, records, verified, pc, locals>>

(* What complete() stores: the "status" of the operation's result.         *)
ExecutionResults == {"EXECUTED", "SUBMITTED"}

Idem == INSTANCE Idempotency WITH
          Keys <- Decisions, Results <- ExecutionResults, NoResult <- "NONE"

(* CLOSED stands for CANCELLED, EXPIRED and REJECTED; ACCEPTED differs     *)
(* from SUBMITTED in no branch of the code.                                *)
OpenStatus  == {"SUBMITTED", "PARTIALLY_FILLED"}
OrderStatus == OpenStatus \union {"FILLED", "CLOSED"}

Live(o)    == bstatus[o] # "ABSENT"
IsOpen(o)  == bstatus[o] \in OpenStatus
OpenOrders == {[order |-> o, status |-> bstatus[o]] : o \in {x \in OrderIds : IsOpen(x)}}

Working   == {"verify", "build", "submit", "record", "confirm", "invest", "complete"}
Listing   == {"adopt", "cancel"}
PCs       == Working \union Listing \union {"down", "recover", "idle"}

TypeOK ==
  /\ Idem!IdemTypeOK
  /\ owner \in [OrderIds -> Decisions \union {NoDecision}]
  /\ bstatus \in [OrderIds -> OrderStatus \union {"ABSENT"}]
  /\ lifecycle \in [Decisions -> OrderStatus \union {"NONE", "CREATED"}]
  /\ invested \in [OrderIds -> Nat]
  /\ verified \in {"unknown", "paper", "refused"}
  /\ pc \in PCs
  /\ cur \in Decisions \union {NoDecision}
  /\ pc \in Working => cur \in Decisions
  /\ ord \in OrderIds \union {NoOrder}
  /\ seen \in OrderStatus \union {"NONE"}
  /\ todo \in SUBSET [order : OrderIds, status : OpenStatus]

NoRecords ==
  /\ lifecycle = [d \in Decisions |-> "NONE"]
  /\ invested = [o \in OrderIds |-> 0]

Init ==
  /\ Idem!IdemInit
  /\ owner = [o \in OrderIds |-> NoDecision]
  /\ bstatus = [o \in OrderIds |-> "ABSENT"]
  /\ NoRecords
  /\ verified = "unknown"
  /\ pc = "down"
  /\ cur = NoDecision /\ ord = NoOrder /\ seen = "NONE" /\ todo = {}

-----------------------------------------------------------------------------
(* execute_decision: from the claim to the recorded outcome.               *)

(* The attempt is over: the thread is idle and its locals are gone.        *)
Return == pc' = "idle" /\ cur' = NoDecision /\ ord' = NoOrder /\ seen' = "NONE"

(* fail() and return; also the except clause around the whole attempt.     *)
(* fail() itself may raise: the attempt is left with its claim standing,   *)
(* which then expires like that of a process that died.                    *)
KeyReleased == Idem!Fail(cur) \/ ("store_error" \in Faults /\ UNCHANGED idem)
FailAndReturn == KeyReleased /\ Return /\ UNCHANGED todo

(* Mutant of ClaimDecision: the thread's decision is not set.              *)
ClaimWithoutDecision(d) ==
  /\ pc = "idle"
  /\ Idem!Begin(d)
  /\ pc' = "verify"
  /\ UNCHANGED <<broker, records, verified, locals>>

(* The key is claimed.  A refused claim returns DUPLICATE_SKIPPED and      *)
(* changes nothing: a stuttering step.                                     *)
ClaimDecision(d) ==
  /\ pc = "idle"
  /\ Idem!Begin(d)
  /\ pc' = "verify" /\ cur' = d
  /\ UNCHANGED <<broker, records, verified, ord, seen, todo>>

(* verify_paper_mode(): a cached answer is used however old it is.         *)
Verify ==
  /\ pc = "verify"
  /\ IF verified = "unknown" THEN verified' \in {"paper", "refused"}
                             ELSE UNCHANGED verified
  /\ UNCHANGED <<broker, records>>
  /\ \/ /\ verified' = "paper"
        /\ pc' = "build"
        /\ UNCHANGED <<idem, locals>>
     \/ /\ verified' = "refused"
        /\ FailAndReturn

(* No price, quantity rounded to zero, or OrderValidator raised.           *)
BuildRefused ==
  /\ pc = "build"
  /\ FailAndReturn
  /\ UNCHANGED <<broker, records, verified>>

(* Mutant of BuildOrder: the lifecycle record waits for the response.      *)
BuildOrderUnrecorded ==
  /\ pc = "build"
  /\ pc' = "submit"
  /\ UNCHANGED <<idem, broker, records, verified, locals>>

(* Price, quantity and validation passed; the lifecycle record is saved as *)
(* CREATED before the order leaves the process.                            *)
BuildOrder ==
  /\ pc = "build"
  /\ lifecycle' = [lifecycle EXCEPT ![cur] = "CREATED"]
  /\ pc' = "submit"
  /\ UNCHANGED <<idem, broker, invested, verified, locals>>

(* The broker takes the order under an id of its own: submit_order of the  *)
(* mock fills it at once (auto_fill) or leaves it SUBMITTED; the Alpaca    *)
(* endpoint may also close it at once.  The mock does not look at earlier  *)
(* client_order_ids; an endpoint that does refuses with SubmitRejected.    *)
BrokerTakes(o, s) ==
  /\ ~Live(o)
  /\ owner' = [owner EXCEPT ![o] = cur]
  /\ bstatus' = [bstatus EXCEPT ![o] = s]

Submit(o) ==
  /\ pc = "submit"
  /\ \E s \in OrderStatus : BrokerTakes(o, s) /\ seen' = s
  /\ ord' = o
  /\ pc' = "record"
  /\ UNCHANGED <<idem, records, verified, cur, todo>>

(* submit_order raised before the broker took the order (rejection, rate   *)
(* limit, connection refused).                                             *)
SubmitRejected ==
  /\ pc = "submit"
  /\ FailAndReturn
  /\ UNCHANGED <<broker, records, verified>>

(* submit_order raised after the broker took it: the answer timed out or   *)
(* could not be parsed.                                                    *)
SubmitLostResponse(o) ==
  /\ pc = "submit"
  /\ "lost_response" \in Faults
  /\ \E s \in OrderStatus : BrokerTakes(o, s)
  /\ FailAndReturn
  /\ UNCHANGED <<records, verified>>

RecordResponse ==
  /\ pc = "record"
  /\ lifecycle' = [lifecycle EXCEPT ![cur] = seen]
  /\ pc' = "confirm"
  /\ UNCHANGED <<idem, broker, invested, verified, locals>>

(* Mutants of Confirm: a partial fill counts as filled; no investment is   *)
(* recorded; the thread polls until the order is no longer open.           *)
ConfirmPartial ==
  /\ pc = "confirm"
  /\ seen' = bstatus[ord]
  /\ lifecycle' = [lifecycle EXCEPT ![cur] = bstatus[ord]]
  /\ pc' = IF bstatus[ord] \in {"FILLED", "PARTIALLY_FILLED"} THEN "invest" ELSE "complete"
  /\ UNCHANGED <<idem, broker, invested, verified, cur, ord, todo>>

ConfirmUninvested ==
  /\ pc = "confirm"
  /\ seen' = bstatus[ord]
  /\ lifecycle' = [lifecycle EXCEPT ![cur] = bstatus[ord]]
  /\ pc' = "complete"
  /\ UNCHANGED <<idem, broker, invested, verified, cur, ord, todo>>

ConfirmPolling ==
  /\ pc = "confirm"
  /\ seen' = bstatus[ord]
  /\ lifecycle' = [lifecycle EXCEPT ![cur] = bstatus[ord]]
  /\ pc' = CASE bstatus[ord] = "FILLED" -> "invest"
             [] IsOpen(ord) -> "record"
             [] OTHER -> "complete"
  /\ UNCHANGED <<idem, broker, invested, verified, cur, ord, todo>>

(* get_order(): the broker's present word on the order, which decides.     *)
Confirm ==
  /\ pc = "confirm"
  /\ seen' = bstatus[ord]
  /\ lifecycle' = [lifecycle EXCEPT ![cur] = bstatus[ord]]
  /\ pc' = IF bstatus[ord] = "FILLED" THEN "invest" ELSE "complete"
  /\ UNCHANGED <<idem, broker, invested, verified, cur, ord, todo>>

ConfirmFails ==
  /\ pc = "confirm"
  /\ "confirm_error" \in Faults
  /\ FailAndReturn
  /\ UNCHANGED <<broker, records, verified>>

CreateInvestmentRecord ==
  /\ pc = "invest"
  /\ invested' = [invested EXCEPT ![ord] = @ + 1]
  /\ pc' = "complete"
  /\ UNCHANGED <<idem, broker, lifecycle, verified, locals>>

CompleteDecision ==
  /\ pc = "complete"
  /\ Idem!Complete(cur, IF seen = "FILLED" THEN "EXECUTED" ELSE "SUBMITTED")
  /\ Return
  /\ UNCHANGED <<broker, records, verified, todo>>

(* A memory-store write raises: the except clause fails the key.           *)
StoreRaises ==
  /\ pc \in {"build", "record", "invest", "complete"}
  /\ "store_error" \in Faults
  /\ FailAndReturn
  /\ UNCHANGED <<broker, records, verified>>

-----------------------------------------------------------------------------
(* Health check, reconciliation at start-up, cancellation on death.        *)

(* RuntimeHealthChecker forces a new verification once per cycle.          *)
ForceVerification ==
  /\ pc = "idle"
  /\ verified' \in {"paper", "refused"}
  /\ UNCHANGED <<idem, broker, records, pc, locals>>

(* reconcile_open_orders: one listing, then one record at a time.  Only    *)
(* orders that are open now are listed; if that fails, or the recovery     *)
(* before it raised, nothing is reconciled.                                *)
ListForReconciliation ==
  /\ pc = "recover"
  /\ \/ todo' = OpenOrders /\ pc' = "adopt"
     \/ UNCHANGED todo /\ pc' = "idle"
  /\ UNCHANGED <<idem, broker, records, verified, cur, ord, seen>>

(* Mutant of AdoptOrder: an order without a record is passed over.         *)
AdoptOnlyKnown(r) ==
  /\ pc = "adopt"
  /\ r \in todo
  /\ lifecycle' = [lifecycle EXCEPT ![owner[r.order]] = IF @ = "NONE" THEN @ ELSE r.status]
  /\ todo' = todo \ {r}
  /\ UNCHANGED <<idem, broker, invested, verified, pc, cur, ord, seen>>

(* The listed order's lifecycle record is updated, or created under        *)
(* generation "recovered" if there is none.                                *)
AdoptOrder(r) ==
  /\ pc = "adopt"
  /\ r \in todo
  /\ lifecycle' = [lifecycle EXCEPT ![owner[r.order]] = r.status]
  /\ todo' = todo \ {r}
  /\ UNCHANGED <<idem, broker, invested, verified, pc, cur, ord, seen>>

(* A record cannot be read or written: _recover_from_restart gives the     *)
(* rest of the listing up and the start goes on.                           *)
AdoptRaises ==
  /\ pc = "adopt" /\ todo # {}
  /\ "store_error" \in Faults
  /\ pc' = "idle" /\ todo' = {}
  /\ UNCHANGED <<idem, broker, records, verified, cur, ord, seen>>

(* cancel_all_open_orders: one listing, then one request per order.        *)
ListForCancellation ==
  /\ pc = "idle"
  /\ todo' = OpenOrders
  /\ pc' = "cancel"
  /\ UNCHANGED <<idem, broker, records, verified, cur, ord, seen>>

(* A request may be refused, fail, or be accepted and carried out later:   *)
(* the order then stays as it is.  No record is updated.                   *)
CancelOrder(r) ==
  /\ pc = "cancel"
  /\ r \in todo
  /\ \/ IsOpen(r.order) /\ bstatus' = [bstatus EXCEPT ![r.order] = "CLOSED"]
     \/ UNCHANGED bstatus
  /\ todo' = todo \ {r}
  /\ UNCHANGED <<idem, owner, records, verified, pc, cur, ord, seen>>

ListDone ==
  /\ pc \in Listing
  /\ todo = {}
  /\ pc' = "idle"
  /\ UNCHANGED <<idem, broker, records, verified, locals>>

-----------------------------------------------------------------------------
(* The broker, the clock and the process.                                  *)

BrokerMoves(o) ==
  /\ \/ bstatus[o] = "SUBMITTED" /\ bstatus' = [bstatus EXCEPT ![o] = "PARTIALLY_FILLED"]
     \/ IsOpen(o) /\ bstatus' = [bstatus EXCEPT ![o] = "FILLED"]
     \/ IsOpen(o) /\ bstatus' = [bstatus EXCEPT ![o] = "CLOSED"]
  /\ UNCHANGED <<idem, owner, records, verified, pc, locals>>

ClaimExpires(d) ==
  /\ Idem!Expire(d)
  /\ UNCHANGED <<broker, records, verified, pc, locals>>

(* The process dies: memory is gone, the records too if the store is       *)
(* InMemoryStore.  The broker does not notice.                             *)
Crash ==
  /\ "crash" \in Faults
  /\ pc # "down"
  /\ pc' = "down"
  /\ verified' = "unknown"
  /\ cur' = NoDecision /\ ord' = NoOrder /\ seen' = "NONE" /\ todo' = {}
  /\ IF Durable
     THEN UNCHANGED <<idem, records>>
     ELSE /\ op' = [d \in Decisions |-> "ABSENT"]
          /\ stale' = {}
          /\ result' = [d \in Decisions |-> "NONE"]
          /\ lifecycle' = [d \in Decisions |-> "NONE"]
          /\ invested' = [o \in OrderIds |-> 0]
  /\ UNCHANGED broker

(* start(): _recover_from_restart reconciles before the loop begins.       *)
Restart ==
  /\ pc = "down"
  /\ pc' = "recover"
  /\ UNCHANGED <<idem, broker, records, verified, locals>>

-----------------------------------------------------------------------------
Execute ==
  \/ Verify \/ BuildRefused \/ BuildOrder
  \/ SubmitRejected
  \/ \E o \in OrderIds : Submit(o) \/ SubmitLostResponse(o)
  \/ RecordResponse \/ Confirm \/ ConfirmFails
  \/ CreateInvestmentRecord \/ CompleteDecision \/ StoreRaises

ReconcileOrCancel ==
  \/ ListForReconciliation \/ AdoptRaises \/ ListDone
  \/ \E r \in todo : AdoptOrder(r) \/ CancelOrder(r)

Next ==
  \/ \E d \in Decisions : ClaimDecision(d) \/ ClaimExpires(d)
  \/ Execute
  \/ ReconcileOrCancel
  \/ ForceVerification \/ ListForCancellation
  \/ \E o \in OrderIds : BrokerMoves(o)
  \/ Crash \/ Restart

(* A started attempt, listing or start-up runs on: every provider call has *)
(* a timeout and no step waits for another thread.  Nothing obliges a new  *)
(* decision, a broker move or a crash to happen.                           *)
Fairness == WF_vars(Execute) /\ WF_vars(ReconcileOrCancel)

Spec == Init /\ [][Next]_vars /\ Fairness

-----------------------------------------------------------------------------
(* With a durable store an order is never live at the broker without a     *)
(* lifecycle record of its decision, whatever step the process died in:    *)
(* the CREATED record is written before submit_order.                      *)
TrackedBeforeLive ==
  Durable => \A o \in OrderIds : Live(o) => lifecycle[owner[o]] # "NONE"

(* An investment record exists only for an order the broker filled, and at *)
(* most one per order, through retries of the decision and restarts.       *)
InvestmentsConfirmed ==
  \A o \in OrderIds : /\ invested[o] <= 1
                      /\ invested[o] = 1 => bstatus[o] = "FILLED"

(* A key completed as EXECUTED has its investment record: no crash or      *)
(* failing write can leave a decision settled but its position unrecorded. *)
ExecutedHasInvestment ==
  \A d \in Decisions :
    result[d] = "EXECUTED" =>
      \E o \in OrderIds : owner[o] = d /\ invested[o] = 1

(* No order reaches the broker unless the cached verification is positive. *)
LiveOnlyWhenVerified ==
  [][\A o \in OrderIds : ~Live(o) /\ Live(o)' => verified = "paper"]_vars

(* With a durable store a completed decision stays completed with the same *)
(* result and gets no further order.                                       *)
NothingAfterCompletion ==
  [][Durable => \A d \in Decisions :
       op[d] = "COMPLETED" =>
         /\ op'[d] = "COMPLETED"
         /\ result'[d] = result[d]
         /\ \A o \in OrderIds : owner'[o] = d => owner[o] = d]_vars

(* When reconciliation has worked through its listing, every order still   *)
(* open at the broker has a lifecycle record, even if the process lost all *)
(* its records in the crash.                                               *)
ReconciliationTracksOpen ==
  [][pc = "adopt" /\ todo = {} /\ pc' = "idle" =>
       \A o \in OrderIds : IsOpen(o) => lifecycle[owner[o]] # "NONE"]_vars

(* Every started attempt, listing or start-up comes back to idle, unless   *)
(* the process dies first.                                                 *)
ThreadReturns == pc \notin {"idle", "down"} ~> pc \in {"idle", "down"}

(* "idempotent per client_order_id (retries never duplicate orders)".      *)
RetriesNeverDuplicate ==
  \A o1, o2 \in OrderIds :
    Live(o1) /\ Live(o2) /\ owner[o1] = owner[o2] => o1 = o2

(* The service keeps the promise of OnceOnly: an IN_PROGRESS record is an  *)
(* attempt, a stored result is the outcome.                                *)
Once == INSTANCE OnceOnly WITH
          Ops <- Decisions, Outcomes <- ExecutionResults, Undecided <- "NONE",
          attempting <- {d \in Decisions : op[d] = "IN_PROGRESS"},
          outcome <- result

ImplementsOnceOnly == Once!Spec

=============================================================================
