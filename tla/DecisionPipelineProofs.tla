------------------------ MODULE DecisionPipelineProofs ------------------------
(***************************************************************************)
(* Proofs about the decision pipeline, for every policy, portfolio, limit, *)
(* set of reports and set of faults.                                       *)
(***************************************************************************)
EXTENDS DecisionPipeline, SumFacts, TLAPS

-----------------------------------------------------------------------------
(* Types.                                                                  *)

RunTyped ==
    /\ stage \in {"NONE", "RESEARCHING", "DEEP_ANALYSIS", "RISK_ASSESSMENT", "BLOCKED",
                  "COMPLETED", "FAILED"}
    /\ account # None => account.held \in Nat /\ account.cash \in Int
    /\ DOMAIN reply = Researchers
    /\ \A a \in Researchers : reply[a].status \in {"idle", "running", "replied", "raised"}
    /\ late \in BOOLEAN
    /\ DOMAIN heard = Researchers
    /\ verdict \in RiskDecisions \cup {None}
    /\ decision \in {"INVEST", "DEFER", "INSUFFICIENT_DATA", None}

(* The run's records are well-typed after it is over.                      *)
LEMMA RestTyped ==
    ASSUME Rest
    PROVE  RunTyped' /\ pc' = "idle"
  BY DEF Rest, RunTyped, Silent, Unread

LEMMA AssessTyped ==
    ASSUME NEW p, NEW q, NEW s, NEW n, NEW c, NEW d
    PROVE  Assess(p, q, s, n, c, d) \in RiskDecisions
  BY DEF Assess, RiskDecisions

LEMMA ReadTyped ==
    ASSUME TypeOK, NEW r
    PROVE  ReadAccount(r) # None =>
             ReadAccount(r).held \in Nat /\ ReadAccount(r).cash \in Int
  BY DEF TypeOK, ReadAccount

(* A step of the runtime or an agent: the broker is left alone but for an  *)
(* order, and the run's records stay well-typed.                           *)
BrokerTyped ==
    /\ held \in Nat /\ cash \in Int /\ pending \in Nat
    /\ cooling \in BOOLEAN /\ stopped \in BOOLEAN /\ blind \in BOOLEAN

PCs == {"idle", "gate", "dispatch", "research", "deep", "risk", "conclude", "record",
        "protect", "order"}

LEMMA TypeSplit == TypeOK <=> BrokerTyped /\ pc \in PCs /\ RunTyped
  BY DEF TypeOK, BrokerTyped, RunTyped, PCs

LEMMA TypeStep == TypeOK /\ [Next]_vars => TypeOK'
<1> SUFFICES ASSUME TypeOK, [Next]_vars
             PROVE  BrokerTyped' /\ (pc \in PCs)' /\ RunTyped'
  BY TypeSplit DEF TypeOK, BrokerTyped, RunTyped, PCs
<1>0. BrokerTyped /\ pc \in PCs /\ RunTyped
  BY TypeSplit
<1>1. CASE ReadPortfolio
  BY <1>0, <1>1, ReadTyped DEF ReadPortfolio, broker, BrokerTyped, RunTyped, PCs
<1>2. CASE Gate
  <2>1. BrokerTyped'
    BY <1>0, <1>2 DEF Gate, broker, BrokerTyped
  <2>2. CASE pc' = "dispatch" /\ UNCHANGED run
    BY <1>0, <2>1, <2>2 DEF run, RunTyped, PCs
  <2>3. CASE Rest
    BY <2>1, <2>3, RestTyped DEF PCs
  <2> QED
    BY <1>2, <2>2, <2>3 DEF Gate
<1>3. CASE Dispatch
  <2>1. BrokerTyped'
    BY <1>0, <1>3 DEF Dispatch, broker, BrokerTyped
  <2>2. CASE Rest
    BY <2>1, <2>2, RestTyped DEF PCs
  <2>3. CASE ~Rest
    <3>1. /\ account' = ReadAccount(TRUE) /\ stage' = "RESEARCHING" /\ pc' = "research"
          /\ reply' = [a \in Researchers |-> [status |-> "running", data |-> None]]
          /\ UNCHANGED <<late, heard, dossier, verdict, decision>>
      BY <1>3, <2>3 DEF Dispatch
    <3>2. account' # None => account'.held \in Nat /\ account'.cash \in Int
      BY <3>1, ReadTyped
    <3> QED
      BY <1>0, <2>1, <3>1, <3>2 DEF RunTyped, PCs
  <2> QED
    BY <2>2, <2>3
<1>4. CASE \E a \in Researchers : AgentReplies(a)
  BY <1>0, <1>4 DEF AgentReplies, broker, BrokerTyped, RunTyped, PCs
<1>5. CASE DispatchTimesOut
  BY <1>0, <1>5 DEF DispatchTimesOut, broker, BrokerTyped, RunTyped, PCs
<1>6. CASE Gather
  BY <1>0, <1>6 DEF Gather, broker, BrokerTyped, RunTyped, PCs, Silent, Unread
<1>7. CASE DeepDive
  BY <1>0, <1>7 DEF DeepDive, broker, BrokerTyped, RunTyped, PCs
<1>8. CASE AssessRisk
  <2>1. verdict' \in RiskDecisions \cup {None}
    BY <1>8, AssessTyped DEF AssessRisk, Verdict
  <2>2. stage' \in {"BLOCKED", "COMPLETED", "FAILED"}
    BY <1>8 DEF AssessRisk
  <2> QED
    BY <1>0, <1>8, <2>1, <2>2 DEF AssessRisk, broker, BrokerTyped, RunTyped, PCs
<1>9. CASE Conclude
  <2>1. BrokerTyped'
    BY <1>0, <1>9 DEF Conclude, broker, BrokerTyped
  <2>2. CASE Rest
    BY <2>1, <2>2, RestTyped DEF PCs
  <2>3. CASE ~Rest
    BY <1>0, <1>9, <2>1, <2>3 DEF Conclude, Synthesis, RunTyped, PCs
  <2> QED
    BY <2>2, <2>3
<1>10. CASE RecordDecision
  <2>1. BrokerTyped'
    BY <1>0, <1>10 DEF RecordDecision, broker, BrokerTyped
  <2>2. CASE Rest
    BY <2>1, <2>2, RestTyped DEF PCs
  <2>3. CASE ~Rest
    BY <1>0, <1>10, <2>1, <2>3 DEF RecordDecision, RunTyped, PCs, Unread
  <2> QED
    BY <2>2, <2>3
<1>11. CASE Protect
  <2>1. BrokerTyped'
    BY <1>0, <1>11 DEF Protect, broker, BrokerTyped
  <2>2. CASE Rest
    BY <2>1, <2>2, RestTyped DEF PCs
  <2>3. CASE ~Rest
    BY <1>0, <1>11, <2>1, <2>3 DEF Protect, run, RunTyped, PCs
  <2> QED
    BY <2>2, <2>3
<1>12. CASE PlaceOrder
  <2>1. BrokerTyped'
    <3>1. pending' \in {pending, pending + 1} /\ UNCHANGED <<held, cash, cooling, stopped, blind>>
      BY <1>12 DEF PlaceOrder, Size
    <3>2. pending' \in Nat
      BY <1>0, <3>1 DEF BrokerTyped
    <3> QED
      BY <1>0, <3>1, <3>2 DEF BrokerTyped
  <2> QED
    BY <1>12, <2>1, RestTyped DEF PlaceOrder, PCs
<1>13. CASE OrderFills \/ OrderLapses \/ CooldownPasses \/ EngageStop
  <2>1. UNCHANGED <<pc, run>>
    BY <1>13 DEF OrderFills, OrderLapses, CooldownPasses, EngageStop
  <2>2. BrokerTyped'
    <3>1. held' \in Nat /\ cash' \in Int /\ pending' \in Nat
      BY <1>0, <1>13 DEF OrderFills, OrderLapses, CooldownPasses, EngageStop, broker,
                         BrokerTyped, Size
    <3>2. cooling' \in BOOLEAN /\ stopped' \in BOOLEAN /\ blind' \in BOOLEAN
      BY <1>0, <1>13 DEF OrderFills, OrderLapses, CooldownPasses, EngageStop, BrokerTyped
    <3> QED
      BY <3>1, <3>2 DEF BrokerTyped
  <2> QED
    BY <1>0, <2>1, <2>2 DEF run, RunTyped, PCs
<1>14. CASE Crash
  <2>1. BrokerTyped'
    BY <1>0, <1>14, PipelineAssumption DEF Crash, broker, BrokerTyped
  <2> QED
    BY <1>14, <2>1, RestTyped DEF Crash, PCs
<1>15. CASE UNCHANGED vars
  BY <1>0, <1>15 DEF vars, broker, run, BrokerTyped, RunTyped, PCs
<1> QED
  BY <1>1, <1>2, <1>3, <1>4, <1>5, <1>6, <1>7, <1>8, <1>9, <1>10, <1>11, <1>12, <1>13, <1>14,
     <1>15 DEF Next, Step

(* The verdicts, stages and decisions stay among those the code names, and *)
(* the account read for a run is well-typed.                               *)
THEOREM TypeCorrect == Spec => []TypeOK
<1>1. Init => TypeOK
  <2> SUFFICES ASSUME Init PROVE BrokerTyped /\ pc \in PCs /\ RunTyped
    BY TypeSplit
  <2>1. held \in Nat /\ cash \in Int /\ pending \in Nat
    BY PipelineAssumption DEF Init
  <2>2. BrokerTyped /\ pc \in PCs
    BY <2>1 DEF Init, BrokerTyped, PCs
  <2>3. RunTyped
    BY DEF Init, RunTyped, Silent, Unread
  <2> QED
    BY <2>2, <2>3
<1> QED
  BY <1>1, TypeStep, PTL DEF Spec

-----------------------------------------------------------------------------
(* The bound on the position.                                              *)

(* What an approval says of the size.                                      *)
LEMMA ApprovalBounds ==
    ASSUME NEW h \in Nat, NEW a, a.held = h, NEW s, NEW n, NEW c,
           Assess(Portfolio(a), Proposal, s, n, c, None)
              \in {"APPROVED", "APPROVED_WITH_WARNINGS"}
    PROVE  AtMost(h + Size, Policy.concentration, PortfolioValue)
<1> DEFINE P == Portfolio(a)
           sizes == SizeRules(P, Proposal)
<1>1. SizeBreaches(P, Proposal) = {}
  BY DEF Assess
<1>2. sizes.max_portfolio_concentration_pct
  <2>1. "max_portfolio_concentration_pct" \in DOMAIN sizes
    BY DEF SizeRules
  <2> QED
    BY <1>1, <2>1 DEF SizeBreaches
<1>3. AtMost(HeldValue(P, Asset) + Size, Policy.concentration, PortfolioValue)
  BY <1>2 DEF SizeRules, Proposal, Portfolio
<1>4. HeldValue(P, Asset) = h
  <2>1. P.positions = [t \in DOMAIN Holdings(h) |->
                         [value |-> Holdings(h)[t], class |-> NoClass, group |-> None]]
    BY DEF Portfolio
  <2>2. CASE h > 0
    BY <2>1, <2>2 DEF HeldValue, Holdings
  <2>3. CASE h = 0
    BY <2>1, <2>3, PipelineAssumption DEF HeldValue, Holdings
  <2> QED
    BY <2>2, <2>3
<1> QED
  BY <1>3, <1>4

AfterDispatch == {"research", "deep", "risk", "conclude", "record", "protect", "order"}
Approved == \/ pc = "conclude" /\ verdict \in {"APPROVED", "APPROVED_WITH_WARNINGS"}
            \/ pc \in {"record", "protect"} /\ decision = "INVEST"
            \/ pc = "order"

(* While no gate was blind: orders in flight, beside the position read at  *)
(* the dispatch, stay below the gate's limit until the order is placed.    *)
InFlight ==
    /\ pc \in AfterDispatch => account.held \in Nat
    /\ ~blind =>
         /\ OvershootIsBounded
         /\ pc = "dispatch" => pending <= MaxOpenOrders - 1
         /\ pc \in AfterDispatch => Committed <= account.held + MaxOpenOrders - 1
    /\ Approved => AtMost(account.held + Size, Policy.concentration, PortfolioValue)

LEMMA InFlightStep == TypeOK /\ InFlight /\ [Next]_vars => InFlight'
<1> SUFFICES ASSUME TypeOK, InFlight, [Next]_vars PROVE InFlight'
  OBVIOUS
<1>0. /\ held \in Nat /\ pending \in Nat
      /\ MaxOpenOrders \in Nat \ {0} /\ Policy.concentration * PortfolioValue \in Nat
  BY PipelineAssumption DEF TypeOK
<1> DEFINE cap == Policy.concentration * PortfolioValue
<1>a. \A x : AtMost(x, Policy.concentration, PortfolioValue) <=> 100 * x <= cap
  BY DEF AtMost
<1>c. cap \in Nat
  BY <1>0
<1>d. held \in Nat /\ pending \in Nat /\ MaxOpenOrders \in Nat
      /\ Committed \in Int /\ (MaxOpenOrders - 1) * Size = MaxOpenOrders - 1
  BY <1>0 DEF Size, Committed
<1> HIDE DEF cap
<1>b. ~blind => 100 * (Committed - (MaxOpenOrders - 1) * Size) <= cap
  BY <1>a DEF InFlight, OvershootIsBounded
<1>1. CASE Rest /\ UNCHANGED broker /\ (blind => blind')
  BY <1>1 DEF Rest, broker, Committed, InFlight, OvershootIsBounded,
        AfterDispatch, Approved
<1>2. CASE ReadPortfolio
  BY <1>2 DEF ReadPortfolio, broker, Committed, InFlight, OvershootIsBounded,
        AfterDispatch, Approved
<1>3. CASE Gate /\ ~Rest
  <2>1. ~blind' => ~blind /\ pending < MaxOpenOrders
    BY <1>3 DEF Gate, GateOpens
  <2>2. pending < MaxOpenOrders => pending <= MaxOpenOrders - 1
    BY <1>0
  <2>3. pc' = "dispatch" /\ UNCHANGED <<held, pending>>
    BY <1>3 DEF Gate, broker
  <2> QED
    BY <2>1, <2>2, <2>3 DEF InFlight, Committed, OvershootIsBounded, AfterDispatch, Approved
<1>4. CASE Dispatch /\ ~Rest
  <2>1. account' = [held |-> held, cash |-> cash] /\ pc' = "research"
    BY <1>4 DEF Dispatch, ReadAccount
  <2> QED
    BY <1>0, <1>4, <2>1 DEF Dispatch, broker, Committed, InFlight, OvershootIsBounded,
        AfterDispatch, Approved
<1>5. CASE (\E a \in Researchers : AgentReplies(a)) \/ DispatchTimesOut \/ Gather \/ DeepDive
  BY <1>5 DEF AgentReplies, DispatchTimesOut, Gather, DeepDive, broker, Committed, InFlight,
              OvershootIsBounded, AfterDispatch, Approved
<1>6. CASE AssessRisk
  <2>1. pc = "risk" /\ pc' = "conclude" /\ UNCHANGED <<broker, blind, account>>
    BY <1>6 DEF AssessRisk
  <2>2. verdict' \in {"APPROVED", "APPROVED_WITH_WARNINGS"} =>
           AtMost(account.held + Size, Policy.concentration, PortfolioValue)
    <3> SUFFICES ASSUME verdict' \in {"APPROVED", "APPROVED_WITH_WARNINGS"}
                 PROVE  AtMost(account.held + Size, Policy.concentration, PortfolioValue)
      OBVIOUS
    <3>1. verdict' = Verdict
      BY <1>6, PipelineAssumption DEF AssessRisk, RiskDecisions
    <3>2. account.held \in Nat
      BY <2>1 DEF InFlight, AfterDispatch
    <3> QED
      BY <3>1, <3>2, ApprovalBounds DEF Verdict
  <2> QED
    BY <2>1, <2>2 DEF broker, Committed, InFlight, OvershootIsBounded,
        AfterDispatch, Approved
<1>7. CASE Conclude /\ ~Rest
  <2>1. decision' = "INVEST" => verdict \in {"APPROVED", "APPROVED_WITH_WARNINGS"}
    BY <1>7 DEF Conclude, Synthesis
  <2> QED
    BY <1>7, <2>1 DEF Conclude, broker, Committed, InFlight, OvershootIsBounded,
        AfterDispatch, Approved
<1>8. CASE RecordDecision /\ ~Rest
  BY <1>8 DEF RecordDecision, broker, Committed, InFlight, OvershootIsBounded,
        AfterDispatch, Approved
<1>9. CASE Protect /\ ~Rest
  BY <1>9 DEF Protect, run, broker, Committed, InFlight, OvershootIsBounded,
        AfterDispatch, Approved
<1>10. CASE PlaceOrder
  <2>1. /\ pc = "order" /\ Rest /\ pending' \in {pending, pending + 1}
        /\ UNCHANGED <<held, blind>>
    BY <1>10 DEF PlaceOrder, Size
  <2>2. pc' = "idle"
    BY <2>1 DEF Rest
  <2>3. ~blind => /\ account.held \in Nat
                  /\ Committed <= account.held + MaxOpenOrders - 1
                  /\ 100 * (account.held + 1) <= cap
    BY <1>a, <2>1 DEF InFlight, AfterDispatch, Approved, Size
  <2>4. Committed' \in Int /\ Committed' <= Committed + 1
    <3>1. CASE pending' = pending
      BY <1>d, <2>1, <3>1 DEF Committed
    <3>2. CASE pending' = pending + 1
      BY <1>d, <2>1, <3>2 DEF Committed
    <3> QED
      BY <2>1, <3>1, <3>2
  <2>5. ~blind' => 100 * (Committed' - (MaxOpenOrders - 1) * Size) <= cap
    BY <1>c, <1>d, <2>1, <2>3, <2>4
  <2> QED
    BY <1>a, <2>2, <2>5 DEF InFlight, OvershootIsBounded, AfterDispatch, Approved
<1>11. CASE OrderFills \/ OrderLapses
  <2>1. UNCHANGED <<blind, pc, account, verdict, decision>>
    BY <1>11 DEF OrderFills, OrderLapses, run
  <2>2. Committed' \in Int /\ Committed' <= Committed
    BY <1>d, <1>11 DEF OrderFills, OrderLapses, Size, Committed
  <2>3. pending' <= pending /\ pending' \in Nat
    BY <1>d, <1>11 DEF OrderFills, OrderLapses
  <2>4. ~blind' => 100 * (Committed' - (MaxOpenOrders - 1) * Size) <= cap
    BY <1>b, <1>c, <1>d, <2>1, <2>2
  <2>5. ~blind /\ pc = "dispatch" => pending' <= MaxOpenOrders - 1
    BY <1>d, <2>3 DEF InFlight
  <2>6. ~blind /\ pc \in AfterDispatch => Committed' <= account.held + MaxOpenOrders - 1
    BY <1>d, <2>2 DEF InFlight
  <2> QED
    BY <1>a, <2>1, <2>4, <2>5, <2>6 DEF InFlight, OvershootIsBounded, AfterDispatch, Approved
<1>12. CASE CooldownPasses \/ EngageStop \/ UNCHANGED vars
  BY <1>12 DEF CooldownPasses, EngageStop, vars, broker, run, Committed, InFlight,
               OvershootIsBounded, AfterDispatch, Approved
<1>13. CASE Crash
  BY <1>1, <1>13 DEF Crash
<1>14. ASSUME Rest, Gate \/ Dispatch \/ Conclude \/ RecordDecision \/ Protect
       PROVE  InFlight'
  <2>1. UNCHANGED broker
    BY <1>14 DEF Gate, Dispatch, Conclude, RecordDecision, Protect
  <2>2. blind => blind'
    BY <1>14 DEF Gate, Dispatch, Conclude, RecordDecision, Protect
  <2> QED
    BY <1>1, <1>14, <2>1, <2>2
<1> QED
  BY <1>2, <1>3, <1>4, <1>5, <1>6, <1>7, <1>8, <1>9, <1>10, <1>11, <1>12, <1>13, <1>14
  DEF Next, Step

(* As long as the gate sees the order list, position and orders in flight  *)
(* exceed the concentration limit by no more than the other open orders.   *)
THEOREM OvershootBounded == Spec => []OvershootIsBounded
<1>1. Init => InFlight
  BY PipelineAssumption DEF Init, InFlight, OvershootIsBounded, AfterDispatch, Approved, AtMost,
                            Size, Committed
<1>2. InFlight => OvershootIsBounded
  BY DEF InFlight, OvershootIsBounded
<1> QED
  BY <1>1, <1>2, InFlightStep, TypeCorrect, PTL DEF Spec
-----------------------------------------------------------------------------
(* What the later stages hear.                                             *)

(* A cluster's extreme readings are corroborated, whatever its numbers.    *)
LEMMA ExtremesCorroborated ==
    ASSUME NEW c, c.articles \in Nat, c.publishers \in Nat, c.reliability \in Nat
    PROVE  /\ Crises!Severity(c) = "CRITICAL" \/ Crises!Escalation(c) = "RESOLVED"
                => c.primary \/ c.articles >= 2
           /\ Crises!Probability(c) = "HIGH"
                => ~c.conflicts /\ (c.primary \/ c.publishers # 1)
<1>1. Crises!Severity(c) = "CRITICAL" => c.primary \/ c.articles >= 2
  BY DEF Crises!Severity
<1>2. Crises!Escalation(c) = "RESOLVED" => c.primary \/ c.articles >= 2
  BY DEF Crises!Escalation
<1>3. Crises!Probability(c) = "HIGH" => ~c.conflicts /\ Crises!Confidence(c) >= 80
  BY DEF Crises!Probability
<1>4. ~c.primary /\ c.publishers = 1 => ~(Crises!Confidence(c) >= 80)
  BY DEF Crises!Confidence, Crises!Lesser, Crises!Greater
<1> QED
  BY <1>1, <1>2, <1>3, <1>4

ClustersTyped ==
    \A c \in UNION ClusterSets :
        c.articles \in Nat /\ c.publishers \in Nat /\ c.reliability \in Nat

(* Extreme readings of the news reach the later stages only when an        *)
(* official source or several reports carry them.                          *)
THEOREM ExtremesAreCorroborated ==
    ASSUME ClustersTyped
    PROVE  Spec => []CorroboratedExtremes
<1>1. CorroboratedExtremes
  <2> SUFFICES ASSUME NEW c \in UNION ClusterSets
               PROVE  LET e == Crises!Crisis(c)
                      IN  /\ e.severity = "CRITICAL" \/ e.escalation = "RESOLVED"
                               => c.primary \/ c.articles >= 2
                          /\ e.probability = "HIGH"
                               => ~c.conflicts /\ (c.primary \/ c.publishers # 1)
    BY DEF CorroboratedExtremes
  <2>1. LET e == Crises!Crisis(c)
        IN  /\ e.severity = Crises!Severity(c)
            /\ e.escalation = Crises!Escalation(c)
            /\ e.probability = Crises!Probability(c)
    BY DEF Crises!Crisis
  <2> QED
    BY <2>1, ExtremesCorroborated DEF ClustersTyped
<1> QED
  BY <1>1, PTL

(* The dossier is drawn up from what was heard in the same run, and gone   *)
(* after the Risk Manager's stage.                                         *)
DossierIsOfRun ==
    dossier # None =>
        /\ pc = "risk"
        /\ \E s \in Statements, f \in Feeds :
              dossier = Deep!Dossier(s, f, "profile" \in f, SnapshotOf(heard["market_research"]),
                                     heard["news_research"], heard["crisis_risk"], 45)

LEMMA StrongIsUncontested ==
    ASSUME NEW s, NEW f, NEW h, NEW m, NEW n, NEW c,
           Deep!Dossier(s, f, h, m, n, c, 45).thesis = "STRONG_SUPPORT"
    PROVE  /\ m # None /\ m.trend = "UPTREND"
           /\ Deep!Contradictions(s, m, n, c) = {}
<1>1. Deep!Dossier(s, f, h, m, n, c, 45).thesis
        = Deep!ThesisStatus(s, m, Deep!Contradictions(s, m, n, c),
                            Deep!Risks(s, m, c, h))
  BY DEF Deep!Dossier
<1> QED
  BY <1>1 DEF Deep!ThesisStatus

(* A thesis is strongly supported only if nothing heard in the same run    *)
(* speaks against it.                                                      *)
THEOREM ThesesOwnConflicts == Spec => []ThesisOwnsItsConflicts
<1>1. Init => DossierIsOfRun
  BY DEF Init, DossierIsOfRun
<1>2. DossierIsOfRun /\ [Next]_vars => DossierIsOfRun'
  <2> SUFFICES ASSUME DossierIsOfRun, [Next]_vars PROVE DossierIsOfRun'
    OBVIOUS
  <2>1. CASE dossier' = None
    BY <2>1 DEF DossierIsOfRun
  <2>2. CASE DeepDive
    BY <2>2 DEF DeepDive, Dossiers, DossierIsOfRun
  <2>3. CASE UNCHANGED <<pc, dossier, heard>>
    BY <2>3 DEF DossierIsOfRun
  <2>4. CASE UNCHANGED dossier /\ pc # "risk"
    BY <2>4 DEF DossierIsOfRun
  <2>5. \/ dossier' = None
        \/ DeepDive
        \/ UNCHANGED <<pc, dossier, heard>>
        \/ UNCHANGED dossier /\ pc # "risk"
    <3>1. CASE Step
      <4>1. CASE ReadPortfolio \/ Gate \/ Dispatch
        BY <4>1 DEF ReadPortfolio, Gate, Dispatch, Rest, run
      <4>2. CASE Gather
        BY <4>2 DEF Gather
      <4>3. CASE AssessRisk
        BY <4>3 DEF AssessRisk
      <4>4. CASE Conclude \/ RecordDecision
        BY <4>4 DEF Conclude, RecordDecision, Rest
      <4>5. CASE Protect \/ PlaceOrder
        BY <4>5 DEF Protect, PlaceOrder, Rest, run
      <4> QED
        BY <3>1, <4>1, <4>2, <4>3, <4>4, <4>5 DEF Step
    <3>2. CASE ~Step
      <4>1. CASE (\E a \in Researchers : AgentReplies(a)) \/ DispatchTimesOut
        BY <4>1 DEF AgentReplies, DispatchTimesOut
      <4>2. CASE OrderFills \/ OrderLapses \/ CooldownPasses \/ EngageStop
        BY <4>2 DEF OrderFills, OrderLapses, CooldownPasses, EngageStop, run
      <4>3. CASE Crash
        BY <4>3 DEF Crash, Rest
      <4>4. CASE UNCHANGED vars
        BY <4>4 DEF vars, run
      <4> QED
        BY <3>2, <4>1, <4>2, <4>3, <4>4 DEF Next
    <3> QED
      BY <3>1, <3>2
  <2> QED
    BY <2>1, <2>2, <2>3, <2>4, <2>5
<1>3. DossierIsOfRun => ThesisOwnsItsConflicts
  <2> DEFINE m == SnapshotOf(heard["market_research"])
             n == heard["news_research"]
             c == heard["crisis_risk"]
  <2> SUFFICES ASSUME DossierIsOfRun, dossier # None, dossier.thesis = "STRONG_SUPPORT"
               PROVE  /\ n # None => n.warned # "conflict"
                      /\ c # None =>
                           /\ \A e \in c.events : e.overall \notin {"HIGH", "SEVERE", "CRITICAL"}
                           /\ n # None => ~(n.direction = "POSITIVE" /\ c.direction = "NEGATIVE")
    BY DEF ThesisOwnsItsConflicts
  <2>1. PICK s \in Statements, f \in Feeds :
          dossier = Deep!Dossier(s, f, "profile" \in f, m, n, c, 45)
    BY DEF DossierIsOfRun
  <2>2. m # None /\ m.trend = "UPTREND" /\ Deep!Contradictions(s, m, n, c) = {}
    BY <2>1, StrongIsUncontested
  <2> HIDE DEF m, n, c
  <2>3. "reporting" \notin Deep!Contradictions(s, m, n, c)
        /\ "trend" \notin Deep!Contradictions(s, m, n, c)
        /\ "outlook" \notin Deep!Contradictions(s, m, n, c)
    BY <2>2
  <2> QED
    BY <2>2, <2>3 DEF Deep!Contradictions, Deep!Alarming
<1> QED
  BY <1>1, <1>2, <1>3, PTL DEF Spec

-----------------------------------------------------------------------------
(* Evidence.                                                               *)

(* A policy that requires market data and blocks crises, at any level.     *)
StrictPolicy ==
    /\ Policy.requireMarket = TRUE
    /\ Policy.blockCrisis = TRUE /\ Policy.crisisBlock \in DOMAIN RiskRank
    /\ Policy.volatilityBlock \in Int

(* The level of the Risk Manager's crisis check bounds every event's.      *)
LEMMA SevereIsCritical ==
    ASSUME NEW c, NEW e \in c.events, {e.severity, e.overall} \cap {"SEVERE", "CRITICAL"} # {}
    PROVE  CrisisLevel(c) = "CRITICAL"
<1> DEFINE levels == UNION {{SeverityFromText(f.severity), SeverityFromText(f.overall)} :
                               f \in c.events}
<1>1. "CRITICAL" \in levels
  BY DEF SeverityFromText
<1>2. \A l \in levels : l \in DOMAIN RiskRank
  BY DEF SeverityFromText, RiskRank
<1>3. \A l \in levels : AsSevereAs("CRITICAL", l) /\ (AsSevereAs(l, "CRITICAL") => l = "CRITICAL")
  BY <1>2 DEF AsSevereAs, RiskRank
<1>4. CrisisLevel(c) = CHOOSE worst \in levels : \A l \in levels : AsSevereAs(worst, l)
  BY <1>1 DEF CrisisLevel
<1> HIDE DEF levels
<1>5. \E worst \in levels : \A l \in levels : AsSevereAs(worst, l)
  BY <1>1, <1>3
<1>6. CrisisLevel(c) \in levels /\ \A l \in levels : AsSevereAs(CrisisLevel(c), l)
  BY <1>4, <1>5
<1> QED
  BY <1>1, <1>3, <1>6

LEMMA ApprovedOnEvidence ==
    ASSUME StrictPolicy, NEW p, NEW q, NEW s, NEW n, NEW c, NEW d,
           Assess(p, q, s, n, c, d) \in {"APPROVED", "APPROVED_WITH_WARNINGS"}
    PROVE  /\ s # None
           /\ ~s.stale /\ s.volatility # None => ~(s.volatility > Policy.volatilityBlock)
           /\ c # None => \A e \in c.events :
                             {e.severity, e.overall} \cap {"SEVERE", "CRITICAL"} = {}
<1>1. VolatilityCheck(s).hard = {} /\ VolatilityCheck(s).data = {} /\ CrisisCheck(c).hard = {}
  BY DEF Assess
<1>2. s # None
  BY <1>1 DEF VolatilityCheck, Finding, StrictPolicy
<1>3. ~s.stale /\ s.volatility # None => ~(s.volatility > Policy.volatilityBlock)
  BY <1>1, <1>2 DEF VolatilityCheck, Finding
<1>4. ASSUME c # None, NEW e \in c.events, {e.severity, e.overall} \cap {"SEVERE", "CRITICAL"} # {}
      PROVE  FALSE
  <2>1. CrisisLevel(c) = "CRITICAL"
    BY <1>4, SevereIsCritical
  <2>2. AsSevereAs("CRITICAL", Policy.crisisBlock)
    BY DEF AsSevereAs, RiskRank, StrictPolicy
  <2> QED
    BY <1>1, <1>4, <2>1, <2>2 DEF CrisisCheck, Finding, StrictPolicy
<1> QED
  BY <1>2, <1>3, <1>4

Sound ==
    LET s == SnapshotOf(heard["market_research"])
    IN  /\ s # None /\ (~s.stale /\ s.volatility # None
                            => ~(s.volatility > Policy.volatilityBlock))
        /\ heard["crisis_risk"] # None =>
             \A e \in heard["crisis_risk"].events :
                 {e.severity, e.overall} \cap {"SEVERE", "CRITICAL"} = {}

(* What a late dispatch leaves, and what an approval stands for.           *)
EvidenceKept ==
    /\ late /\ pc \in {"deep", "risk", "conclude", "record"} => heard = Unread
    /\ pc = "conclude" /\ verdict \in {"APPROVED", "APPROVED_WITH_WARNINGS"} => ~late /\ Sound
    /\ pc = "record" /\ decision = "INVEST" => ~late /\ Sound

LEMMA EvidenceStep == ASSUME StrictPolicy PROVE EvidenceKept /\ [Next]_vars => EvidenceKept'
<1> SUFFICES ASSUME EvidenceKept, [Next]_vars PROVE EvidenceKept'
  OBVIOUS
<1>1. CASE pc' \notin {"deep", "risk", "conclude", "record"}
  BY <1>1 DEF EvidenceKept
<1>2. CASE Gather
  BY <1>2 DEF Gather, EvidenceKept
<1>3. CASE DeepDive
  BY <1>3 DEF DeepDive, EvidenceKept
<1>4. CASE AssessRisk
  <2>1. pc = "risk" /\ pc' = "conclude" /\ UNCHANGED <<heard, late>>
    BY <1>4 DEF AssessRisk
  <2>2. ASSUME verdict' \in {"APPROVED", "APPROVED_WITH_WARNINGS"} PROVE ~late /\ Sound
    <3>1. verdict' = Verdict
      BY <1>4, <2>2, PipelineAssumption DEF AssessRisk, RiskDecisions
    <3>2. Sound
      BY <2>2, <3>1, ApprovedOnEvidence DEF Verdict, Sound
    <3>3. heard # Unread
      BY <3>2 DEF Sound, Unread, SnapshotOf, Researchers
    <3> QED
      BY <2>1, <3>2, <3>3 DEF EvidenceKept
  <2> QED
    BY <2>1, <2>2 DEF EvidenceKept, Sound
<1>5. CASE Conclude /\ ~Rest
  <2>1. decision' = "INVEST" => verdict \in {"APPROVED", "APPROVED_WITH_WARNINGS"}
    BY <1>5 DEF Conclude, Synthesis
  <2> QED
    BY <1>5, <2>1 DEF Conclude, EvidenceKept, Sound
<1>6. CASE UNCHANGED <<pc, late, heard, verdict, decision>>
  BY <1>6 DEF EvidenceKept, Sound
<1>7. CASE Step /\ ~Gather /\ ~DeepDive /\ ~AssessRisk /\ ~(Conclude /\ ~Rest)
  <2>1. CASE Rest
    BY <1>1, <2>1 DEF Rest
  <2>2. CASE ReadPortfolio \/ Gate \/ Dispatch
    BY <1>1, <2>2 DEF ReadPortfolio, Gate, Dispatch, Rest
  <2>3. CASE ~Rest /\ (RecordDecision \/ Protect \/ PlaceOrder)
    BY <1>1, <2>3 DEF RecordDecision, Protect, PlaceOrder
  <2> QED
    BY <1>7, <2>1, <2>2, <2>3 DEF Step
<1>8. CASE ~Step
  <2>1. CASE (\E a \in Researchers : AgentReplies(a)) \/ DispatchTimesOut
    BY <1>1, <2>1 DEF AgentReplies, DispatchTimesOut
  <2>2. CASE OrderFills \/ OrderLapses \/ CooldownPasses \/ EngageStop \/ UNCHANGED vars
    BY <1>6, <2>2 DEF OrderFills, OrderLapses, CooldownPasses, EngageStop, vars, run
  <2>3. CASE Crash
    BY <1>1, <2>3 DEF Crash, Rest
  <2> QED
    BY <1>8, <2>1, <2>2, <2>3 DEF Next
<1> QED
  BY <1>2, <1>3, <1>4, <1>5, <1>7, <1>8

(* Under a policy that requires market data and blocks crises from some    *)
(* level the Risk Manager knows, CRITICAL being its highest, the runtime   *)
(* gets INVEST only on a measured market and without a crisis of SEVERE or *)
(* worse, however late and in whatever order the agents answer.            *)
THEOREM InvestmentsRestOnEvidence ==
    ASSUME StrictPolicy
    PROVE  Spec => []InvestsOnEvidence
<1>1. Init => EvidenceKept
  BY DEF Init, EvidenceKept
<1>2. EvidenceKept => InvestsOnEvidence
  BY DEF EvidenceKept, InvestsOnEvidence, Sound
<1> QED
  BY <1>1, <1>2, EvidenceStep, PTL DEF Spec

-----------------------------------------------------------------------------
(* Sizes.                                                                  *)

(* Whole limits, and some drawdown short of the limit.                     *)
ProtectionTyped ==
    /\ Protection.position \in Int /\ Protection.exposure \in Int /\ Protection.cash \in Int
    /\ Protection.group \in Int /\ Protection.crypto \in Int
    /\ Protection.drawdown \in Int /\ 0 < Protection.drawdown

LEMMA ExposureTyped ==
    ASSUME NEW holdings, IsFiniteSet(DOMAIN holdings),
           \A s \in DOMAIN holdings : holdings[s] \in Nat, NEW group
    PROVE  /\ Guard!Exposure(holdings) \in Nat
           /\ Guard!GroupExposure(holdings, group) \in Int
           /\ Guard!GroupExposure(holdings, group) <= Guard!Exposure(holdings)
<1>1. PICK S \in SUBSET DOMAIN holdings :
        S = {s \in DOMAIN holdings : Guard!GroupOf(s) = group}
  OBVIOUS
<1>2. /\ Guard!Exposure(holdings) = SumFunctionOnSet(holdings, DOMAIN holdings)
      /\ Guard!GroupExposure(holdings, group) = SumFunctionOnSet(holdings, S)
  BY <1>1 DEF Guard!Exposure, Guard!GroupExposure, Guard!SumFunction,
              Guard!SumFunctionOnSet, Guard!FoldFunctionOnSet, Guard!MapThenFoldSet,
              SumFunctionOnSet, FoldFunctionOnSet, MapThenFoldSet
<1>3. /\ SumFunctionOnSet(holdings, DOMAIN holdings) \in Nat
      /\ SumFunctionOnSet(holdings, S) <= SumFunctionOnSet(holdings, DOMAIN holdings)
  BY SumOfPart
<1>4. SumFunctionOnSet(holdings, S) \in Int
  <2>1. IsFiniteSet(S) /\ \A s \in S : holdings[s] \in Int
    BY FS_Subset
  <2> QED
    BY <2>1, SumType
<1> QED
  BY <1>2, <1>3, <1>4

(* Whatever is held, in whatever amounts: a position of at most what       *)
(* max_allowed_position_value answers passes every check of the layer.  An *)
(* equity is measured against all that is held and counted with its group  *)
(* alone, so this needs that no holding is negative.                       *)
THEOREM MaxAllowedPasses ==
    ASSUME ProtectionTyped, NEW symbol, NEW total \in Int, NEW funds \in Int,
           NEW holdings, IsFiniteSet(DOMAIN holdings),
           \A s \in DOMAIN holdings : holdings[s] \in Nat,
           NEW n \in 1..Guard!MaxAllowed(symbol, total, funds, holdings)
    PROVE  Guard!Passes(FALSE, FALSE, symbol, n, total, funds, holdings, 0)
<1> DEFINE exposure == Guard!Exposure(holdings)
           grouped == Guard!GroupExposure(holdings, Guard!GroupOf(symbol))
           share(pct) == Guard!ShareOf(pct, total)
           room == share(Protection.exposure) - exposure
           byCash == (100 * funds - Protection.cash * total) \div 100
           byGroup == IF Guard!GroupOf(symbol) = "crypto" THEN share(Protection.crypto) - grouped
                      ELSE share(Protection.group) - exposure
<1>1. exposure \in Int /\ grouped \in Int /\ grouped <= exposure
  BY ExposureTyped
<1>2. /\ share(Protection.position) \in Int /\ share(Protection.exposure) \in Int
      /\ share(Protection.group) \in Int /\ share(Protection.crypto) \in Int
  BY DEF ProtectionTyped, Guard!ShareOf
<1>3. byCash \in Int /\ 100 * byCash <= 100 * funds - Protection.cash * total
  BY DEF ProtectionTyped
<1>4. total > 0
  BY DEF Guard!MaxAllowed
<1>5. Guard!MaxAllowed(symbol, total, funds, holdings) =
        Guard!Smaller(Guard!Smaller(share(Protection.position), Guard!NonNegative(room)),
                      Guard!Smaller(Guard!NonNegative(byCash), Guard!NonNegative(byGroup)))
  BY <1>4 DEF Guard!MaxAllowed, Guard!NonNegative
<1>6. n \in Int /\ 1 <= n
  OBVIOUS
<1> HIDE DEF exposure, grouped, share, byCash
<1>7. /\ n <= share(Protection.position) /\ n <= room
      /\ n <= byCash /\ n <= byGroup
  BY <1>1, <1>2, <1>3, <1>5, <1>6 DEF Guard!Smaller, Guard!NonNegative
<1>8. exposure + n <= share(Protection.exposure)
  BY <1>1, <1>2, <1>6, <1>7
<1>9. 100 * (funds - n) >= Protection.cash * total
  <2>1. Protection.cash * total \in Int
    BY DEF ProtectionTyped
  <2> QED
    BY <1>3, <1>6, <1>7, <2>1
<1>10. grouped + n <= IF Guard!GroupOf(symbol) = "crypto" THEN share(Protection.crypto)
                      ELSE share(Protection.group)
  BY <1>1, <1>2, <1>6, <1>7
<1> QED
  BY <1>4, <1>7, <1>8, <1>9, <1>10 DEF Guard!Passes, ProtectionTyped, exposure, grouped, share

(* So a caller that clamps to it is never refused, for whatever the gate   *)
(* read of the account.                                                    *)
THEOREM AllowedSizesPass ==
    ASSUME ProtectionTyped
    PROVE  Spec => []AllowedPasses
<1>1. TypeOK => AllowedPasses
  <2> SUFFICES ASSUME TypeOK, account # None
               PROVE  \A n \in 1..Guard!MaxAllowed(Asset, PortfolioValue, account.cash,
                                                   Holdings(account.held)) :
                        Guard!Passes(FALSE, FALSE, Asset, n, PortfolioValue, account.cash,
                                     Holdings(account.held), 0)
    BY DEF AllowedPasses
  <2>1. account.held \in Nat /\ account.cash \in Int /\ PortfolioValue \in Int
    BY PipelineAssumption DEF TypeOK
  <2>2. PICK h : h = Holdings(account.held)
    OBVIOUS
  <2>3. DOMAIN h = DOMAIN Others \cup (IF account.held > 0 THEN {Asset} ELSE {})
    BY <2>2 DEF Holdings
  <2>4. IsFiniteSet(DOMAIN h)
    <3>1. IsFiniteSet(DOMAIN Others) /\ IsFiniteSet(DOMAIN Others \cup {Asset})
      BY PipelineAssumption, FS_AddElement
    <3> QED
      BY <2>3, <3>1
  <2>5. \A s \in DOMAIN h : h[s] \in Nat
    BY <2>1, <2>2, <2>3, PipelineAssumption DEF Holdings
  <2> QED
    BY <2>1, <2>2, <2>4, <2>5, MaxAllowedPasses
<1> QED
  BY <1>1, TypeCorrect, PTL

-----------------------------------------------------------------------------
(* The Risk Manager's verdict as a function of what it is asked.           *)

PolicyTyped ==
    /\ Policy.single \in Int /\ Policy.concentration \in Int /\ Policy.cash \in Nat
    /\ Policy.correlated \in Int
    /\ \A attr \in Attributes : Policy.class[attr] \in Int

PortfolioTyped(p) ==
    /\ p.value \in Int /\ 0 < p.value /\ p.cash \in Int
    /\ IsFiniteSet(DOMAIN p.positions)
    /\ \A s \in DOMAIN p.positions : p.positions[s].value \in Int

LEMMA ValuesTyped ==
    ASSUME NEW p, PortfolioTyped(p), NEW S \in SUBSET DOMAIN p.positions, NEW asset
    PROVE  ValueOf(p.positions, S) \in Int /\ HeldValue(p, asset) \in Int
<1>1. PICK f : f = [s \in DOMAIN p.positions |-> p.positions[s].value]
  OBVIOUS
<1>2. IsFiniteSet(S) /\ \A s \in S : f[s] \in Int
  BY <1>1, FS_Subset DEF PortfolioTyped
<1>3. SumFunctionOnSet(f, S) \in Int
  BY <1>2, SumType
<1> QED
  BY <1>1, <1>3 DEF ValueOf, HeldValue, PortfolioTyped

LEMMA AtMostMonotone ==
    ASSUME NEW a \in Int, NEW b \in Int, a <= b, NEW pct \in Int, NEW whole \in Int,
           AtMost(b, pct, whole)
    PROVE  AtMost(a, pct, whole)
<1>1. pct * whole \in Int
  OBVIOUS
<1> QED
  BY <1>1 DEF AtMost

(* How much a verdict holds against a proposal.                            *)
Severity ==
    [APPROVED |-> 0, APPROVED_WITH_WARNINGS |-> 1, INSUFFICIENT_DATA |-> 2, BLOCKED |-> 3]

(* The same proposal in a smaller size.                                    *)
Smaller(q, p) ==
    /\ q.asset = p.asset /\ q.class = p.class /\ q.group = p.group
    /\ q.value \in Int /\ p.value \in Int /\ q.value <= p.value

LEMMA SmallerBreaksLess ==
    ASSUME PolicyTyped, NEW portfolio, PortfolioTyped(portfolio), NEW p, NEW q, Smaller(q, p)
    PROVE  SizeBreaches(portfolio, q) \subseteq SizeBreaches(portfolio, p)
<1> DEFINE value == portfolio.value
           Rules(r) == SizeRules(portfolio, r)
<1>1. ASSUME Rules(p).max_single_position_pct
      PROVE  Rules(q).max_single_position_pct
  BY <1>1, AtMostMonotone DEF SizeRules, Smaller, PolicyTyped, PortfolioTyped
<1>2. ASSUME Rules(p).minimum_cash_reserve
      PROVE  Rules(q).minimum_cash_reserve
  <2>1. /\ portfolio.cash - p.value >= 0
        /\ 100 * (portfolio.cash - p.value) >= Policy.cash * value
    BY <1>2 DEF SizeRules
  <2>2. Policy.cash * value \in Int /\ portfolio.cash \in Int
    BY DEF PolicyTyped, PortfolioTyped
  <2>3. /\ portfolio.cash - q.value >= 0
        /\ 100 * (portfolio.cash - q.value) >= Policy.cash * value
    BY <2>1, <2>2 DEF Smaller
  <2> QED
    BY <2>3 DEF SizeRules
<1>3. ASSUME Rules(p).max_portfolio_concentration_pct
      PROVE  Rules(q).max_portfolio_concentration_pct
  <2> DEFINE already == HeldValue(portfolio, p.asset)
  <2>1. already \in Int /\ already + q.value \in Int /\ already + p.value \in Int
        /\ already + q.value <= already + p.value
    BY ValuesTyped DEF Smaller
  <2>2. AtMost(already + p.value, Policy.concentration, value)
    BY <1>3 DEF SizeRules
  <2>3. AtMost(already + q.value, Policy.concentration, value)
    <3> HIDE DEF already, value
    <3>1. value \in Int /\ Policy.concentration \in Int
      BY DEF PortfolioTyped, PolicyTyped, value
    <3> QED
      BY <2>1, <2>2, <3>1, AtMostMonotone
  <2> QED
    BY <2>3 DEF SizeRules, Smaller
<1>4. Rules(q).max_positions = Rules(p).max_positions
  BY DEF SizeRules, Smaller
<1>5. ASSUME NEW attr \in Attributes, OverClass(portfolio, q, attr, Policy.class[attr])
      PROVE  OverClass(portfolio, p, attr, Policy.class[attr])
  <2>1. PICK S \in SUBSET DOMAIN portfolio.positions :
          S = {s \in DOMAIN portfolio.positions :
                 portfolio.positions[s].class[attr] = q.class[attr]}
    OBVIOUS
  <2>2. ValueOf(portfolio.positions, S) \in Int
    BY ValuesTyped
  <2>3. ~AtMost(ValueOf(portfolio.positions, S) + q.value, Policy.class[attr], value)
    BY <1>5, <2>1 DEF OverClass
  <2>4. ~AtMost(ValueOf(portfolio.positions, S) + p.value, Policy.class[attr], value)
    <3> DEFINE others == ValueOf(portfolio.positions, S)
    <3>1. /\ others + q.value \in Int /\ others + p.value \in Int
          /\ others + q.value <= others + p.value
      BY <2>2 DEF Smaller
    <3>2. Policy.class[attr] \in Int /\ value \in Int
      BY DEF PolicyTyped, PortfolioTyped
    <3> HIDE DEF value
    <3> QED
      BY <2>3, <3>1, <3>2, AtMostMonotone
  <2> QED
    BY <1>5, <2>1, <2>4 DEF OverClass, Smaller
<1>6. \A r : DOMAIN SizeRules(portfolio, r) =
               {"max_single_position_pct", "minimum_cash_reserve",
                "max_portfolio_concentration_pct", "max_positions"}
  BY DEF SizeRules
<1> HIDE DEF Rules
<1>7. \A rule \in DOMAIN SizeRules(portfolio, q) :
        ~SizeRules(portfolio, q)[rule] => ~SizeRules(portfolio, p)[rule]
  BY <1>1, <1>2, <1>3, <1>4, <1>6 DEF Rules
<1> QED
  BY <1>5, <1>6, <1>7 DEF SizeBreaches

(* Asking for less never makes the verdict worse: whatever is held and     *)
(* reported, the same proposal in a smaller size gets a verdict that is at *)
(* least as favourable.                                                    *)
THEOREM SmallerIsNoWorse ==
    ASSUME PolicyTyped, NEW portfolio, PortfolioTyped(portfolio), NEW p, NEW q, Smaller(q, p),
           NEW s, NEW n, NEW c, NEW d
    PROVE  Severity[Assess(portfolio, q, s, n, c, d)] <= Severity[Assess(portfolio, p, s, n, c, d)]
<1> DEFINE Cor(r) == CorrelationCheck(portfolio, r)
           Rest4 == {VolatilityCheck(s), LiquidityCheck(s), CrisisCheck(c), DeepCheck(d),
                     NewsCheck(n)}
           Hard(r) == SizeBreaches(portfolio, r) \cup DrawdownBreaches(portfolio)
                      \cup UNION {k.hard : k \in Rest4 \cup {Cor(r)}}
           Reserved(k) == k.warnings # {} \/ AsSevereAs(k.risk, "MODERATE")
<1>1. \A r : Assess(portfolio, r, s, n, c, d) =
               IF Hard(r) # {} THEN "BLOCKED"
               ELSE IF \E k \in Rest4 \cup {Cor(r)} : k.data # {} THEN "INSUFFICIENT_DATA"
               ELSE IF \E k \in Rest4 \cup {Cor(r)} : Reserved(k) THEN "APPROVED_WITH_WARNINGS"
               ELSE "APPROVED"
  <2> TAKE r
  <2>1. {VolatilityCheck(s), LiquidityCheck(s), CrisisCheck(c), DeepCheck(d), Cor(r),
         NewsCheck(n)} = Rest4 \cup {Cor(r)}
    OBVIOUS
  <2> QED
    BY <2>1 DEF Assess
<1>2. \A r : Cor(r).hard = {} /\ Cor(r).data = {}
  BY DEF CorrelationCheck, Finding
<1>3. ASSUME Reserved(Cor(q))
      PROVE  Reserved(Cor(p))
  <2>1. PICK S \in SUBSET DOMAIN portfolio.positions :
          S = {x \in DOMAIN portfolio.positions : portfolio.positions[x].group = q.group}
    OBVIOUS
  <2>2. ValueOf(portfolio.positions, S) \in Int
    BY ValuesTyped
  <2>3. ~AsSevereAs("UNKNOWN", "MODERATE") /\ ~AsSevereAs("LOW", "MODERATE")
    BY DEF AsSevereAs, RiskRank
  <2>4. /\ q.group # None
        /\ ~AtMost(ValueOf(portfolio.positions, S) + q.value, Policy.correlated, portfolio.value)
    BY <1>3, <2>1, <2>3 DEF CorrelationCheck, Finding
  <2>5. /\ ValueOf(portfolio.positions, S) + q.value \in Int
        /\ ValueOf(portfolio.positions, S) + p.value \in Int
        /\ ValueOf(portfolio.positions, S) + q.value <= ValueOf(portfolio.positions, S) + p.value
        /\ Policy.correlated \in Int /\ portfolio.value \in Int
    BY <2>2 DEF Smaller, PolicyTyped, PortfolioTyped
  <2>6. ~AtMost(ValueOf(portfolio.positions, S) + p.value, Policy.correlated, portfolio.value)
    BY <2>4, <2>5, AtMostMonotone
  <2> QED
    BY <2>1, <2>4, <2>6 DEF CorrelationCheck, Finding, Smaller
<1> HIDE DEF Cor, Rest4, Reserved
<1>4. Hard(q) \subseteq Hard(p)
  <2>1. SizeBreaches(portfolio, q) \subseteq SizeBreaches(portfolio, p)
    BY SmallerBreaksLess
  <2> QED
    BY <1>2, <2>1
<1> HIDE DEF Hard
<1> QED
  BY <1>1, <1>2, <1>3, <1>4 DEF Severity

(* What the Risk Manager recommends at most keeps the reserve and the      *)
(* limits on one position and on the concentration in one asset.  It does  *)
(* not look at classes, nor at the number of positions.                    *)
THEOREM RecommendedSizeFits ==
    ASSUME PolicyTyped, NEW portfolio, PortfolioTyped(portfolio), NEW p,
           p.value \in 1..RecommendedMax(portfolio, p.asset)
    PROVE  /\ SizeRules(portfolio, p).max_single_position_pct
           /\ SizeRules(portfolio, p).minimum_cash_reserve
           /\ SizeRules(portfolio, p).max_portfolio_concentration_pct
<1> DEFINE already == HeldValue(portfolio, p.asset)
           single == Policy.single * portfolio.value
           most == Policy.concentration * portfolio.value
           kept == Policy.cash * portfolio.value
           least == LeastOf(LeastOf(single, most - 100 * already), 100 * portfolio.cash - kept)
<1>1. /\ single \in Int /\ most \in Int /\ kept \in Int /\ 0 <= kept
      /\ portfolio.cash \in Int
  BY DEF PolicyTyped, PortfolioTyped
<1>2. already \in Int
  BY ValuesTyped
<1>3. RecommendedMax(portfolio, p.asset) = IF least < 0 THEN 0 ELSE least \div 100
  BY DEF RecommendedMax
<1>4. p.value \in Int /\ 1 <= p.value /\ p.value <= RecommendedMax(portfolio, p.asset)
  <2>1. RecommendedMax(portfolio, p.asset) \in Int
    <3> HIDE DEF single, most, kept, already
    <3> QED
      BY <1>1, <1>2, <1>3 DEF LeastOf
  <2> QED
    BY <2>1
<1> HIDE DEF already, single, most, kept
<1>5. /\ 100 * p.value <= single /\ 100 * p.value <= most - 100 * already
      /\ 100 * p.value <= 100 * portfolio.cash - kept
  BY <1>1, <1>2, <1>3, <1>4 DEF LeastOf
<1>6. /\ 100 * (already + p.value) <= most
      /\ portfolio.cash - p.value >= 0 /\ 100 * (portfolio.cash - p.value) >= kept
  BY <1>1, <1>2, <1>4, <1>5
<1> QED
  BY <1>5, <1>6 DEF SizeRules, AtMost, already, single, most, kept

(* The level of the events is one of them all.                             *)
LEMMA CrisisLevelIsWorst ==
    ASSUME NEW c
    PROVE  /\ CrisisLevel(c) \in DOMAIN RiskRank
           /\ \A e \in c.events : /\ AsSevereAs(CrisisLevel(c), SeverityFromText(e.severity))
                                  /\ AsSevereAs(CrisisLevel(c), SeverityFromText(e.overall))
           /\ \/ CrisisLevel(c) = "UNKNOWN"
              \/ \E e \in c.events :
                    CrisisLevel(c) \in {SeverityFromText(e.severity), SeverityFromText(e.overall)}
<1>1. PICK levels :
        levels = UNION {{SeverityFromText(e.severity), SeverityFromText(e.overall)} :
                          e \in c.events}
  OBVIOUS
<1>2. levels \subseteq {"UNKNOWN", "LOW", "MODERATE", "HIGH", "CRITICAL"}
  BY <1>1 DEF SeverityFromText
<1>3. CrisisLevel(c) = IF levels = {} THEN "UNKNOWN"
                       ELSE CHOOSE worst \in levels : \A l \in levels : AsSevereAs(worst, l)
  BY <1>1 DEF CrisisLevel
<1>4. levels # {} => \E worst \in levels : \A l \in levels : AsSevereAs(worst, l)
  <2>1. CASE "CRITICAL" \in levels
    BY <1>2, <2>1 DEF AsSevereAs, RiskRank
  <2>2. CASE "CRITICAL" \notin levels /\ "HIGH" \in levels
    BY <1>2, <2>2 DEF AsSevereAs, RiskRank
  <2>3. CASE levels \subseteq {"UNKNOWN", "LOW", "MODERATE"} /\ "MODERATE" \in levels
    BY <2>3 DEF AsSevereAs, RiskRank
  <2>4. CASE levels \subseteq {"UNKNOWN", "LOW"} /\ "LOW" \in levels
    BY <2>4 DEF AsSevereAs, RiskRank
  <2>5. CASE levels \subseteq {"UNKNOWN"}
    <3>1. AsSevereAs("UNKNOWN", "UNKNOWN")
      BY DEF AsSevereAs, RiskRank
    <3> QED
      BY <2>5, <3>1
  <2> QED
    BY <1>2, <2>1, <2>2, <2>3, <2>4, <2>5
<1>5. CASE levels = {}
  BY <1>1, <1>3, <1>5 DEF RiskRank
<1>6. CASE levels # {}
  <2>1. CrisisLevel(c) \in levels /\ \A l \in levels : AsSevereAs(CrisisLevel(c), l)
    BY <1>3, <1>4, <1>6
  <2> QED
    BY <1>1, <1>2, <2>1 DEF RiskRank
<1> QED
  BY <1>5, <1>6

(* More bad news never unblocks: a proposal the Risk Manager blocks stays  *)
(* blocked when further crises are reported.                               *)
THEOREM MoreCrisesNeverUnblock ==
    ASSUME Policy.crisisBlock \in DOMAIN RiskRank,
           NEW portfolio, NEW p, NEW s, NEW n, NEW d,
           NEW c, c # None, NEW more, more # None, c.events \subseteq more.events,
           Assess(portfolio, p, s, n, c, d) = "BLOCKED"
    PROVE  Assess(portfolio, p, s, n, more, d) = "BLOCKED"
<1>1. AsSevereAs(CrisisLevel(more), CrisisLevel(c))
  <2>1. CASE CrisisLevel(c) = "UNKNOWN"
    BY <2>1, CrisisLevelIsWorst DEF AsSevereAs, RiskRank
  <2>2. CASE CrisisLevel(c) # "UNKNOWN"
    <3>1. PICK e \in c.events :
            CrisisLevel(c) \in {SeverityFromText(e.severity), SeverityFromText(e.overall)}
      BY <2>2, CrisisLevelIsWorst
    <3>2. e \in more.events
      BY <3>1
    <3> QED
      BY <3>1, <3>2, CrisisLevelIsWorst
  <2> QED
    BY <2>1, <2>2
<1>2. CrisisCheck(c).hard \subseteq CrisisCheck(more).hard
  <2>1. CrisisLevel(c) \in DOMAIN RiskRank /\ CrisisLevel(more) \in DOMAIN RiskRank
    BY CrisisLevelIsWorst
  <2>2. AsSevereAs(CrisisLevel(c), Policy.crisisBlock)
          => AsSevereAs(CrisisLevel(more), Policy.crisisBlock)
    BY <1>1, <2>1 DEF AsSevereAs, RiskRank
  <2> QED
    BY <2>2 DEF CrisisCheck, Finding
<1> DEFINE Others5 == {VolatilityCheck(s), LiquidityCheck(s), DeepCheck(d),
                       CorrelationCheck(portfolio, p), NewsCheck(n)}
           Hard(k) == SizeBreaches(portfolio, p) \cup DrawdownBreaches(portfolio)
                      \cup UNION {x.hard : x \in Others5 \cup {k}}
<1>3. \A x : Hard(CrisisCheck(x)) # {} <=> Assess(portfolio, p, s, n, x, d) = "BLOCKED"
  <2> TAKE x
  <2>1. {VolatilityCheck(s), LiquidityCheck(s), CrisisCheck(x), DeepCheck(d),
         CorrelationCheck(portfolio, p), NewsCheck(n)} = Others5 \cup {CrisisCheck(x)}
    OBVIOUS
  <2> HIDE DEF Others5
  <2> QED
    BY <2>1 DEF Assess
<1> HIDE DEF Others5
<1>4. Hard(CrisisCheck(c)) \subseteq Hard(CrisisCheck(more))
  BY <1>2
<1> QED
  BY <1>3, <1>4

-----------------------------------------------------------------------------
(* The dossier's confidence averages in a component of 60 percent when     *)
(* there is one contradiction.  So the first one never makes a dossier     *)
(* less confident that is below that, and lifts one from below the shipped *)
(* minimum of 50 over it: what was deferred for want of confidence is not  *)
(* any more once something contradicts it.                                 *)
THEOREM FirstContradictionRaises ==
    ASSUME NEW c, NEW s, NEW snapshot, NEW sourced \in BOOLEAN, NEW llm \in 0..100
    PROVE  /\ Deep!Confidence(llm, s, snapshot, sourced, {}) < 60 =>
                Deep!Confidence(llm, s, snapshot, sourced, {})
                  <= Deep!Confidence(llm, s, snapshot, sourced, {c})
           /\ s # None => /\ Deep!Confidence(20, s, None, TRUE, {}) = 48
                          /\ Deep!Confidence(20, s, None, TRUE, {c}) = 51
<1>0. Cardinality({}) = 0 /\ Cardinality({c}) = 1
  BY FS_EmptySet, FS_Singleton
<1>1. Deep!Cardinality({}) = 0 /\ Deep!Cardinality({c}) = 1
  BY <1>0 DEF Deep!Cardinality, Cardinality, Deep!IsFiniteSet, IsFiniteSet
<1>2. PICK sum \in Int :
        sum = llm + (IF s # None THEN 80 ELSE 25) + (IF snapshot # None THEN 80 ELSE 25)
              + (IF sourced THEN 70 ELSE 20)
  OBVIOUS
<1>3. /\ Deep!Confidence(llm, s, snapshot, sourced, {}) = sum \div 4
      /\ Deep!Confidence(llm, s, snapshot, sourced, {c}) = (sum + 60) \div 5
  BY <1>1, <1>2 DEF Deep!Confidence
<1>4. sum \div 4 < 60 => sum \div 4 <= (sum + 60) \div 5
  <2>1. sum \div 4 < 60 => sum < 240
    OBVIOUS
  <2> QED
    BY <2>1
<1>5. ASSUME s # None
      PROVE  /\ Deep!Confidence(20, s, None, TRUE, {}) = 48
             /\ Deep!Confidence(20, s, None, TRUE, {c}) = 51
  BY <1>1, <1>5 DEF Deep!Confidence
<1> QED
  BY <1>3, <1>4, <1>5
=============================================================================
