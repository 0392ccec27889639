--------------------------- MODULE DecisionPipeline ---------------------------
(***************************************************************************)
(* One asset's way from the runtime's decision gate to its paper order     *)
(* (core/runtime/survival_runtime.py, decision_gate.py): the gate, the CEO *)
(* agent's orchestration (agents/ceo/agent.py) with its three research     *)
(* agents in parallel, the Deep Looker and the Risk Manager, the synthesis *)
(* of the decision, the capital protection layer and the order.  The       *)
(* broker fills or drops open orders at any time, the process may crash at *)
(* any step, and agents, the account, the order list and the store may     *)
(* fail.  Prices stand still: equity is PortfolioValue units, an order is  *)
(* one unit.  RuntimeLoop models the cycle around this, OrderExecution the *)
(* submission of the order.                                                *)
(***************************************************************************)
EXTENDS RiskManager

CONSTANTS
    Asset,           \* the first watched symbol, the only one traded
    Others,          \* what else is held: a function from symbols to values
    PortfolioValue,  \* the account's equity, in units of one proposal
    InitialCash,     \* what of it is cash at first
    MaxOpenOrders,   \* RuntimeConfig.max_open_orders
    MaxOpenPositions,\* RuntimeConfig.max_open_positions
    Protection,      \* the CapitalProtectionConfig
    CryptoAssets,    \* symbols that are crypto
    Snapshots,       \* what the market agent may measure
    NewsReports,     \* what the news agent may report
    ClusterSets,     \* the sets of news clusters the crisis agent may be given
    Statements,      \* what the fundamental provider may deliver, None included
    Feeds,           \* the sets of its other feeds that may come with them
    Attached,        \* the market agent's analysis carries the snapshot it measured
    Durable,         \* the memory store survives a crash
    Faults,          \* subset of FaultKinds
    OrderBound       \* bound on open orders, for a gate that cannot see them

FaultKinds == {"account", "orders", "agent", "timeout", "store", "crash"}

ASSUME PipelineAssumption ==
    /\ PortfolioValue \in Nat \ {0} /\ InitialCash \in 0..PortfolioValue
    /\ MaxOpenOrders \in Nat \ {0}
    /\ OrderBound \in Nat
    /\ Faults \subseteq FaultKinds
    /\ IsFiniteSet(DOMAIN Others) /\ Asset \notin DOMAIN Others
    /\ \A s \in DOMAIN Others : Others[s] \in Nat
    /\ Policy.concentration \in Nat
    /\ None \notin RiskDecisions
    /\ Attached \in BOOLEAN /\ Durable \in BOOLEAN

Crises == INSTANCE CrisisRisk
Deep == INSTANCE DeepResearch
Guard == INSTANCE CapitalProtection

VARIABLES
    held,     \* units of Asset held at the broker
    cash,     \* cash at the broker, in units
    pending,  \* open orders at the broker
    cooling,  \* the store holds a decision younger than the cooldown
    stopped,  \* the emergency stop of the capital protection layer
    blind,    \* some gate took an unreadable order list for an empty one
    pc,       \* what the runtime does next
    stage,    \* current_stage of the orchestration run
    account,  \* the portfolio state read for the gate, then for the run
    reply,    \* what each research agent answered
    late,     \* the agents were not all done when the dispatch timed out
    heard,    \* research_results: what the later stages are handed
    dossier,  \* the Deep Looker's dossier
    verdict,  \* the Risk Manager's decision
    decision  \* the runtime's decision

broker == <<held, cash, pending>>
run == <<stage, account, reply, late, heard, dossier, verdict, decision>>
vars == <<broker, cooling, stopped, blind, pc, run>>

Size == 1
Researchers == {"market_research", "news_research", "crisis_risk"}

-----------------------------------------------------------------------------

(* What the runtime knows of the portfolio; its positions carry no class.  *)
NoClass == [a \in Attributes |-> None]
Holdings(h) ==
    [s \in DOMAIN Others \cup (IF h > 0 THEN {Asset} ELSE {}) |->
        IF s = Asset THEN h ELSE Others[s]]
Portfolio(a) ==
    [value |-> PortfolioValue, cash |-> a.cash, peak |-> PortfolioValue,
     positions |-> [s \in DOMAIN Holdings(a.held) |->
                      [value |-> Holdings(a.held)[s], class |-> NoClass, group |-> None]]]

Proposal ==
    [asset |-> Asset, value |-> Size, group |-> None,
     class |-> [sector |-> "Technology", asset_class |-> "EQUITY", geography |-> "US"]]

Protected(a) ==
    Guard!Passes(stopped, FALSE, Asset, Size, PortfolioValue, a.cash, Holdings(a.held), 0)

(* The data a research agent may answer with, a FAILED result's included.  *)
CrisisReports == UNION {Crises!Reports(c) : c \in ClusterSets}
MarketReports == {[snapshot |-> s] : s \in Snapshots}
Answers(agent) ==
    CASE agent = "market_research" -> MarketReports
      [] agent = "news_research" -> NewsReports
      [] agent = "crisis_risk" -> CrisisReports

FailedAnswer(agent) ==
    CASE agent = "market_research" -> [snapshot |-> None]
      [] agent = "news_research" -> [direction |-> "", warned |-> "none"]
      [] agent = "crisis_risk" -> [events |-> {}, direction |-> ""]

Silent == [status |-> "idle", data |-> None]

(* The stages read the snapshot from the market agent's analysis, which    *)
(* the repository's MarketResearchAgent leaves without one.                *)
SnapshotOf(market) == IF market = None \/ ~Attached THEN None ELSE market.snapshot

Unread == [a \in Researchers |-> None]

Init ==
    /\ held = 0 /\ pending = 0
    /\ cash = InitialCash
    /\ cooling = FALSE /\ stopped = FALSE /\ blind = FALSE
    /\ pc = "idle" /\ stage = "NONE" /\ account = None
    /\ reply = [a \in Researchers |-> Silent] /\ late = FALSE /\ heard = Unread
    /\ dossier = None /\ verdict = None /\ decision = None

(* The run is over, whatever became of it: its records are not read again. *)
Rest ==
    /\ pc' = "idle" /\ stage' = "NONE" /\ account' = None
    /\ reply' = [a \in Researchers |-> Silent] /\ late' = FALSE /\ heard' = Unread
    /\ dossier' = None /\ verdict' = None /\ decision' = None

ReadAccount(readable) == IF readable THEN [held |-> held, cash |-> cash] ELSE None
Readable(fault) == IF fault \in Faults THEN BOOLEAN ELSE {TRUE}

-----------------------------------------------------------------------------
(* The gate: the portfolio is read first, the open orders after it.        *)

ReadPortfolio ==
    /\ pc = "idle"
    /\ \E readable \in Readable("account") : account' = ReadAccount(readable)
    /\ pc' = "gate"
    /\ UNCHANGED <<broker, cooling, stopped, blind, stage, reply, late, heard, dossier,
                   verdict, decision>>

(* Each condition on the portfolio holds of one that could not be read.    *)
PortfolioAllows ==
    account # None =>
        /\ 100 * account.cash >= 5 * PortfolioValue
        /\ Cardinality(DOMAIN Holdings(account.held)) < MaxOpenPositions

(* Mutant: the limit itself is still let through.                          *)
GateOpensAtLimit(count, fresh, healthy) ==
    healthy /\ fresh /\ ~cooling /\ PortfolioAllows /\ count <= MaxOpenOrders

GateOpens(count, fresh, healthy) ==
    healthy /\ fresh /\ ~cooling /\ PortfolioAllows /\ count < MaxOpenOrders

Gate ==
    /\ pc = "gate"
    /\ \E listed \in Readable("orders"), fresh, healthy \in BOOLEAN :
         /\ blind' = (blind \/ ~listed)
         /\ IF GateOpens(IF listed THEN pending ELSE 0, fresh, healthy)
            THEN pc' = "dispatch" /\ UNCHANGED run
            ELSE Rest
    /\ UNCHANGED <<broker, cooling, stopped>>

-----------------------------------------------------------------------------
(* The CEO's orchestration.                                                *)

(* Without a portfolio there is no run, and no decision is recorded.       *)
Dispatch ==
    /\ pc = "dispatch"
    /\ \E readable \in Readable("account") :
         IF readable
         THEN /\ account' = ReadAccount(TRUE)
              /\ reply' = [a \in Researchers |-> [status |-> "running", data |-> None]]
              /\ stage' = "RESEARCHING" /\ pc' = "research"
              /\ UNCHANGED <<late, heard, dossier, verdict, decision>>
         ELSE Rest
    /\ UNCHANGED <<broker, cooling, stopped, blind>>

(* A thread of the pool: the agent answers, fails, or raises.              *)
AgentReplies(agent) ==
    /\ pc = "research"
    /\ reply[agent].status = "running"
    /\ \/ \E data \in Answers(agent) :
            reply' = [reply EXCEPT ![agent] = [status |-> "replied", data |-> data]]
       \/ /\ "agent" \in Faults
          /\ \/ reply' = [reply EXCEPT ![agent] =
                            [status |-> "replied", data |-> FailedAnswer(agent)]]
             \/ reply' = [reply EXCEPT ![agent] = [status |-> "raised", data |-> None]]
    /\ UNCHANGED <<broker, cooling, stopped, blind, pc, stage, account, late, heard, dossier,
                   verdict, decision>>

DispatchTimesOut ==
    /\ "timeout" \in Faults
    /\ pc = "research" /\ ~late
    /\ \E a \in Researchers : reply[a].status = "running"
    /\ late' = TRUE
    /\ UNCHANGED <<broker, cooling, stopped, blind, pc, stage, account, reply, heard, dossier,
                   verdict, decision>>

(* Mutant: an agent that raised is waited for as one that has not answered. *)
GatherAnswered ==
    /\ pc = "research"
    /\ \A a \in Researchers : reply[a].status = "replied"
    /\ heard' = IF late THEN Unread ELSE [a \in Researchers |-> reply[a].data]
    /\ reply' = [a \in Researchers |-> Silent]
    /\ stage' = "DEEP_ANALYSIS" /\ pc' = "deep"
    /\ UNCHANGED <<broker, cooling, stopped, blind, account, late, dossier, verdict, decision>>

(* Leaving the pool waits for every thread, a timeout notwithstanding; but *)
(* the timeout raises before any result is kept.                           *)
Gather ==
    /\ pc = "research"
    /\ \A a \in Researchers : reply[a].status # "running"
    /\ heard' = IF late THEN Unread ELSE [a \in Researchers |-> reply[a].data]
    /\ reply' = [a \in Researchers |-> Silent]
    /\ stage' = "DEEP_ANALYSIS" /\ pc' = "deep"
    /\ UNCHANGED <<broker, cooling, stopped, blind, account, late, dossier, verdict, decision>>

(* What the Deep Looker may answer, on what the run has heard and on each   *)
(* feed that did not fail; its model's confidence is the 45 of a failing   *)
(* model.                                                                  *)
Dossiers ==
    {Deep!Dossier(s, feeds, "profile" \in feeds, SnapshotOf(heard["market_research"]),
                  heard["news_research"], heard["crisis_risk"], 45) :
        s \in Statements, feeds \in Feeds}

(* The run goes on without a dossier when the Deep Looker fails; it is the *)
(* only stage whose result no later one is handed.                         *)
DeepDive ==
    /\ pc = "deep"
    /\ stage' = "RISK_ASSESSMENT" /\ pc' = "risk"
    /\ \/ dossier' \in Dossiers
       \/ "agent" \in Faults /\ dossier' = None
    /\ UNCHANGED <<broker, cooling, stopped, blind, account, reply, late, heard, verdict, decision>>

Verdict ==
    Assess(Portfolio(account), Proposal, SnapshotOf(heard["market_research"]),
           heard["news_research"], heard["crisis_risk"], None)

(* A Risk Manager that raises or fails ends the run; a block ends it too.  *)
AssessRisk ==
    /\ pc = "risk"
    /\ pc' = "conclude"
    /\ dossier' = None
    /\ \/ /\ ~Unassessable(Portfolio(account), Proposal)
          /\ verdict' = Verdict
          /\ stage' = IF verdict' = "BLOCKED" THEN "BLOCKED" ELSE "COMPLETED"
       \/ /\ "agent" \in Faults \/ Unassessable(Portfolio(account), Proposal)
          /\ verdict' = None /\ stage' = "FAILED"
    /\ UNCHANGED <<broker, cooling, stopped, blind, account, reply, late, heard, decision>>

(* Mutant: a block is handed on as a proposal.                             *)
SynthesisOfBlocked ==
    CASE verdict \in {"APPROVED", "APPROVED_WITH_WARNINGS"} -> "INVEST"
      [] verdict = "BLOCKED" -> "DO_NOT_INVEST"
      [] OTHER -> "DEFER"

Synthesis ==
    CASE verdict \in {"APPROVED", "APPROVED_WITH_WARNINGS"} -> "INVEST"
      [] verdict = "INSUFFICIENT_DATA" -> "DEFER"
      [] OTHER -> "INSUFFICIENT_DATA"

(* The record of the run is saved last.  When that fails, a run that is    *)
(* over cannot become FAILED any more: the error leaves process_task and   *)
(* the runtime takes no decision and starts no cooldown.                   *)
Conclude ==
    /\ pc = "conclude"
    /\ \/ /\ decision' = Synthesis /\ pc' = "record"
          /\ UNCHANGED <<stage, account, reply, late, heard, dossier, verdict>>
       \/ "store" \in Faults /\ stage # "FAILED" /\ Rest
    /\ UNCHANGED <<broker, cooling, stopped, blind>>

-----------------------------------------------------------------------------
(* The runtime again: the decision is recorded, checked and carried out;   *)
(* of the orchestration only the decision is kept.                         *)

RecordDecision ==
    /\ pc = "record"
    /\ \/ /\ cooling' = TRUE /\ pc' = "protect"
          /\ heard' = Unread /\ verdict' = None
          /\ UNCHANGED <<stage, account, reply, late, dossier, decision>>
       \/ "store" \in Faults /\ UNCHANGED cooling /\ Rest
    /\ UNCHANGED <<broker, stopped, blind>>

Protect ==
    /\ pc = "protect"
    /\ \/ decision = "INVEST" /\ Protected(account) /\ pc' = "order" /\ UNCHANGED run
       \/ ~(decision = "INVEST" /\ Protected(account)) /\ Rest
       \/ "store" \in Faults /\ Rest
    /\ UNCHANGED <<broker, cooling, stopped, blind>>

(* The check is made again with the live account, if it can be read.  The  *)
(* submission itself may come to nothing.                                  *)
PlaceOrder ==
    /\ pc = "order"
    /\ \/ /\ \E readable \in Readable("account") : readable => Protected(ReadAccount(TRUE))
          /\ pending < OrderBound
          /\ pending' = pending + Size
       \/ UNCHANGED pending
    /\ Rest
    /\ UNCHANGED <<held, cash, cooling, stopped, blind>>

-----------------------------------------------------------------------------
(* The world around the run.                                               *)

OrderFills ==
    /\ pending > 0 /\ cash >= Size
    /\ pending' = pending - 1 /\ held' = held + Size /\ cash' = cash - Size
    /\ UNCHANGED <<cooling, stopped, blind, pc, run>>

OrderLapses ==
    /\ pending > 0 /\ pending' = pending - 1
    /\ UNCHANGED <<held, cash, cooling, stopped, blind, pc, run>>

CooldownPasses ==
    /\ cooling /\ cooling' = FALSE
    /\ UNCHANGED <<broker, stopped, blind, pc, run>>

EngageStop ==
    /\ ~stopped /\ stopped' = TRUE
    /\ UNCHANGED <<broker, cooling, blind, pc, run>>

(* The emergency stop and the run are only in memory.                      *)
Crash ==
    /\ "crash" \in Faults
    /\ Rest
    /\ stopped' = FALSE
    /\ cooling' = (cooling /\ Durable)
    /\ UNCHANGED <<broker, blind>>

Step ==
    \/ ReadPortfolio \/ Gate \/ Dispatch \/ Gather \/ DeepDive \/ AssessRisk
    \/ Conclude \/ RecordDecision \/ Protect \/ PlaceOrder

Next ==
    \/ Step
    \/ \E a \in Researchers : AgentReplies(a)
    \/ DispatchTimesOut
    \/ OrderFills \/ OrderLapses \/ CooldownPasses \/ EngageStop \/ Crash

(* The loop goes on, and every agent comes to an end: its providers' calls *)
(* have timeouts of their own, since the dispatch's does not stop a thread. *)
Fairness ==
    /\ WF_vars(Step)
    /\ \A a \in Researchers : WF_vars(AgentReplies(a))

Spec == Init /\ [][Next]_vars /\ Fairness
-----------------------------------------------------------------------------
(* Properties.                                                             *)

(* The types; of the CEO's decisions, DO_NOT_INVEST never reaches the      *)
(* runtime, since a blocked run carries no proposal.                       *)
TypeOK ==
    /\ held \in Nat /\ cash \in Int /\ pending \in Nat
    /\ cooling \in BOOLEAN /\ stopped \in BOOLEAN /\ blind \in BOOLEAN
    /\ pc \in {"idle", "gate", "dispatch", "research", "deep", "risk", "conclude", "record",
               "protect", "order"}
    /\ stage \in {"NONE", "RESEARCHING", "DEEP_ANALYSIS", "RISK_ASSESSMENT", "BLOCKED",
                  "COMPLETED", "FAILED"}
    /\ account # None => account.held \in Nat /\ account.cash \in Int
    /\ DOMAIN reply = Researchers
    /\ \A a \in Researchers : reply[a].status \in {"idle", "running", "replied", "raised"}
    /\ late \in BOOLEAN
    /\ DOMAIN heard = Researchers
    /\ verdict \in RiskDecisions \cup {None}
    /\ decision \in {"INVEST", "DEFER", "INSUFFICIENT_DATA", None}

(* No rule on size counts orders in flight.  As long as the gate sees the  *)
(* order list, its limit on open orders bounds by how much the position    *)
(* may outgrow the concentration limit once all of them are filled.        *)
Committed == held + pending
OvershootIsBounded ==
    ~blind => AtMost(Committed - (MaxOpenOrders - 1) * Size,
                     Policy.concentration, PortfolioValue)

(* INVEST rests on a measured market, calm enough if it is current, and    *)
(* on no crisis that was reported as SEVERE or worse: partial results of a *)
(* dispatch that timed out never lead to one.                              *)
InvestsOnEvidence ==
    (pc = "record" /\ decision = "INVEST") =>
        /\ ~late
        /\ LET s == SnapshotOf(heard["market_research"])
           IN  s # None /\ (~s.stale /\ s.volatility # None
                               => ~(s.volatility > Policy.volatilityBlock))
        /\ heard["crisis_risk"] # None =>
             \A e \in heard["crisis_risk"].events :
                 {e.severity, e.overall} \cap {"SEVERE", "CRITICAL"} = {}

(* The Deep Looker calls a thesis strongly supported only if nothing heard *)
(* in the same run speaks against it.                                      *)
ThesisOwnsItsConflicts ==
    (dossier # None /\ dossier.thesis = "STRONG_SUPPORT") =>
        /\ heard["news_research"] # None => heard["news_research"].warned # "conflict"
        /\ heard["crisis_risk"] # None =>
             /\ \A e \in heard["crisis_risk"].events :
                    e.overall \notin {"HIGH", "SEVERE", "CRITICAL"}
             /\ heard["news_research"] # None =>
                    ~(/\ heard["news_research"].direction = "POSITIVE"
                      /\ heard["crisis_risk"].direction = "NEGATIVE")

(* The crises the later stages hear of as CRITICAL, as resolved or as      *)
(* highly probable come from an official source or from several reports.   *)
CorroboratedExtremes ==
    (pc = "deep" /\ heard["crisis_risk"] # None) =>
        \A c \in UNION ClusterSets :
            LET e == Crises!Crisis(c)
            IN  e \in heard["crisis_risk"].events =>
                  /\ e.severity = "CRITICAL" \/ e.escalation = "RESOLVED"
                        => c.primary \/ c.articles >= 2
                  /\ e.probability = "HIGH"
                        => ~c.conflicts /\ (c.primary \/ c.publishers # 1)

(* What max_allowed_position_value answers passes the layer's checks, so a *)
(* caller that clamps to it is never refused.                              *)
AllowedPasses ==
    (pc = "gate" /\ account # None) =>
        LET holdings == Holdings(account.held)
        IN  \A n \in 1..Guard!MaxAllowed(Asset, PortfolioValue, account.cash, holdings) :
                Guard!Passes(FALSE, FALSE, Asset, n, PortfolioValue, account.cash, holdings, 0)

(* Every run that the gate begins comes to an end, whatever fails.         *)
RunsSettle == pc # "idle" ~> pc = "idle"

(* The Risk Manager assesses with the market snapshot the market agent     *)
(* measured, as _run_risk_assessment's comment has it.                     *)
EvidenceReachesRisk ==
    (/\ pc = "conclude" /\ verdict # None
     /\ heard["market_research"] # None
     /\ heard["market_research"].snapshot # None)
    => SnapshotOf(heard["market_research"]) # None
=============================================================================
