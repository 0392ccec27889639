----------------------------- MODULE RiskManager -----------------------------
(***************************************************************************)
(* The deterministic verdict of the Risk Manager agent                     *)
(* (agents/risk_manager/agent.py).  Money is counted in whole units and a  *)
(* limit in percent, so "value / portfolio <= pct" is an exact comparison. *)
(*   portfolio  [value, cash, peak, positions], positions a function from  *)
(*              symbols to [value, class, group], class a function on      *)
(*              Attributes; a class or group may be None                   *)
(*   proposal   [asset, value, class, group]                               *)
(*   snapshot   [trend, volatility, stale, volume]                         *)
(*   news       [direction, warned], warned "conflict", "legal" or "none"   *)
(*   crisis     [events, direction]                                        *)
(*   dossier    [confidence, contradictions, unknowns, thesis]             *)
(* the last four are None when they were not delivered.                    *)
(***************************************************************************)
EXTENDS Integers, FiniteSets, Functions

CONSTANTS
    Policy,  \* the RiskPolicy in force: limits in percent, see DefaultPolicy of the MC module
    None     \* Python's None

Attributes == {"sector", "asset_class", "geography"}
RiskDecisions == {"APPROVED", "APPROVED_WITH_WARNINGS", "BLOCKED", "INSUFFICIENT_DATA"}

RiskRank == [UNKNOWN |-> 0, LOW |-> 1, MODERATE |-> 2, HIGH |-> 3, CRITICAL |-> 4]
AsSevereAs(s, t) == RiskRank[s] >= RiskRank[t]

(* Mutant: only the Risk Manager's own level names are known.              *)
SeverityFromName(s) ==
    IF s \in {"CRITICAL", "HIGH", "MODERATE", "LOW"} THEN s ELSE "UNKNOWN"

(* The five levels of the Risk Manager; SEVERE counts as CRITICAL.         *)
SeverityFromText(s) ==
    IF s \in {"SEVERE", "CRITICAL"} THEN "CRITICAL"
    ELSE IF s \in {"HIGH", "MODERATE", "LOW"} THEN s ELSE "UNKNOWN"

AtMost(value, pct, whole) == 100 * value <= pct * whole

ValueOf(positions, symbols) ==
    SumFunctionOnSet([s \in DOMAIN positions |-> positions[s].value], symbols)

HeldValue(portfolio, asset) ==
    IF asset \in DOMAIN portfolio.positions THEN portfolio.positions[asset].value ELSE 0

(* What the rules on size allow at most.                                   *)
LeastOf(a, b) == IF a < b THEN a ELSE b
RecommendedMax(portfolio, asset) ==
    LET single == Policy.single * portfolio.value
        concentration == Policy.concentration * portfolio.value
                         - 100 * HeldValue(portfolio, asset)
        reserve == 100 * portfolio.cash - Policy.cash * portfolio.value
        least == LeastOf(LeastOf(single, concentration), reserve)
    IN  IF least < 0 THEN 0 ELSE least \div 100

(* A cap on a sector, asset class or geography applies only when some held *)
(* position carries a classification of that kind.                         *)
OverClass(portfolio, proposal, attr, pct) ==
    LET label == proposal.class[attr]
        labelled(s) == portfolio.positions[s].class[attr]
        held == DOMAIN portfolio.positions
        same == {s \in held : labelled(s) = label}
    IN  /\ label # None
        /\ \E s \in held : labelled(s) # None
        /\ ~AtMost(ValueOf(portfolio.positions, same) + proposal.value, pct, portfolio.value)

SizeRules(portfolio, proposal) ==
    LET after == HeldValue(portfolio, proposal.asset) + proposal.value
        left == portfolio.cash - proposal.value
    IN  [max_single_position_pct |-> AtMost(proposal.value, Policy.single, portfolio.value),
         minimum_cash_reserve |-> left >= 0 /\ 100 * left >= Policy.cash * portfolio.value,
         max_portfolio_concentration_pct |-> AtMost(after, Policy.concentration, portfolio.value),
         max_positions |->
            Cardinality(DOMAIN portfolio.positions \cup {proposal.asset}) <= Policy.positions]

SizeBreaches(portfolio, proposal) ==
    {rule \in DOMAIN SizeRules(portfolio, proposal) : ~SizeRules(portfolio, proposal)[rule]}
    \cup {attr \in Attributes : OverClass(portfolio, proposal, attr, Policy.class[attr])}

DrawdownBreaches(portfolio) ==
    IF portfolio.peak > 0
       /\ ~AtMost(portfolio.peak - portfolio.value, Policy.drawdown, portfolio.peak)
    THEN {"max_portfolio_drawdown_pct"} ELSE {}

(* Each check reports the hard rules it breaks, the data rules it breaks,  *)
(* the warnings it gives and the level of risk it sees.                    *)
Finding(hard, data, warnings, risk) ==
    [hard |-> hard, data |-> data, warnings |-> warnings, risk |-> risk]

VolatilityCheck(snapshot) ==
    IF snapshot = None
    THEN Finding({}, IF Policy.requireMarket THEN {"required_market_data"} ELSE {}, {}, "UNKNOWN")
    ELSE IF snapshot.stale THEN Finding({}, {}, {"stale"}, "MODERATE")
    ELSE IF snapshot.volatility = None THEN Finding({}, {}, {"no volatility"}, "UNKNOWN")
    ELSE IF snapshot.volatility > Policy.volatilityBlock
    THEN Finding({"max_volatility_threshold"}, {}, {}, "HIGH")
    ELSE IF snapshot.volatility > Policy.volatilityWarn
    THEN Finding({}, {}, {"volatile"}, "MODERATE")
    ELSE Finding({}, {}, {}, "LOW")

LiquidityCheck(snapshot) ==
    IF snapshot = None THEN Finding({}, {}, {}, "UNKNOWN")
    ELSE CASE snapshot.volume \in {"none", "dried up"} -> Finding({}, {}, {"no volume"}, "HIGH")
           [] snapshot.volume = "unusual" -> Finding({}, {}, {"unusual volume"}, "MODERATE")
           [] OTHER -> Finding({}, {}, {}, "LOW")

(* The worst severity or overall level of any event reported.              *)
CrisisLevel(crisis) ==
    LET levels == UNION {{SeverityFromText(e.severity), SeverityFromText(e.overall)} :
                            e \in crisis.events}
    IN  IF levels = {} THEN "UNKNOWN"
        ELSE CHOOSE worst \in levels : \A l \in levels : AsSevereAs(worst, l)

CrisisCheck(crisis) ==
    IF crisis = None THEN Finding({}, {}, {}, "UNKNOWN")
    ELSE LET level == CrisisLevel(crisis)
             blocks == Policy.blockCrisis /\ AsSevereAs(level, Policy.crisisBlock)
         IN  Finding(IF blocks THEN {"crisis_block_severity"} ELSE {}, {},
                     IF ~blocks /\ AsSevereAs(level, Policy.crisisWarn) THEN {"crisis"} ELSE {},
                     level)

ThesisRisk(status) ==
    CASE status \in {"WEAK_SUPPORT", "INSUFFICIENT_DATA"} -> "HIGH"
      [] status = "MIXED" -> "MODERATE"
      [] OTHER -> "LOW"

(* The Deep Looker's dossier: the level is the worst of the data's, the    *)
(* fundamentals' and the thesis'.                                          *)
DeepCheck(dossier) ==
    IF dossier = None
    THEN Finding({}, IF Policy.requireDeep THEN {"required_deep_research"} ELSE {}, {},
                 IF Policy.requireDeep THEN "CRITICAL" ELSE "UNKNOWN")
    ELSE LET doubtful == dossier.confidence < Policy.minConfidence
             contested == dossier.contradictions # {}
             thesis == ThesisRisk(dossier.thesis)
         IN  Finding({}, IF doubtful THEN {"minimum_data_confidence"} ELSE {},
                     (IF contested THEN {"contradictions"} ELSE {})
                     \cup (IF AsSevereAs(thesis, "MODERATE") THEN {"thesis"} ELSE {}),
                     IF doubtful THEN "CRITICAL"
                     ELSE IF thesis = "HIGH" THEN "HIGH"
                     ELSE IF contested \/ dossier.unknowns # {} THEN "MODERATE"
                     ELSE thesis)

(* Positions of the proposal's correlation group; none named, none counted. *)
CorrelationCheck(portfolio, proposal) ==
    LET same == {s \in DOMAIN portfolio.positions : portfolio.positions[s].group = proposal.group}
        total == ValueOf(portfolio.positions, same) + proposal.value
    IN  IF proposal.group = None THEN Finding({}, {}, {}, "UNKNOWN")
        ELSE IF ~AtMost(total, Policy.correlated, portfolio.value)
        THEN Finding({}, {}, {"correlated"}, "MODERATE")
        ELSE Finding({}, {}, {}, "LOW")

NewsCheck(news) ==
    Finding({}, {}, IF news = None THEN {}
                    ELSE {w \in {"negative", "warned"} :
                            \/ w = "negative" /\ news.direction = "NEGATIVE"
                            \/ w = "warned" /\ news.warned # "none"}, "UNKNOWN")

(* The inputs for which the evaluation raises.                             *)
Unassessable(portfolio, proposal) ==
    portfolio.value <= 0 \/ portfolio.cash < 0 \/ proposal.value <= 0

(* evaluate_investment: a hard breach blocks, a missing input defers, and  *)
(* any warning or moderate risk leaves a reservation.                      *)
Assess(portfolio, proposal, snapshot, news, crisis, dossier) ==
    LET checks == {VolatilityCheck(snapshot), LiquidityCheck(snapshot), CrisisCheck(crisis),
                   DeepCheck(dossier), CorrelationCheck(portfolio, proposal), NewsCheck(news)}
        hard == SizeBreaches(portfolio, proposal) \cup DrawdownBreaches(portfolio)
                \cup UNION {c.hard : c \in checks}
    IN  IF hard # {} THEN "BLOCKED"
        ELSE IF \E c \in checks : c.data # {} THEN "INSUFFICIENT_DATA"
        ELSE IF \E c \in checks : c.warnings # {} \/ AsSevereAs(c.risk, "MODERATE")
        THEN "APPROVED_WITH_WARNINGS"
        ELSE "APPROVED"
=============================================================================
