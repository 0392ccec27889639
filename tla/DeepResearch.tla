---------------------------- MODULE DeepResearch ----------------------------
(***************************************************************************)
(* The deterministic part of the Deep Looker agent's dossier               *)
(* (agents/deep_looker): the contradictions between what the other agents  *)
(* and the statements say, the identified risks and the thesis' status.    *)
(*   statements  [revenue, priorRevenue, fcf, priorFcf, debt, equity,      *)
(*                ebit, interest], each an integer or None; None when the  *)
(*                fundamental data provider is absent or fails             *)
(*   snapshot    [trend, volatility, stale, volume]                        *)
(*   news        [direction, warned], warned "conflict", "legal" or "none"  *)
(*   crisis      [events, direction]                                       *)
(* An input that was not delivered is None.                                *)
(***************************************************************************)
EXTENDS Integers, FiniteSets

CONSTANT None  \* Python's None

Known(x, y) == x # None /\ y # None

(* A growth rate needs both periods and a prior that is not zero; only     *)
(* free cash flow divides by the prior's absolute value, so the growth of  *)
(* a revenue that was negative has the sign of the fall.                   *)
RevenueGrew(s) ==
    /\ Known(s.revenue, s.priorRevenue)
    /\ \/ s.priorRevenue > 0 /\ s.revenue > s.priorRevenue
       \/ s.priorRevenue < 0 /\ s.revenue < s.priorRevenue

CashFlowShrank(s) == Known(s.fcf, s.priorFcf) /\ s.priorFcf # 0 /\ s.fcf < s.priorFcf

(* debt / equity >= 2; a negative equity makes the ratio negative.         *)
Leveraged(s) == Known(s.debt, s.equity) /\ s.equity > 0 /\ s.debt >= 2 * s.equity

HealthMissing(s) ==
    {m \in {"statements", "revenue", "revenue_growth_inputs", "interest_coverage_inputs"} :
        \/ m = "statements" /\ s = None
        \/ /\ s # None
           /\ \/ m = "revenue" /\ s.revenue = None
              \/ m = "revenue_growth_inputs"
                 /\ (~Known(s.revenue, s.priorRevenue) \/ s.priorRevenue = 0)
              \/ m = "interest_coverage_inputs"
                 /\ (~Known(s.ebit, s.interest) \/ s.interest = 0)}

Completeness(present, partial, conflicting) ==
    IF conflicting THEN "CONFLICTING"
    ELSE IF ~present THEN "MISSING"
    ELSE IF partial THEN "PARTIAL" ELSE "COMPLETE"

(* The overall levels of a crisis that an uptrend contradicts.             *)
(* Mutant: SEVERE, which the Risk Manager does not have, is forgotten.     *)
AlarmingNames == {"HIGH", "CRITICAL"}
Alarming == {"HIGH", "SEVERE", "CRITICAL"}

Contradictions(s, snapshot, news, crisis) ==
    {c \in {"growth", "trend", "outlook", "reporting"} :
        \/ c = "growth" /\ s # None /\ RevenueGrew(s) /\ CashFlowShrank(s)
        \/ /\ c = "trend"
           /\ snapshot # None /\ crisis # None
           /\ snapshot.trend = "UPTREND"
           /\ \E e \in crisis.events : e.overall \in Alarming
        \/ /\ c = "outlook"
           /\ news # None /\ crisis # None
           /\ news.direction = "POSITIVE" /\ crisis.direction = "NEGATIVE"
        \/ c = "reporting" /\ news # None /\ news.warned = "conflict"}

(* Only the contradiction inside the statements is of severity HIGH.       *)
Grave(contradictions) == "growth" \in contradictions

(* Volatility is in percent.  Every report of a sanction, a regulation or  *)
(* a supply disruption is a risk of its own.                               *)
RiskReports == {"SANCTIONS", "REGULATION", "SUPPLY_CHAIN_DISRUPTION", "ENERGY_DISRUPTION"}
Risks(s, snapshot, crisis, hasStatements) ==
    (IF snapshot # None /\ snapshot.volatility # None /\ snapshot.volatility >= 40
     THEN {<<"volatility">>} ELSE {})
    \cup (IF snapshot # None /\ snapshot.volatility # None /\ snapshot.volume \in {"unusual", "dried up"}
          THEN {<<"liquidity">>} ELSE {})
    \cup (IF s # None /\ Leveraged(s) THEN {<<"debt">>} ELSE {})
    \cup (IF ~hasStatements THEN {<<"no statements">>} ELSE {})
    \cup (IF crisis = None THEN {}
          ELSE {<<"crisis", e>> : e \in {e \in crisis.events : e.type \in RiskReports}})

Supporting(s, snapshot) ==
    (IF s # None /\ RevenueGrew(s) THEN {"growth"} ELSE {})
    \cup (IF snapshot # None THEN {"trend"} ELSE {})

(* The first three risks count against the thesis.                         *)
Invalidating(s, risks) ==
    (IF s # None /\ CashFlowShrank(s) THEN 1 ELSE 0)
    + (IF Cardinality(risks) > 3 THEN 3 ELSE Cardinality(risks))

Unknowns(s, feeds, news, crisis) ==
    {u \in {"statements", "valuation", "news", "crisis"} :
        \/ u = "statements" /\ s = None
        \/ u = "valuation" /\ "valuation" \notin feeds
        \/ u = "news" /\ news = None
        \/ u = "crisis" /\ crisis = None}

ThesisStatus(s, snapshot, contradictions, risks) ==
    LET fundamentals == Completeness(s # None, HealthMissing(s) # {}, FALSE)
        for == Cardinality(Supporting(s, snapshot))
        against == Invalidating(s, risks)
    IN  IF s = None /\ snapshot = None /\ for = 0 THEN "INSUFFICIENT_DATA"
        ELSE IF Grave(contradictions) THEN "MIXED"
        ELSE IF against > for + 1 THEN "WEAK_SUPPORT"
        ELSE IF /\ fundamentals = "COMPLETE"
                /\ snapshot # None
                /\ snapshot.trend = "UPTREND"
                /\ contradictions = {}
        THEN "STRONG_SUPPORT"
        ELSE IF for > 0 /\ against = 0 THEN "MODERATE_SUPPORT"
        ELSE IF for > 0
        THEN IF contradictions # {} THEN "MIXED" ELSE "MODERATE_SUPPORT"
        ELSE "INSUFFICIENT_DATA"

(* In percent; llm is the confidence the model gave, 45 when it failed.    *)
Confidence(llm, s, snapshot, sourced, contradictions) ==
    LET n == Cardinality(contradictions)
        sum == llm + (IF s # None THEN 80 ELSE 25) + (IF snapshot # None THEN 80 ELSE 25)
               + (IF sourced THEN 70 ELSE 20)
    IN  IF n = 0 THEN sum \div 4
        ELSE (sum + (IF n > 6 THEN 10 ELSE 70 - 10 * n)) \div 5

(* Some input names a source; the agents' results are taken to name some.  *)
Sourced(s, feeds, snapshot, news, crisis) ==
    s # None \/ feeds # {} \/ snapshot # None \/ news # None \/ crisis # None

(* The dossier.  Besides the statements the provider's other feeds count   *)
(* only as delivered or not: feeds is a subset of "profile", "valuation"   *)
(* and "earnings".  An asset has statements when its profile says so.      *)
Dossier(s, feeds, hasStatements, snapshot, news, crisis, llm) ==
    LET found == Contradictions(s, snapshot, news, crisis)
        risks == Risks(s, snapshot, crisis, hasStatements)
        sourced == Sourced(s, feeds, snapshot, news, crisis)
    IN  [confidence |-> Confidence(llm, s, snapshot, sourced, found),
         contradictions |-> found,
         unknowns |-> Unknowns(s, feeds, news, crisis),
         risks |-> risks,
         thesis |-> ThesisStatus(s, snapshot, found, risks)]
=============================================================================
