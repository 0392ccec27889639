----------------------------- MODULE CrisisRisk -----------------------------
(***************************************************************************)
(* The deterministic reading of a news cluster by the Crisis Risk agent    *)
(* (agents/crisis_risk/classifier.py).  A cluster is a record:             *)
(*   types        the event types whose patterns its text matches, in the  *)
(*                order of TYPE_PATTERNS                                   *)
(*   words        the keyword groups its text contains                     *)
(*   countries    how many countries it names                              *)
(*   articles     how many reports it groups, publishers how many distinct *)
(*                sources wrote them, reliability their mean in percent    *)
(*   primary      one of its sources is official                           *)
(*   conflicts    the reports contradict each other                        *)
(*   stale        the last of them is older than a week                    *)
(*   known        the severity the registry of earlier crises remembers    *)
(*                for the event, "NEW" when it matches none of them        *)
(***************************************************************************)
EXTENDS Integers, Sequences

SeverityRank ==
    [UNKNOWN |-> 0, LOW |-> 1, MODERATE |-> 2, HIGH |-> 3, SEVERE |-> 4, CRITICAL |-> 5]

Severities == DOMAIN SeverityRank

(* The stronger of two severities, and the one a number of ranks above.    *)
AtLeast(s, floor) == IF SeverityRank[s] < SeverityRank[floor] THEN floor ELSE s
Bump(s, steps) ==
    CHOOSE t \in Severities :
        LET rank == SeverityRank[s] + steps
        IN  SeverityRank[t] = IF rank > 5 THEN 5 ELSE rank

HighTypes == {"WAR", "MILITARY_CONFLICT", "TERRORISM_EVENT", "ENERGY_DISRUPTION",
              "DEBT_CRISIS", "CURRENCY_CRISIS"}
LowTypes == {"ELECTION", "REGULATION"}
ConflictTypes == {"WAR", "MILITARY_CONFLICT", "TERRORISM_EVENT", "DIPLOMATIC_CRISIS"}
PoliticalTypes == {"ELECTION", "GOVERNMENT_CHANGE", "POLITICAL_INSTABILITY"}
TradeTypes == {"SANCTIONS", "TARIFF", "TRADE_RESTRICTION", "EXPORT_CONTROL"}
SupplyTypes == {"SUPPLY_CHAIN_DISRUPTION", "EXPORT_CONTROL", "NATURAL_DISASTER"}
MacroTypes == {"INFLATION", "CENTRAL_BANK", "INTEREST_RATE", "RECESSION_RISK",
               "DEBT_CRISIS", "CURRENCY_CRISIS"}

BaseSeverity(t) ==
    CASE t = "OTHER" -> "UNKNOWN"
      [] t \in HighTypes -> "HIGH"
      [] t \in LowTypes -> "LOW"
      [] OTHER -> "MODERATE"

(* The first matching pattern names the event; "war" alone is enough when  *)
(* no pattern matches.                                                     *)
EventType(c) ==
    IF c.types # <<>> THEN Head(c.types)
    ELSE IF "war" \in c.words THEN "WAR" ELSE "OTHER"

TypesOf(c) == {EventType(c)} \cup {c.types[i] : i \in DOMAIN c.types}

(* What the text claims, before the number and kind of sources count.      *)
ClaimedSeverity(c) ==
    LET t == EventType(c)
        base == BaseSeverity(t)
    IN  IF "critical" \in c.words
        THEN AtLeast(Bump(IF base = "UNKNOWN" THEN "HIGH" ELSE base, 2), "CRITICAL")
        ELSE IF "severe" \in c.words
        THEN AtLeast(Bump(IF base = "UNKNOWN" THEN "MODERATE" ELSE base, 1), "SEVERE")
        ELSE IF "high" \in c.words /\ SeverityRank[base] < 3
        THEN "HIGH"
        ELSE IF "low" \in c.words /\ t \in LowTypes \cup {"POLITICAL_INSTABILITY"}
        THEN "LOW"
        ELSE base

(* Mutant: the text alone decides.                                         *)
SeverityAsClaimed(c) == ClaimedSeverity(c)

(* A single unofficial report is not enough for CRITICAL.                  *)
Severity(c) ==
    IF ClaimedSeverity(c) = "CRITICAL" /\ ~c.primary /\ c.articles < 2
    THEN "HIGH"
    ELSE ClaimedSeverity(c)

(* An event known to be less severe is escalating, whatever its text says. *)
Worsened(c) == c.known # "NEW" /\ SeverityRank[Severity(c)] > SeverityRank[c.known]

Escalation(c) ==
    IF Worsened(c) THEN "ESCALATING"
    ELSE IF "resolved" \in c.words /\ (c.articles >= 2 \/ c.primary) THEN "RESOLVED"
    ELSE IF "resolved" \in c.words THEN "DE_ESCALATING"
    ELSE IF "escalates" \in c.words THEN "ESCALATING"
    ELSE IF "deescalates" \in c.words THEN "DE_ESCALATING"
    ELSE IF c.articles >= 1 THEN "STABLE" ELSE "UNKNOWN"

Scope(c) ==
    IF "global" \in c.words THEN "GLOBAL"
    ELSE IF "local" \in c.words /\ c.countries <= 1 THEN "LOCAL"
    ELSE IF "regional" \in c.words THEN "REGIONAL"
    ELSE CASE c.countries = 0 -> "UNKNOWN"
           [] c.countries = 1 -> "NATIONAL"
           [] c.countries \in 2..3 -> "MULTI_COUNTRY"
           [] OTHER -> "GLOBAL"

Horizon(t) ==
    CASE t \in {"CENTRAL_BANK", "INTEREST_RATE", "TERRORISM_EVENT"} -> "IMMEDIATE"
      [] t \in {"INFLATION", "CURRENCY_CRISIS", "ENERGY_DISRUPTION"} -> "SHORT_TERM"
      [] t \in {"WAR", "SANCTIONS", "TRADE_RESTRICTION", "REGULATION"} -> "MEDIUM_TERM"
      [] OTHER -> "UNKNOWN"

(* Confidence in percent: the mean reliability, raised by independent and  *)
(* official sources, lowered by conflicts and age, capped for what is      *)
(* unclassified or rests on a single publisher.                            *)
Lesser(a, b) == IF a < b THEN a ELSE b
Greater(a, b) == IF a > b THEN a ELSE b

Confidence(c) ==
    LET supported == IF c.publishers >= 2 THEN Lesser(100, c.reliability + 8)
                                          ELSE c.reliability
        official == IF c.primary THEN Lesser(100, supported + 7) ELSE supported
        disputed == IF c.conflicts THEN Greater(15, official - 25) ELSE official
        aged == IF c.stale THEN Greater(10, disputed - 15) ELSE disputed
        classed == IF EventType(c) = "OTHER" THEN Lesser(aged, 45) ELSE aged
    IN  IF c.articles = 0 THEN 0
        ELSE IF c.publishers = 1 /\ ~c.primary THEN Lesser(classed, 65) ELSE classed

Probability(c) ==
    CASE c.conflicts \/ Confidence(c) < 40 -> "UNCERTAIN"
      [] ~c.conflicts /\ Confidence(c) >= 80 -> "HIGH"
      [] ~c.conflicts /\ Confidence(c) \in 55..79 -> "MODERATE"
      [] OTHER -> "LOW"

(* Each risk dimension one of the event's types belongs to takes its       *)
(* severity, and the overall level is the greatest of them.                *)
OverallRisk(c) ==
    IF TypesOf(c) \cap (ConflictTypes \cup PoliticalTypes \cup TradeTypes \cup SupplyTypes
                        \cup MacroTypes \cup {"ENERGY_DISRUPTION", "REGULATION"}) # {}
    THEN Severity(c) ELSE "UNKNOWN"

Direction(c) ==
    CASE EventType(c) = "OTHER" -> "NO_MATERIAL_IMPACT_IDENTIFIED"
      [] EventType(c) \in LowTypes -> "MIXED"
      [] OTHER -> "NEGATIVE"

Magnitude(c) ==
    CASE Severity(c) \in {"SEVERE", "CRITICAL"} -> "SEVERE"
      [] Severity(c) = "HIGH" -> "HIGH"
      [] EventType(c) = "OTHER" -> "UNKNOWN"
      [] EventType(c) \in LowTypes -> "LOW"
      [] OTHER -> "MODERATE"

Crisis(c) ==
    [type |-> EventType(c), severity |-> Severity(c), overall |-> OverallRisk(c),
     escalation |-> Escalation(c), scope |-> Scope(c), horizon |-> Horizon(EventType(c)),
     probability |-> Probability(c), direction |-> Direction(c), magnitude |-> Magnitude(c)]

(* The crises an analysis reports: unclassified clusters are left out.     *)
Relevant(clusters) == {c \in clusters : EventType(c) # "OTHER"}
Events(clusters) == {Crisis(c) : c \in Relevant(clusters)}

(* What the agent answers: its events, and the direction of the first of   *)
(* them; without any it says that it found none.                           *)
Reports(clusters) ==
    IF Relevant(clusters) = {}
    THEN {[events |-> {}, direction |-> "NO_MATERIAL_IMPACT_IDENTIFIED"]}
    ELSE {[events |-> Events(clusters), direction |-> e.direction] : e \in Events(clusters)}

=============================================================================
