--------------------------- MODULE InvestmentSafety ---------------------------
(***************************************************************************)
(* InvestmentSafetyManagerAgent (agents/investment_safety/agent.py): what  *)
(* one assessment of an open position makes of its price and of the        *)
(* evidence handed over with it.                                           *)
(*                                                                         *)
(* A position has the claims its thesis makes ("growth", "stable") and a   *)
(* horizon.  Evidence is a record: signals of the market snapshot ("fall": *)
(* five-day return below -10 %, "volatile": volatility above 40 %), the    *)
(* number of news warnings about regulation or law, the severities of the  *)
(* crisis events, and whether a research dossier came along.  The price is *)
(* in percent of the entry price.                                          *)
(***************************************************************************)
EXTENDS Integers

Recommendations == {"HOLD", "REVIEW", "EXIT_CANDIDATE"}
ThesisStatuses == {"SUPPORTED", "MIXED", "WEAKENING", "INVALIDATED"}
Horizons == {"SHORT_TERM", "MEDIUM_TERM", "LONG_TERM"}

NoEvidence == [signals |-> {}, legal |-> 0, crises |-> {}, dossier |-> FALSE]

(* Mutant of Drawdown: the difference taken the wrong way round.           *)
Gain(price) == IF price < 100 THEN 0 ELSE price - 100

Drawdown(price) == IF price < 100 THEN 100 - price ELSE 0
DeepLoss(price) == Drawdown(price) > 30

(* One finding per contradiction: a severity and what tells it apart from  *)
(* the others.  Only HIGH and CRITICAL crises count.                       *)
Contradictions(claims, evidence) ==
  {f \in {<<"MODERATE", "fall">>} : "growth" \in claims /\ "fall" \in evidence.signals}
    \union {f \in {<<"HIGH", "volatile">>} :
               "stable" \in claims /\ "volatile" \in evidence.signals}
    \union {<<"HIGH", "legal", n>> : n \in 1..evidence.legal}
    \union {<<"CRITICAL", s>> : s \in evidence.crises \cap {"HIGH", "CRITICAL"}}

OfSeverity(found, s) == {c \in found : c[1] = s}
Several(found) == \E c, d \in found : c # d

(* The dossier's own verdict is left out: an assessment with a dossier     *)
(* never returns (see Raises).                                             *)
ThesisStatus(found, price) ==
  LET critical == OfSeverity(found, "CRITICAL")
      high == OfSeverity(found, "HIGH")
  IN  CASE critical # {} \/ Several(high) -> "INVALIDATED"
        [] critical = {} /\ high # {} /\ ~Several(high) -> "WEAKENING"
        [] critical = {} /\ high = {} /\ found # {} -> "MIXED"
        [] found = {} /\ DeepLoss(price) -> "WEAKENING"
        [] OTHER -> "SUPPORTED"

Recommendation(found, price, horizon) ==
  LET status == ThesisStatus(found, price)
  IN  CASE \/ status = "INVALIDATED"
           \/ OfSeverity(found, "CRITICAL") # {}
           \/ status = "WEAKENING" /\ horizon = "SHORT_TERM" -> "EXIT_CANDIDATE"
        [] \/ status = "WEAKENING" /\ horizon # "SHORT_TERM"
           \/ status = "MIXED"
           \/ status = "SUPPORTED" /\ DeepLoss(price) -> "REVIEW"
        [] OTHER -> "HOLD"

(* A dossier is always fatal: the agent reads an overall completeness and  *)
(* descriptions of conflicts that dossiers do not have.                    *)
Raises(evidence) == evidence.dossier

(* What the caller hears: the recommendation, or UNKNOWN from a result     *)
(* that failed.                                                            *)
Assessment(claims, horizon, evidence, price) ==
  IF Raises(evidence)
  THEN "UNKNOWN"
  ELSE Recommendation(Contradictions(claims, evidence), price, horizon)

=============================================================================
