--------------------------- MODULE MCInvestmentCare ---------------------------
(* A finite instance of InvestmentCare.                                    *)
EXTENDS InvestmentCare

CONSTANTS old, new, rent, fee

OldAndNew == {old, new}
OnlyOld == {old}
GrowthAndStable == [i \in {old, new} |-> {"growth", "stable"}]
MediumTerm == [i \in {old, new} |-> "MEDIUM_TERM"]
TwoCosts == {rent, fee}
OnlyRent == {rent}
FourTasks == {"portfolio_sync", "investment_monitoring", "learning", "cost_accounting"}
LowAndHigh == {65, 105}
(* Nothing, each finding alone, and combinations that tell the statuses    *)
(* apart; the shipped monitor hands over nothing but the price.            *)
SomeEvidence ==
  {NoEvidence}
    \union {[NoEvidence EXCEPT !.signals = s] : s \in SUBSET {"fall", "volatile"}}
    \union {[NoEvidence EXCEPT !.legal = n] : n \in 1..2}
    \union {[NoEvidence EXCEPT !.crises = {s}] : s \in {"SEVERE", "CRITICAL"}}
    \union {[NoEvidence EXCEPT !.dossier = TRUE]}
AllFaults == {"store_error", "no_price", "crash"}
=============================================================================
