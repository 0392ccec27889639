-------------------------- MODULE MCDecisionPipeline --------------------------
(* Instances of the decision pipeline with the repository's default limits. *)
EXTENDS DecisionPipeline, Sequences, TLC

DefaultPolicy ==
    [single |-> 10, concentration |-> 15, cash |-> 20, drawdown |-> 25, positions |-> 10,
     class |-> [sector |-> 30, asset_class |-> 60, geography |-> 60],
     volatilityWarn |-> 35, volatilityBlock |-> 60, crisisBlock |-> "CRITICAL",
     crisisWarn |-> "HIGH", blockCrisis |-> TRUE, correlated |-> 35, minConfidence |-> 50,
     requireMarket |-> TRUE, requireDeep |-> FALSE]

DefaultProtection ==
    [position |-> 10, exposure |-> 80, cash |-> 10, drawdown |-> 25, group |-> 30, crypto |-> 20]

SomeCoin == "coin" :> 2 @@ "share" :> 1
Coins == {"coin"}

(* Bars that rise a little every day, that also swing until the trade dries *)
(* up, that contradict themselves, and the snapshots made of them: at once, or judged an hour  *)
(* after the cache was filled because an agent would not return.           *)
Market == INSTANCE MarketResearch WITH TTL <- 60, StaleAfter <- 3600

Bar(day, from, to) ==
    [day |-> day, open |-> from, high |-> IF from > to THEN from ELSE to,
     low |-> IF from > to THEN to ELSE from, close |-> to, volume |-> 100]
Rising == [d \in 1..22 |-> Bar(d, 1000 + 10 * d, 1010 + 10 * d)]
Swinging == [d \in 1..22 |-> [Bar(d, 1000 + 10 * d, 1010 + 10 * d + (d % 2) * 50)
                                 EXCEPT !.volume = IF d = 22 THEN 0 ELSE 100]]
Broken == [d \in 1..22 |-> [Bar(d, 1000, 1010) EXCEPT !.low = 1005]]
SomeSnapshots ==
    {Market!MarketSnapshot(<<>>, Rising, None, 5), Market!MarketSnapshot(<<>>, Swinging, 60, 5),
     Market!MarketSnapshot(Swinging, Rising, 30, 3600),
     Market!MarketSnapshot(<<>>, Broken, None, 5)}

(* filter_valid_bars: bars that contradict themselves, bars repeated for a  *)
(* day and the order of delivery change nothing in what is measured.       *)
Reversed(bars) == [k \in DOMAIN bars |-> bars[Len(bars) + 1 - k]]
Spoilt(bars, k) ==
    SubSeq(bars, 1, k - 1) \o <<Broken[k], bars[k], [bars[k] EXCEPT !.volume = 9]>>
    \o SubSeq(bars, k + 1, Len(bars))
ASSUME DroppedBarsChangeNothing ==
    \A bars \in {Rising, Swinging} : \A k \in DOMAIN bars :
        LET measured == Market!MarketSnapshot(<<>>, bars, None, 5)
        IN  /\ Market!MarketSnapshot(<<>>, Spoilt(bars, k), None, 5) = measured
            /\ Market!MarketSnapshot(<<>>, Reversed(bars), None, 5) = measured

SomeNews == {[direction |-> "POSITIVE", warned |-> "none"],
             [direction |-> "NEUTRAL", warned |-> "conflict"]}

Cluster(type, words, articles, publishers, primary) ==
    [types |-> <<type>>, words |-> words, countries |-> 1, articles |-> articles,
     publishers |-> publishers, reliability |-> 75, primary |-> primary, conflicts |-> FALSE,
     stale |-> FALSE, known |-> "NEW"]
Rumour == Cluster("TERRORISM_EVENT", {"critical", "resolved"}, 1, 1, FALSE)
Tariffs == [Cluster("TARIFF", {"severe", "resolved"}, 3, 2, FALSE) EXCEPT !.known = "MODERATE"]
Vote == Cluster("ELECTION", {}, 2, 2, TRUE)
SomeClusters == {{Rumour}, {Tariffs, Vote}}

Accounts(revenue, fcf) ==
    [revenue |-> revenue, priorRevenue |-> 100, fcf |-> fcf, priorFcf |-> 20, debt |-> 10,
     equity |-> 50, ebit |-> 30, interest |-> 5]
SomeFeeds == {{}, {"profile", "valuation", "earnings"}}
SomeStatements == {None, Accounts(120, 25), Accounts(120, 10)}

AllFaults == FaultKinds
NoFaults == {}
=============================================================================
