--------------------------- MODULE MarketResearch ---------------------------
(***************************************************************************)
(* The market snapshot the Market Research agent computes from daily bars, *)
(* without the language model (agents/market_research): the cached or      *)
(* fetched bars, the filter on their quality, trend, volatility and volume. *)
(*   bar       [day, open, high, low, close, volume]; prices in cents, a   *)
(*             price that is not a number counting as 0                    *)
(*   snapshot  [trend, volatility, stale, volume], see RiskManager         *)
(* Of the snapshot's fields only those are kept that a later stage's       *)
(* verdict depends on; regime, momentum and anomalies are only reported.   *)
(***************************************************************************)
EXTENDS Integers, SequencesExt

CONSTANTS
    None,        \* Python's None
    TTL,         \* MarketAnalysisConfig.cache_ttl_seconds
    StaleAfter   \* RiskPolicy.stale_market_data_minutes, in seconds

Sound(bar) ==
    /\ \A p \in {bar.open, bar.high, bar.low, bar.close} : p > 0
    /\ bar.low <= bar.high
    /\ bar.open \in bar.low..bar.high /\ bar.close \in bar.low..bar.high
    /\ bar.volume >= 0

(* filter_valid_bars: by day, the first sound bar of each.                 *)
CleanBars(bars) ==
    LET First(i) == /\ Sound(bars[i])
                    /\ ~\E j \in 1..i - 1 : Sound(bars[j]) /\ bars[j].day = bars[i].day
        kept == SelectSeq([i \in DOMAIN bars |-> i], First)
    IN  SortSeq([k \in DOMAIN kept |-> bars[kept[k]]], LAMBDA a, c : a.day < c.day)

Recent(bars, n) == SubSeq(bars, Len(bars) - n + 1, Len(bars))
Total(numbers) == FoldSeq(+, 0, numbers)
Closes(bars) == [k \in DOMAIN bars |-> bars[k].close]

(* A moving average is represented by the sum it divides.                  *)
SumOfLast(bars, n) == IF Len(bars) < n THEN None ELSE Total(Closes(Recent(bars, n)))

(* The close a number of bars ago; filtered bars have positive closes.     *)
CloseBefore(bars, n) == IF Len(bars) < n + 1 THEN None ELSE bars[Len(bars) - n].close

(* classify_trend: averages of 20 and 50 closes and the return of 5 bars.  *)
Within(difference, permille, whole) ==
    1000 * difference <= permille * whole /\ -1000 * difference <= permille * whole

Trend(bars) ==
    LET now == CloseBefore(bars, 0)
        s20 == SumOfLast(bars, 20)
        s50 == SumOfLast(bars, 50)
        base == CloseBefore(bars, 5)
        bullish == s50 # None /\ 20 * now > s20 /\ 5 * s20 > 2 * s50
        bearish == s50 # None /\ 20 * now < s20 /\ 5 * s20 < 2 * s50
    IN  IF s20 = None THEN "INSUFFICIENT_DATA"
        ELSE CASE bullish /\ now > base -> "UPTREND"
               [] bearish /\ now < base -> "DOWNTREND"
               [] (bullish /\ now < base) \/ (bearish /\ now > base) -> "MIXED"
               [] OTHER ->
                    IF Within(20 * now - s20, 15, s20) /\ Within(now - base, 20, base)
                    THEN "SIDEWAYS"
                    ELSE IF 20 * now > s20 THEN "UPTREND"
                    ELSE IF 20 * now < s20 THEN "DOWNTREND" ELSE "MIXED"

(* The logarithm of a quotient of two closes, in thousandths, up to the    *)
(* third order of their difference.                                        *)
LogReturn(from, to) == (2000 * (to - from)) \div (to + from)

(* The sample deviation of the last five log returns, annualised with 252  *)
(* days, in whole percent.                                                 *)
Window == 5
Volatility(bars) ==
    IF Len(bars) <= Window THEN None
    ELSE LET recent == Recent(bars, Window + 1)
             returns == [k \in 1..Window |-> LogReturn(recent[k].close, recent[k + 1].close)]
             squares == [k \in 1..Window |-> returns[k] * returns[k]]
             yearly == (252 * (Window * Total(squares) - Total(returns) * Total(returns)))
                       \div (Window * (Window - 1))
         IN  CHOOSE p \in 0..4000 : 100 * p * p <= yearly /\ yearly < 100 * (p + 1) * (p + 1)

(* The last volume against the average of up to 20 before it: "dried up"   *)
(* is none where there was some, which is also unusual.                    *)
Volume(bars) ==
    IF bars = <<>> THEN "none"
    ELSE LET now == bars[Len(bars)].volume
             n == IF Len(bars) > 20 THEN 20 ELSE Len(bars) - 1
             sum == IF n = 0 THEN now
                    ELSE Total([k \in 1..n |-> bars[Len(bars) - k].volume])
             days == IF n = 0 THEN 1 ELSE n
         IN  CASE now = 0 -> IF sum > 0 THEN "dried up" ELSE "none"
               [] now > 0 /\ sum > 0 /\ (days * now >= 2 * sum \/ 5 * days * now <= sum) -> "unusual"
               [] OTHER -> "usual"

(* The cache hands out bars younger than its TTL, with the time they were  *)
(* retrieved; otherwise they are fetched and retrieved now.                *)
Cached(age) == age # None /\ age < TTL

(* build_market_snapshot, judged by the Risk Manager some seconds later by *)
(* when the bars were retrieved, not by the day of the last one.           *)
MarketSnapshot(cached, fetched, age, seconds) ==
    LET bars == CleanBars(IF Cached(age) THEN cached ELSE fetched)
    IN  [trend |-> Trend(bars), volatility |-> Volatility(bars), volume |-> Volume(bars),
         stale |-> (IF Cached(age) THEN age ELSE 0) + seconds > StaleAfter]
=============================================================================
