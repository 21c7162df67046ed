--------------------------------- MODULE Chart ---------------------------------
(***************************************************************************)
(* The price chart: candles of the indexer, loaded on a timer, and bars      *)
(* built from the marks of the gateway's snapshots, merged into one series.  *)
(* Effect g of the page is the g-th market shown; with two markets the user  *)
(* can only alternate.  Candles and marks are what the services may answer   *)
(* (external).                                                             *)
(***************************************************************************)
EXTENDS Integers, FiniteSets, FiniteSetsExt

CONSTANTS
    MarksOf,      \* MarksOf[m]: the prices of market m
    Buckets,      \* the times of the bars, all after the epoch
    MaxSwitches   \* bound: switches of the market

ASSUME ChartAssumption ==
    /\ DOMAIN MarksOf = {0, 1}
    /\ \A m \in {0, 1} : MarksOf[m] \subseteq Nat \ {0}
    /\ Buckets \subseteq Nat \ {0}
    /\ MaxSwitches \in Nat

VARIABLES
    effect,       \* the effect that is active
    loading,      \* effects with a load of candles under way
    history,      \* the candles of the last load, by time
    liveBars,     \* the bars built from snapshots, by time
    series,       \* what the chart draws
    chartStatus,  \* "loading", "ready", "empty" or "error"
    lastMark      \* the mark shown beside the chart, or 0 for none

chartVars == <<effect, loading, history, liveBars, series, chartStatus, lastMark>>

Market(g)   == g % 2
MarketPrices(m)   == MarksOf[m]
AllPrices   == MarketPrices(0) \cup MarketPrices(1)
Bars(S)     == [open : S, high : S, low : S, close : S]
NoBars      == [t \in {} |-> 0]
IsBarMap(f) == DOMAIN f \subseteq Buckets /\ \A t \in DOMAIN f : f[t] \in Bars(AllPrices)

ChartTypeOK ==
    /\ effect \in 0 .. MaxSwitches
    /\ loading \subseteq 0 .. effect
    /\ IsBarMap(history) /\ IsBarMap(liveBars) /\ IsBarMap(series)
    /\ chartStatus \in {"loading", "ready", "empty", "error"}
    /\ lastMark \in AllPrices \cup {0}

Later(a, b)   == IF a >= b THEN a ELSE b
Earlier(a, b) == IF a <= b THEN a ELSE b

\* A bar of the past extended by what came after it.
Extended(old, new) ==
    [open |-> old.open, high |-> Later(old.high, new.high),
     low |-> Earlier(old.low, new.low), close |-> new.close]

MergedBars(past, now) ==
    [t \in DOMAIN past \cup DOMAIN now |->
        IF t \notin DOMAIN now THEN past[t]
        ELSE IF t \notin DOMAIN past THEN now[t]
        ELSE Extended(past[t], now[t])]

ApplyBars(past, now) ==
    /\ series' = MergedBars(past, now)
    /\ chartStatus' = IF DOMAIN series' = {} THEN "empty" ELSE "ready"

\* What the indexer may answer for market m: no candle, or one of two trades.  A
\* candle with a price that is zero is dropped by validCandle.
Candles(m) ==
    {NoBars} \cup
    {[t \in {b} |-> [open |-> p, high |-> Later(p, q), low |-> Earlier(p, q), close |-> q]] :
        b \in Buckets, p \in MarketPrices(m) \cup {0}, q \in MarketPrices(m)}

\* mutant of ValidCandles: a price of zero is finite too
FiniteCandles(c) == [t \in {b \in DOMAIN c : c[b].low >= 0} |-> c[t]]

ValidCandles(c) == [t \in {b \in DOMAIN c : c[b].low > 0} |-> c[t]]

ChartInit ==
    /\ effect = 0 /\ loading = {0}
    /\ history = NoBars /\ liveBars = NoBars /\ series = NoBars
    /\ chartStatus = "loading" /\ lastMark = 0

\* The interval.
LoadCandles ==
    /\ loading' = loading \cup {effect}
    /\ UNCHANGED <<effect, history, liveBars, series, chartStatus, lastMark>>

\* The answer to a load counts while its effect is active.  Loads of one effect
\* may overlap: that one arrives does not end the others.
CandlesArrive(g) ==
    /\ g \in loading
    /\ loading' \in {loading, loading \ {g}}
    /\ IF g = effect
       THEN /\ \E c \in Candles(Market(g)) : history' = ValidCandles(c)
            /\ ApplyBars(history', liveBars)
       ELSE UNCHANGED <<history, series, chartStatus>>
    /\ UNCHANGED <<effect, liveBars, lastMark>>

LoadThrows(g) ==
    /\ g \in loading
    /\ loading' \in {loading, loading \ {g}}
    /\ chartStatus' = IF g = effect THEN "error" ELSE chartStatus
    /\ UNCHANGED <<effect, history, liveBars, series, lastMark>>

\* A snapshot reaches the chart: of the selected market, or of an earlier one when
\* the hook's socket was left connecting (LiveFeed).
SnapshotShown(m, mark, time) ==
    /\ m = Market(effect)
    /\ mark > 0
    /\ LET bar == [open |-> mark, high |-> mark, low |-> mark, close |-> mark]
       IN  liveBars' = MergedBars(liveBars, [t \in {time} |-> bar])
    /\ lastMark' = mark
    /\ ApplyBars(history, liveBars')
    /\ UNCHANGED <<effect, loading, history>>

\* mutant of ShowMarket: the bars built from snapshots are kept
ShowMarketKeepingBars ==
    /\ effect < MaxSwitches
    /\ effect' = effect + 1
    /\ loading' = loading \cup {effect'}
    /\ history' = NoBars
    /\ chartStatus' = "loading"
    /\ lastMark' = 0
    /\ UNCHANGED <<series, liveBars>>

\* The bars are forgotten; the chart keeps what it draws until bars are applied.
ShowMarket ==
    /\ effect < MaxSwitches
    /\ effect' = effect + 1
    /\ loading' = loading \cup {effect'}
    /\ history' = NoBars /\ liveBars' = NoBars
    /\ chartStatus' = "loading"
    /\ lastMark' = 0
    /\ UNCHANGED series

ChartNext ==
    \/ LoadCandles \/ ShowMarket
    \/ \E g \in 0 .. MaxSwitches : CandlesArrive(g) \/ LoadThrows(g)
    \/ \E m \in {0, 1}, t \in Buckets :
          \E p \in MarketPrices(m) : SnapshotShown(m, p, t)

ChartSpec == ChartInit /\ [][ChartNext]_chartVars

---------------------------------------------------------------------------
(* Properties.                                                             *)

PricesIn(bars) ==
    UNION {{bars[t].open, bars[t].high, bars[t].low, bars[t].close} : t \in DOMAIN bars}

\* Whatever loads and snapshots are under way when the market is switched, and however
\* candles and live bars of one minute are merged: a chart that says it is ready draws
\* candles, of the selected market alone, and its mark is of that market.
ChartShowsSelected ==
    chartStatus = "ready" =>
        /\ PricesIn(series) \cup ({lastMark} \ {0}) \subseteq MarketPrices(Market(effect))
        /\ \A t \in DOMAIN series :
              {series[t].open, series[t].close} \subseteq series[t].low .. series[t].high

===============================================================================
