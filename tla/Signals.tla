------------------------------ MODULE Signals ------------------------------
(***************************************************************************)
(* Where trades come from: the indicators and the strategy library         *)
(* (src/strategy_engine.rs) and the strategies of the suggestion pages     *)
(* (src/suggestion_engine.rs). Both are given a whole series of bars and   *)
(* return the bars to enter on; the simulator then enters on them as if    *)
(* they had been known when those bars closed.                             *)
(*                                                                         *)
(* A series of values is a function on the bars where it is finite; a NaN  *)
(* is a bar outside its domain. Prices are whole, ratios in percent, gaps  *)
(* in basis points, and a quotient is rounded down. `chart` grows as bars  *)
(* are downloaded.                                                         *)
(***************************************************************************)
EXTENDS Integers, Sequences, FiniteSets, FiniteSetsExt, SequencesExt, Functions

CONSTANTS
    Candles,              \* bars a day may bring: [open, high, low, close, vol]
    MaxCandles,           \* bound: bars of a chart
    EmaFast, EmaSlow,     \* 9, 21
    MacdFast, MacdSlow, MacdSmooth,  \* 12, 26, 9
    RsiPeriod, Window,    \* 14; 20 of the bands, channels and volumes
    TrendPeriod, TrendMult,          \* 10, 3
    BandMult,             \* 2
    OrBars,               \* 15 minutes in bars
    GapMin,               \* 50 bps
    RvolMin               \* 200 percent

ASSUME PeriodsAssumption ==
    {EmaFast, EmaSlow, MacdFast, MacdSlow, MacdSmooth, RsiPeriod, Window, TrendPeriod,
     OrBars} \subseteq Nat \ {0}

ASSUME BoundAssumption == MaxCandles \in Nat

VARIABLE chart

Undefined == [i \in {} |-> 0]
OverBars(x, lo, hi) == SumFunction([i \in lo..hi |-> x[i]])
Field(b, f) == [i \in DOMAIN b |-> b[i][f]]
Constant(b, t) == [i \in DOMAIN b |-> t]
AbsOf(x) == IF x < 0 THEN -x ELSE x
Both(x, y) == DOMAIN x \cap DOMAIN y

-----------------------------------------------------------------------------
\* The indicators.

\* Seeded with the mean of the first p finite values.
Ema(x, p) ==
    LET s == Min(DOMAIN x) + p - 1
        f[i \in s..Max(DOMAIN x)] ==
            IF i = s THEN OverBars(x, s - p + 1, s) \div p
            ELSE (2 * x[i] + (p - 1) * f[i - 1]) \div (p + 1)
    IN  IF Cardinality(DOMAIN x) < p THEN Undefined ELSE f

\* The mean of the first p values of x, which starts at bar 2, then Wilder's.
Wilder(x, p, n) ==
    LET f[i \in (p + 1)..n] ==
            IF i = p + 1 THEN OverBars(x, 2, p + 1) \div p
            ELSE (x[i] + (p - 1) * f[i - 1]) \div p
    IN  f

Moves(c) == [i \in 2..Len(c) |-> c[i] - c[i - 1]]
Rsi(c, p) ==
    LET m == Moves(c)
        up == Wilder([i \in DOMAIN m |-> IF m[i] > 0 THEN 100 * m[i] ELSE 0], p, Len(c))
        down == Wilder([i \in DOMAIN m |-> IF m[i] < 0 THEN -(100 * m[i]) ELSE 0], p, Len(c))
    IN  [i \in DOMAIN up |-> IF down[i] = 0 THEN 100 ELSE (100 * up[i]) \div (up[i] + down[i])]

TrueRange(b) ==
    [i \in 2..Len(b) |->
        Max({b[i].high - b[i].low, AbsOf(b[i].high - b[i - 1].close),
             AbsOf(b[i].low - b[i - 1].close)})]
Atr(b, p) == Wilder(TrueRange(b), p, Len(b))

Macd(c) ==
    LET fast == Ema(c, MacdFast)
        slow == Ema(c, MacdSlow)
    IN  [i \in Both(fast, slow) |-> fast[i] - slow[i]]
MacdSignal(c) == IF Macd(c) = Undefined THEN Undefined ELSE Ema(Macd(c), MacdSmooth)

\* Mean and standard deviation of the trailing window, population form.
Middle(c) == [i \in Window..Len(c) |-> OverBars(c, i - Window + 1, i) \div Window]
Deviation(c) ==
    [i \in Window..Len(c) |->
        LET d == [j \in (i - Window + 1)..i |-> (c[j] - Middle(c)[i]) * (c[j] - Middle(c)[i])]
            var == OverBars(d, i - Window + 1, i) \div Window
        IN  CHOOSE r \in 0..var : r * r <= var /\ (r + 1) * (r + 1) > var]
Banded(centre, dev, k) == [i \in Both(centre, dev) |-> centre[i] + k * dev[i]]
ZScore(c) ==
    [i \in {j \in DOMAIN Deviation(c) : Deviation(c)[j] > 0} |->
        (c[i] - Middle(c)[i]) \div Deviation(c)[i]]

\* Final bands only tighten while the close stays inside them; the trend turns when
\* it leaves.
Trend(b) ==
    LET atr == Atr(b, TrendPeriod)
        first == TrendPeriod + 1
        Upper(i) == (b[i].high + b[i].low) \div 2 + TrendMult * atr[i]
        Lower(i) == (b[i].high + b[i].low) \div 2 - TrendMult * atr[i]
        f[i \in DOMAIN atr] ==
            IF i = first THEN [up |-> Upper(i), lo |-> Lower(i), dir |-> 1]
            ELSE LET p == f[i - 1]
                     up == IF Upper(i) < p.up \/ b[i - 1].close > p.up THEN Upper(i) ELSE p.up
                     lo == IF Lower(i) > p.lo \/ b[i - 1].close < p.lo THEN Lower(i) ELSE p.lo
                 IN  [up |-> up, lo |-> lo,
                      dir |-> IF b[i].close > up THEN 1
                              ELSE IF b[i].close < lo THEN -1 ELSE p.dir]
    IN  [i \in DOMAIN atr |-> f[i].dir]

\* Bars of bar i's day up to bar i.
DayToBar(b, i) == {j \in 1..i : b[j].day = b[i].day}
Vwap(b) ==
    [i \in DOMAIN b |->
        LET js == DayToBar(b, i)
            v == SumFunction([j \in js |-> b[j].vol])
        IN  IF v = 0 THEN b[i].close
            ELSE SumFunction([j \in js |->
                    ((b[j].high + b[j].low + b[j].close) \div 3) * b[j].vol]) \div v]

\* Channel and mean volume of the bars before, the bar itself left out.
Before(i) == (i - Window)..(i - 1)
DonchianUp(b) == [i \in (Window + 1)..Len(b) |-> Max({b[j].high : j \in Before(i)})]
DonchianLow(b) == [i \in (Window + 1)..Len(b) |-> Min({b[j].low : j \in Before(i)})]
Rvol(b) ==
    LET Mean(i) == OverBars(Field(b, "vol"), i - Window, i - 1)
    IN  [i \in {j \in (Window + 1)..Len(b) : Mean(j) > 0} |->
            (100 * Window * b[i].vol) \div Mean(i)]

\* Mutant: the levels are those of the bar's own day.
PriorDayOwn(b, i) == {j \in DOMAIN b : b[j].day = b[i].day}

\* The bars of the day before bar i's.
PriorDay(b, i) ==
    LET earlier == {j \in DOMAIN b : b[j].day < b[i].day}
    IN  {j \in earlier : \A k \in earlier : b[k].day <= b[j].day}
Later(b) == {i \in DOMAIN b : PriorDay(b, i) # {}}
PriorHigh(b) == [i \in Later(b) |-> Max({b[j].high : j \in PriorDay(b, i)})]
PriorLow(b) == [i \in Later(b) |-> Min({b[j].low : j \in PriorDay(b, i)})]
PriorClose(b) == [i \in Later(b) |-> b[Max(PriorDay(b, i))].close]
Pivot(b) == [i \in Later(b) |-> (PriorHigh(b)[i] + PriorLow(b)[i] + PriorClose(b)[i]) \div 3]
Gap(b) ==
    [i \in Later(b) |->
        ((b[Min(DayToBar(b, i))].open - PriorClose(b)[i]) * 10000) \div PriorClose(b)[i]]

\* The opening range stands once its bars are over.
Opening(b, i) == {j \in DayToBar(b, i) : Cardinality(DayToBar(b, j)) <= OrBars}
AfterOpening(b) == {i \in DOMAIN b : Cardinality(DayToBar(b, i)) > OrBars}
OpeningHigh(b) == [i \in AfterOpening(b) |-> Max({b[j].high : j \in Opening(b, i)})]
OpeningLow(b) == [i \in AfterOpening(b) |-> Min({b[j].low : j \in Opening(b, i)})]

-----------------------------------------------------------------------------
\* Strategies: the entries of a series, <<bar, direction>>.

CrossUp(x, y, i) == {i - 1, i} \subseteq Both(x, y) /\ x[i - 1] <= y[i - 1] /\ x[i] > y[i]
CrossDown(x, y, i) == {i - 1, i} \subseteq Both(x, y) /\ x[i - 1] >= y[i - 1] /\ x[i] < y[i]

\* push_cross: up through one level is long, down through the other is short.
Crosses(x, up, down) ==
    {<<i, "Long">> : i \in {j \in DOMAIN x : CrossUp(x, up, j)}}
    \cup {<<i, "Short">> : i \in {j \in DOMAIN x : ~CrossUp(x, up, j) /\ CrossDown(x, down, j)}}

Bullish(bar) == bar.close >= bar.open
DayStart(b) == {i \in DOMAIN Gap(b) : Cardinality(DayToBar(b, i)) = 1}
GapAndGo(b) ==
    {<<i, "Long">> : i \in {j \in DayStart(b) : Gap(b)[j] > GapMin /\ Bullish(b[j])}}
    \cup {<<i, "Short">> : i \in {j \in DayStart(b) : Gap(b)[j] < -GapMin /\ ~Bullish(b[j])}}

Library == {"vwap_cross", "ema_cross_9_21", "rsi_reversion", "macd_cross",
            "bollinger_reversion", "supertrend", "orb_15m", "donchian_breakout",
            "zscore_reversion", "vwap_band_reversion", "cpr_pivot", "gap_and_go",
            "rvol_breakout"}

Entries(strategy, b) ==
    LET c == Field(b, "close")
        dev == Deviation(c)
        flat == Constant(b, 0)
        up == {j \in DOMAIN b : CrossUp(Rvol(b), Constant(b, RvolMin), j)}
    IN  CASE strategy = "vwap_cross" -> Crosses(c, Vwap(b), Vwap(b))
          [] strategy = "ema_cross_9_21" -> Crosses(Ema(c, EmaFast), Ema(c, EmaSlow), Ema(c, EmaSlow))
          [] strategy = "rsi_reversion" -> Crosses(Rsi(c, RsiPeriod), Constant(b, 30), Constant(b, 70))
          [] strategy = "macd_cross" -> Crosses(Macd(c), MacdSignal(c), MacdSignal(c))
          [] strategy = "bollinger_reversion" ->
                Crosses(c, Banded(Middle(c), dev, -BandMult), Banded(Middle(c), dev, BandMult))
          [] strategy = "supertrend" -> Crosses(Trend(b), flat, flat)
          [] strategy = "orb_15m" -> Crosses(c, OpeningHigh(b), OpeningLow(b))
          [] strategy = "donchian_breakout" -> Crosses(c, DonchianUp(b), DonchianLow(b))
          [] strategy = "zscore_reversion" ->
                Crosses(ZScore(c), Constant(b, -BandMult), Constant(b, BandMult))
          [] strategy = "vwap_band_reversion" ->
                Crosses(c, Banded(Vwap(b), dev, -BandMult), Banded(Vwap(b), dev, BandMult))
          [] strategy = "cpr_pivot" -> Crosses(c, Pivot(b), Pivot(b))
          [] strategy = "gap_and_go" -> GapAndGo(b)
          [] strategy = "rvol_breakout" ->
                {<<i, IF Bullish(b[i]) THEN "Long" ELSE "Short">> : i \in up}

\* strategy_signals of the suggestion pages, one direction at a time.
Suggested == {"VwapTrend", "OpeningRange", "GapAndGo", "PrevDayBreakout"}
SuggestedEntries(strategy, dir, b) ==
    LET c == Field(b, "close")
        CrossIn(up, down) ==
            {i \in DOMAIN b : IF dir = "Long" THEN CrossUp(c, up, i) ELSE CrossDown(c, down, i)}
    IN  CASE strategy = "VwapTrend" -> CrossIn(Vwap(b), Vwap(b))
          [] strategy = "OpeningRange" -> CrossIn(OpeningHigh(b), OpeningLow(b))
          [] strategy = "GapAndGo" -> {i \in DOMAIN b : <<i, dir>> \in GapAndGo(b)}
          [] strategy = "PrevDayBreakout" -> CrossIn(PriorHigh(b), PriorLow(b))

-----------------------------------------------------------------------------
ChartInit == chart = <<>>

\* One more bar, of the last day or of the next.
AppendCandle ==
    /\ Len(chart) < MaxCandles
    /\ \E k \in Candles, day \in 0..MaxCandles :
        /\ IF chart = <<>> THEN day = 0 ELSE day \in {Last(chart).day, Last(chart).day + 1}
        /\ chart' = Append(chart, [day |-> day, open |-> k.open, high |-> k.high,
                                   low |-> k.low, close |-> k.close, vol |-> k.vol])

ChartNext == AppendCandle
ChartSpec == ChartInit /\ [][ChartNext]_chart

-----------------------------------------------------------------------------
EntriesStay ==
    Len(chart') > Len(chart) =>
        /\ \A s \in Library :
              {e \in Entries(s, chart') : e[1] <= Len(chart)} = Entries(s, chart)
        /\ \A s \in Suggested, dir \in {"Long", "Short"} :
              SuggestedEntries(s, dir, chart') \cap DOMAIN chart
                  = SuggestedEntries(s, dir, chart)

\* No strategy sees the future: the entries on the bars there were are the same
\* once a bar is appended, be it of the same day or of another, so a backtest
\* enters on nothing that was not known when the bar closed.
NoLookahead == [][EntriesStay]_chart
=============================================================================
