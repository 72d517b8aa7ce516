----------------------------- MODULE TradeStats -----------------------------
(***************************************************************************)
(* What a configuration's simulated trades say of it: the statistics that  *)
(* build_config_stat collects (src/suggestion_engine.rs, src/stats.rs,     *)
(* src/validation.rs), the regime test of src/regime.rs and the overfit    *)
(* probability of src/cpcv.rs. A trade is [bar, r, up]: the bar it entered *)
(* on, its R in hundredths, and whether its day was an up day of the       *)
(* index. A ratio is in percent, of its floor. `history` grows as the      *)
(* backtest books trades.                                                  *)
(***************************************************************************)
EXTENDS SeqFilter, FiniteSets, SequencesExt, FiniteSetsExt, Confidence

CONSTANTS
    Bars,            \* bars of the series
    Gains, DayKinds, \* R of a trade; "up", "down", and "none" where the index is not known
    MaxTrades,       \* bound: trades of a configuration
    OosShare, EmbargoShare,  \* OOS_FRACTION, EMBARGO_FRACTION in percent
    FoldCount, RecentCount,  \* WF_FOLDS; 20
    RegimeMin,       \* REGIME_MIN_EACH
    TScore(_)        \* t-statistic times twelve

ASSUME StatsAssumption ==
    /\ {Bars, FoldCount, RecentCount, RegimeMin} \subseteq Nat \ {0} /\ MaxTrades \in Nat
    /\ {OosShare, EmbargoShare} \subseteq 0..100
    /\ Gains \subseteq Int

VARIABLE history

Trade == [bar : 0..(Bars - 1), r : Gains, up : DayKinds]

Rs(trades) == [k \in DOMAIN trades |-> trades[k].r]
SumOf(rs) == FoldLeft(+, 0, rs)
MeanOf(rs) == IF rs = <<>> THEN 0 ELSE SumOf(rs) \div Len(rs)
PercentOf(k, n) == IF n = 0 THEN 0 ELSE (100 * k) \div n

Winners(rs) == Filter(rs, {r \in Int : r > 0})
WinPct(rs) == PercentOf(Len(Winners(rs)), Len(rs))
RecentWinPct(rs) == WinPct(SubSeq(rs, AtLeastOne(Len(rs) - RecentCount + 1), Len(rs)))

\* Gains over losses, at most 99 and 99 without a loss.
FactorOf(rs) ==
    LET pos == SumOf(Winners(rs))
        neg == pos - SumOf(rs)
    IN  IF neg > 0 THEN AtMostOf((100 * pos) \div neg, 9900) ELSE IF pos > 0 THEN 9900 ELSE 0

\* Mutant: the peak stays where the curve started.
DrawdownFromStart(rs) ==
    FoldLeft(LAMBDA s, r : [cum |-> s.cum + r, worst |-> LargerOf(s.worst, -(s.cum + r))],
             [cum |-> 0, worst |-> 0], rs).worst

\* One pass over the equity curve, from 0.
Fallen(s, r) ==
    LET cum == s.cum + r
        peak == LargerOf(s.peak, cum)
    IN  [cum |-> cum, peak |-> peak, worst |-> LargerOf(s.worst, peak - cum)]
DrawdownOf(rs) == FoldLeft(Fallen, [cum |-> 0, peak |-> 0, worst |-> 0], rs).worst

\* A trade without a gain is a loss.
Lost(s, r) ==
    LET run == IF r <= 0 THEN s.run + 1 ELSE 0
    IN  [run |-> run, longest |-> LargerOf(s.longest, run)]
StreakOf(rs) == FoldLeft(Lost, [run |-> 0, longest |-> 0], rs).longest

\* Metrics::from_rs, what the edge map keeps of a list; averages of nothing are 0.
MetricsOf(rs) ==
    LET losses == Filter(rs, {r \in Int : r <= 0})
    IN  [n |-> Len(rs), win |-> WinPct(rs), exp |-> MeanOf(rs), factor |-> FactorOf(rs),
         avgWin |-> MeanOf(Winners(rs)), avgLoss |-> MeanOf(losses), maxDd |-> DrawdownOf(rs)]

-----------------------------------------------------------------------------
\* Validation.

OosStart == (Bars * (100 - OosShare)) \div 100
Embargo == (Bars * EmbargoShare) \div 100
InSampleEnd == IF Embargo > OosStart THEN 0 ELSE OosStart - Embargo

\* purged_embargoed_split: trades between the two are dropped.
Split(trades) ==
    [inside |-> Filter(trades, {t \in Trade : t.bar < InSampleEnd}),
     outside |-> Filter(trades, {t \in Trade : t.bar >= OosStart})]

FoldWidth == AtLeastOne((Bars + FoldCount - 1) \div FoldCount)
InFold(trades, f) ==
    Filter(trades, {t \in Trade : AtMostOf(t.bar \div FoldWidth, FoldCount - 1) = f})

\* walkforward_consistency: neutral for one fold, or fewer than two with trades.
FoldsPositive(trades) ==
    LET filled == {f \in 0..(FoldCount - 1) : InFold(trades, f) # <<>>}
        good == {f \in filled : SumOf(Rs(InFold(trades, f))) > 0}
    IN  IF FoldCount <= 1 \/ Cardinality(filled) < 2 THEN 100
        ELSE PercentOf(Cardinality(good), Cardinality(filled))

\* regime_consistency over the trades' days; a day the map lacks counts nowhere.
RegimeOf(trades) ==
    LET side(up) == Rs(Filter(trades, {t \in Trade : t.up = up}))
        Enough(up) == Len(side(up)) >= RegimeMin
        Holds(up) == SumOf(side(up)) > 0
    IN  IF Enough("up") /\ Enough("down")
        THEN IF Holds("up") /\ Holds("down") THEN "yes" ELSE "no"
        ELSE IF \E up \in {"up", "down"} : Enough(up) /\ ~Holds(up) THEN "no" ELSE "unknown"

\* nifty_regime_map: against the mean of the last `window` closes, against the
\* close before while there are fewer, up on the first day.
UpDay(closes, i, window) ==
    IF i >= window THEN closes[i] * window >= SumOf(SubSeq(closes, i - window + 1, i))
    ELSE i = 1 \/ closes[i] >= closes[i - 1]

\* build_config_stat as the ConfInput that ensure_confidence makes of it, neutral
\* where the search fills it in later.
StatsOf(trades) ==
    LET rs == Rs(trades)
        oos == Rs(Split(trades).outside)
    IN  ConfInput(Len(rs), WinPct(rs), MeanOf(rs), FactorOf(rs), DrawdownOf(rs), SumOf(rs),
                  RecentWinPct(rs), IF oos = <<>> THEN NoOos ELSE WinPct(oos), MeanOf(oos),
                  StreakOf(rs), TScore(rs), TRUE, FoldsPositive(trades), 100, "unknown")

-----------------------------------------------------------------------------
\* Overfit probability of a matrix of configurations by blocks.

\* block_means; an empty block earned nothing.
BlockMeans(trades, blocks) ==
    [b \in 1..blocks |->
        MeanOf(Rs(Filter(trades, {t \in Trade :
                                     (AtMostOf(t.bar, Bars - 1) * blocks) \div Bars = b - 1})))]

Over(row, bs) == SumFunctionOnSet(row, bs)

\* The first of the best in sample.
BestIn(matrix, bs) ==
    CHOOSE c \in DOMAIN matrix :
        LET own == Over(matrix[c], bs)
        IN  /\ \A d \in DOMAIN matrix : Over(matrix[d], bs) <= own
            /\ \A d \in 1..(c - 1) : Over(matrix[d], bs) < own

\* Twice the midrank of c among all.
MidRank2(matrix, bs, c) ==
    LET own == Over(matrix[c], bs)
        below == {d \in DOMAIN matrix : Over(matrix[d], bs) < own}
        equal == {d \in DOMAIN matrix : Over(matrix[d], bs) = own}
    IN  2 * Cardinality(below) + Cardinality(equal) + 1

\* cscv_pbo: of all halvings, the percent whose best in sample ranks at or below the
\* middle out of sample; nothing is said of few configurations or of blocks that do
\* not halve.
MinConfigs == 8
NoPbo == -1
OverfitPct(matrix, blocks) ==
    LET halves == kSubset(blocks \div 2, 1..blocks)
        Fails(h) == LET out == (1..blocks) \ h
                    IN  MidRank2(matrix, out, BestIn(matrix, h)) <= Len(matrix) + 1
    IN  IF Len(matrix) < MinConfigs \/ blocks < 4 \/ blocks % 2 # 0 THEN NoPbo
        ELSE PercentOf(Cardinality({h \in halves : Fails(h)}), Cardinality(halves))

-----------------------------------------------------------------------------
\* compute_conviction: points out of 70, of a score read as out of 100.
Conviction(agree, profitPct, folds, dsrPct, oosExp, oosN, tail) ==
    3 * AtMostOf(agree, 5)
    + (IF profitPct >= 95 THEN 15 ELSE IF profitPct >= 90 THEN 10 ELSE IF profitPct >= 80 THEN 5 ELSE 0)
    + (12 * folds + 50) \div 100
    + (IF dsrPct >= 20 THEN 12 ELSE IF dsrPct >= 10 THEN 6 ELSE 0)
    + (IF oosExp > 0 THEN IF oosN >= 12 THEN 8 ELSE IF oosN >= 6 THEN 4 ELSE 0 ELSE 0)
    + (IF tail = "fair" THEN 8 ELSE IF tail = "thick" THEN 4 ELSE 0)

-----------------------------------------------------------------------------
HistoryInit == history = <<>>

\* run_fill books trades in the order of their bars, one at a time.
BookTrade ==
    /\ Len(history) < MaxTrades
    /\ \E bar \in 0..(Bars - 1), r \in Gains, up \in DayKinds :
        /\ \A k \in DOMAIN history : history[k].bar < bar
        /\ history' = Append(history, [bar |-> bar, r |-> r, up |-> up])

HistoryNext == BookTrade
HistorySpec == HistoryInit /\ [][HistoryNext]_history

-----------------------------------------------------------------------------
\* The one-pass figures are the ones defined over the whole curve: the drawdown
\* is the deepest fall from any point to a later one, the streak the longest
\* stretch without a gain; the averages of the edge map give back what was earned, but
\* for rounding down; a list without a loss is consistent in every fold and regime; and
\* a configuration that was better than another in every block is not called overfit.
FiguresMeanWhatTheySay ==
    LET rs == Rs(history)
        At(k) == SumOf(SubSeq(rs, 1, k))
        Fall(x) == \E i, j \in 0..Len(rs) : i <= j /\ x = At(i) - At(j)
        falls == {At(i) - At(j) : i \in 0..Len(rs), j \in 0..Len(rs)}
        stretches == {n \in 0..Len(rs) :
                        \E i \in 0..(Len(rs) - n) : \A k \in (i + 1)..(i + n) : rs[k] <= 0}
        kept == MetricsOf(rs)
        won == Len(Winners(rs))
        means == BlockMeans(history, 4)
    IN  /\ kept.maxDd = Max({x \in falls : Fall(x)})
        /\ StreakOf(rs) = Max(stretches)
        /\ SumOf(rs) - (won * kept.avgWin + (kept.n - won) * kept.avgLoss) \in 0..kept.n
        /\ (\A k \in DOMAIN rs : rs[k] > 0) =>
              FoldsPositive(history) = 100 /\ RegimeOf(history) # "no"
        /\ history # <<>> =>
              OverfitPct([c \in 1..MinConfigs |-> [b \in 1..4 |-> means[b] + 1 - c]], 4) = 0
=============================================================================
