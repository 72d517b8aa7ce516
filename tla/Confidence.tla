----------------------------- MODULE Confidence -----------------------------
(***************************************************************************)
(* build_confidence (src/stats.rs): the score that ranks, gates and labels *)
(* every setup the suggestion pages show. Percentages and points are whole *)
(* numbers, R is in hundredths; t12 is the t-statistic times twelve. The   *)
(* Deflated-Sharpe probability enters only as "below one half or not".     *)
(***************************************************************************)
EXTENDS Integers

CONSTANT NoScore
ASSUME NoScoreAssumption == NoScore \notin 0..95

\* ConfInput; oosWr is NoOos and oosExp 0 when no trade is out of sample.
NoOos == -1
ConfInput(n, winRate, exp, pf, dd, total, recent, oosWr, oosExp, streak, t12, dsrOk, folds, robust, regime) ==
    [n |-> n, winRate |-> winRate, exp |-> exp, pf |-> pf, dd |-> dd, total |-> total,
     recent |-> recent, oosWr |-> oosWr, oosExp |-> oosExp, streak |-> streak,
     t12 |-> t12, dsrOk |-> dsrOk, folds |-> folds, robust |-> robust, regime |-> regime]

MinSample == 50
ProvisionalMin == 20
ProvisionalCap == 55
HardCap == 90
LowBand == 59

AtMostOf(x, cap) == IF x > cap THEN cap ELSE x
LargerOf(x, y) == IF x < y THEN y ELSE x
AtLeastOne(x) == LargerOf(x, 1)
Clamped(x, lo, hi) == IF x < lo THEN lo ELSE IF x > hi THEN hi ELSE x

\* Points of a two-step penalty: `heavy` below one bar, `light` below the next.
Step(x, low, high, heavy, light) ==
    IF x < low THEN heavy ELSE IF x < high THEN light ELSE 0

DrawdownPoints(i) ==
    IF i.total <= 0 THEN 20
    ELSE IF i.dd > 2 * i.total THEN 12 ELSE IF i.dd > i.total THEN 6 ELSE 0

RecentPoints(i) ==
    IF i.winRate > 0 THEN Step(100 * i.recent, 70 * i.winRate, 85 * i.winRate, 12, 6) ELSE 0

OosPoints(i) ==
    IF i.oosWr = NoOos THEN 0
    ELSE Step(100 * i.oosWr, 75 * i.winRate, 90 * i.winRate, 12, 5)
         + IF i.oosExp < 0 THEN 15 ELSE 0

FactorPoints(i) == Step(i.pf, 110, 130, 10, 4)
StreakPoints(i) == IF i.streak >= 8 THEN 8 ELSE IF i.streak >= 5 THEN 3 ELSE 0
FoldPoints(i) == Step(i.folds, 60, 80, 10, 5)
RobustPoints(i) == Step(i.robust, 40, 60, 8, 4)
RegimePoints(i) == IF i.regime = "no" THEN 10 ELSE 0

Penalties(i) ==
    DrawdownPoints(i) + RecentPoints(i) + OosPoints(i) + FactorPoints(i) + StreakPoints(i)
    + FoldPoints(i) + RobustPoints(i) + RegimePoints(i)

Adjusted(i) == Clamped(50 + Clamped(i.t12, 0, 45) - Penalties(i), 0, 95)

Exceptional(i) ==
    /\ i.n >= 300
    /\ i.oosWr # NoOos /\ 100 * i.oosWr >= 90 * i.winRate
    /\ i.pf >= 200

\* Strictly above the cap falls to one below it.
Capped(i) ==
    IF Adjusted(i) > HardCap /\ ~Exceptional(i) THEN HardCap - 1 ELSE Adjusted(i)

\* The score: none without data or edge, then penalties, caps and the DSR gate.
ConfidenceOf(i) ==
    IF i.n < ProvisionalMin \/ i.exp <= 0 THEN NoScore
    ELSE LET capped == IF i.n < MinSample THEN AtMostOf(Capped(i), ProvisionalCap)
                       ELSE Capped(i)
         IN  IF i.dsrOk THEN capped ELSE AtMostOf(capped, LowBand)

Band(i) ==
    LET score == ConfidenceOf(i) IN
    IF i.n < ProvisionalMin THEN "Insufficient data"
    ELSE IF i.exp <= 0 THEN "No edge"
    ELSE IF i.n < MinSample THEN "Provisional"
    ELSE IF score < 50 THEN "Weak" ELSE IF score < 60 THEN "Low"
    ELSE IF score < 70 THEN "Moderate" ELSE IF score < 80 THEN "Good"
    ELSE IF score < 90 THEN "Strong" ELSE "Very strong"

\* is_high_conviction_shortlist, on the Wilson floor and not the win rate.
Shortlisted(score, floor, dsrOk, minScore, minFloor) ==
    score # NoScore /\ score >= minScore /\ floor >= minFloor /\ dsrOk

\* parameter_robustness of a set of (config, expectancy) pairs, in percent.
PositiveShare(positive, all) == IF all = 0 THEN 100 ELSE (100 * positive) \div all
=============================================================================
