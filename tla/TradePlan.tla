----------------------------- MODULE TradePlan -----------------------------
(***************************************************************************)
(* What one emission of the analytics thread makes of its candidates       *)
(* (src/main.rs): `rank` sizes each of them and keeps the best per symbol  *)
(* and side (src/risk_manager.rs), and `build_plan` walks the ranking and  *)
(* takes what fits under four caps (src/trade_planner.rs).                 *)
(*                                                                         *)
(* Budgets are counted in hundreds of rupees and risk in percent, so that  *)
(* every amount is a whole number of rupees. A candidate carries its price *)
(* and its stop distance (SL_ATR_MULT x ATR); its score is data. A row is  *)
(* named by its place in the ranking's working list `best`.                *)
(***************************************************************************)
EXTENDS Integers, Sequences, FiniteSets, Functions

CONSTANTS
    Symbols, Sectors,
    NoSector,        \* the sector of a symbol that has none on file
    SectorOf,        \* sector_map
    Scores,          \* score of a candidate
    Prices,          \* [entry, dist] of a candidate; degenerate ones included
    RawSettings,     \* what a page may send, before UserSettings::new
    BudgetMin, BudgetMax, RiskMin, RiskMax,
    Leverage, MaxPortfolioRisk, TopN, MaxConcurrent, MaxPerSector,
    MaxCandidates    \* bound: candidates in a snapshot

ASSUME SectorAssumption ==
    /\ SectorOf \in [Symbols -> Sectors \cup {NoSector}]
    /\ NoSector \notin Sectors
ASSUME InputAssumption ==
    /\ Scores \subseteq Int
    /\ Prices \subseteq [entry : Nat, dist : Nat]
    /\ RawSettings \subseteq [budget : Int, risk : Int]
    /\ MaxCandidates \in Nat
ASSUME CapAssumption ==
    /\ {BudgetMin, BudgetMax, RiskMin, RiskMax} \subseteq Nat
    /\ BudgetMin <= BudgetMax /\ RiskMin <= RiskMax
    /\ {Leverage, MaxPortfolioRisk} \subseteq Nat
    /\ {TopN, MaxConcurrent, MaxPerSector} \subseteq Nat \ {0}

VARIABLES
    phase,        \* "rank" while candidates are ranked, else "plan"
    settings,     \* the UserSettings read once per emission
    seen,         \* candidates considered so far
    best,         \* one sized row per (symbol, side), in order of appearance
    pool,         \* shown rows the plan has not looked at yet
    positions,    \* rows taken, in the order they were taken
    deployed, totalRisk, sectorCount,   \* the plan's accumulators
    skipped       \* rows left out, by the cap that kept them out

vars == <<phase, settings, seen, best, pool, positions, deployed, totalRisk,
          sectorCount, skipped>>
planVars == <<positions, deployed, totalRisk, sectorCount, skipped>>

Sides == {"BUY", "SELL"}
Caps == {"concurrent", "sector", "leverage", "risk"}
Candidate == [symbol : Symbols, side : Sides, score : Scores, price : Prices]
Settings == [budget : BudgetMin..BudgetMax, risk : RiskMin..RiskMax]
Row == [symbol : Symbols, side : Sides, score : Scores,
        notional : Nat, risk : Nat]

Smaller(a, b) == IF b < a THEN b ELSE a
Larger(a, b) == IF b > a THEN b ELSE a
Clamp(x, lo, hi) == Smaller(Larger(x, lo), hi)
NewSettings(raw) == [budget |-> Clamp(raw.budget, BudgetMin, BudgetMax),
                     risk |-> Clamp(raw.risk, RiskMin, RiskMax)]

RiskAmount(s) == s.budget * s.risk
MaxNotional(s) == 100 * s.budget * Leverage
\* Mutant: the flat fraction alone, without room for one trade.
RiskCapFlat(s) == s.budget * MaxPortfolioRisk
RiskCap(s) == Larger(s.budget * MaxPortfolioRisk, RiskAmount(s))

\* Shares the settings allow; none for a degenerate price or stop distance.
Size(s, p) ==
    IF p.dist <= 0 \/ p.entry <= 0 THEN 0
    ELSE Smaller(RiskAmount(s) \div p.dist, MaxNotional(s) \div p.entry)

ToRanked(s, c) == [symbol |-> c.symbol, side |-> c.side, score |-> c.score,
                   notional |-> Size(s, c.price) * c.price.entry,
                   risk |-> Size(s, c.price) * c.price.dist]

\* Place of the row that `best` has for this symbol and side (at most one).
RowsFor(c) == {i \in DOMAIN best : best[i].symbol = c.symbol /\ best[i].side = c.side}

\* The order of the merged pool: stable sorts by score, buys before sells.
Precedes(i, j) ==
    \/ best[i].score > best[j].score
    \/ /\ best[i].score = best[j].score
       /\ \/ best[i].side = "BUY" /\ best[j].side = "SELL"
          \/ best[i].side = best[j].side /\ i < j

\* The rows of the two lists after truncation to TOP_N per side.
Shown ==
    {i \in DOMAIN best :
        Cardinality({j \in DOMAIN best :
            best[j].side = best[i].side /\ Precedes(j, i)}) < TopN}

-----------------------------------------------------------------------------
Init ==
    /\ phase = "plan"
    /\ settings \in {NewSettings(raw) : raw \in RawSettings}
    /\ seen = 0
    /\ best = <<>>
    /\ pool = {}
    /\ positions = <<>>
    /\ deployed = 0
    /\ totalRisk = 0
    /\ sectorCount = [s \in Sectors |-> 0]
    /\ skipped = [c \in Caps |-> 0]

\* The next emission begins under the settings of that moment; what the two
\* functions build starts empty.
Snapshot ==
    /\ phase = "plan" /\ pool = {}
    /\ phase' = "rank"
    /\ settings' \in {NewSettings(raw) : raw \in RawSettings}
    /\ seen' = 0
    /\ best' = <<>>
    /\ positions' = <<>>
    /\ deployed' = 0
    /\ totalRisk' = 0
    /\ sectorCount' = [s \in Sectors |-> 0]
    /\ skipped' = [c \in Caps |-> 0]
    /\ UNCHANGED pool

\* One turn of rank's loop. A candidate that cannot be sized leaves no row.
Consider(c) ==
    /\ phase = "rank" /\ seen < MaxCandidates
    /\ seen' = seen + 1
    /\ \/ /\ Size(settings, c.price) = 0
          /\ UNCHANGED best
       \/ /\ Size(settings, c.price) # 0
          /\ RowsFor(c) = {}
          /\ best' = Append(best, ToRanked(settings, c))
       \/ /\ Size(settings, c.price) # 0
          /\ \E i \in RowsFor(c) :
                best' = IF c.score > best[i].score
                        THEN [best EXCEPT ![i] = ToRanked(settings, c)]
                        ELSE best
    /\ UNCHANGED <<phase, settings, pool, planVars>>

\* Sort, truncate, and hand both lists to build_plan.
Select ==
    /\ phase = "rank"
    /\ phase' = "plan"
    /\ pool' = Shown
    /\ UNCHANGED <<settings, seen, best, planVars>>

-----------------------------------------------------------------------------
Sector(i) == SectorOf[best[i].symbol]

BasketFull == Len(positions) >= MaxConcurrent
SectorFull(i) == Sector(i) # NoSector /\ sectorCount[Sector(i)] >= MaxPerSector
NoHeadroom(i) == deployed + best[i].notional > MaxNotional(settings)
\* Mutant: the cap is compared with the basket as it is, without the row.
OverRiskBefore(i) == totalRisk > RiskCap(settings)
OverRisk(i) == totalRisk + best[i].risk > RiskCap(settings)

\* Mutant: the walk follows the order of appearance.
ForemostUnsorted(i) == i \in pool /\ \A j \in pool \ {i} : i < j

\* The row the loop comes to next.
Foremost(i) == i \in pool /\ \A j \in pool \ {i} : Precedes(i, j)

SkipFor(cap, i) ==
    /\ pool' = pool \ {i}
    /\ skipped' = [skipped EXCEPT ![cap] = @ + 1]
    /\ UNCHANGED <<phase, settings, seen, best, positions, deployed,
                   totalRisk, sectorCount>>

SkipConcurrent(i) == Foremost(i) /\ BasketFull /\ SkipFor("concurrent", i)
SkipSector(i) ==
    Foremost(i) /\ ~BasketFull /\ SectorFull(i) /\ SkipFor("sector", i)
SkipLeverage(i) ==
    /\ Foremost(i) /\ ~BasketFull /\ ~SectorFull(i)
    /\ NoHeadroom(i) /\ SkipFor("leverage", i)
SkipRisk(i) ==
    /\ Foremost(i) /\ ~BasketFull /\ ~SectorFull(i) /\ ~NoHeadroom(i)
    /\ OverRisk(i) /\ SkipFor("risk", i)

Accept(i) ==
    /\ Foremost(i)
    /\ ~BasketFull /\ ~SectorFull(i) /\ ~NoHeadroom(i) /\ ~OverRisk(i)
    /\ pool' = pool \ {i}
    /\ positions' = Append(positions, i)
    /\ deployed' = deployed + best[i].notional
    /\ totalRisk' = totalRisk + best[i].risk
    /\ sectorCount' = [s \in Sectors |->
                         sectorCount[s] + IF s = Sector(i) THEN 1 ELSE 0]
    /\ UNCHANGED <<phase, settings, seen, best, skipped>>

Walk == \E i \in pool :
    \/ SkipConcurrent(i) \/ SkipSector(i) \/ SkipLeverage(i) \/ SkipRisk(i)
    \/ Accept(i)

Next == Snapshot \/ (\E c \in Candidate : Consider(c)) \/ Select \/ Walk

Spec == Init /\ [][Next]_vars

-----------------------------------------------------------------------------
\* Types; the ranking holds at most one row per symbol and side.
TypeOK ==
    /\ phase \in {"rank", "plan"}
    /\ settings \in Settings
    /\ seen \in 0..MaxCandidates
    /\ best \in Seq(Row) /\ Len(best) <= seen
    /\ \A i, j \in DOMAIN best :
         best[i].symbol = best[j].symbol /\ best[i].side = best[j].side => i = j
    /\ pool \subseteq DOMAIN best
    /\ positions \in Seq(DOMAIN best)
    /\ deployed \in Nat /\ totalRisk \in Nat
    /\ sectorCount \in [Sectors -> Nat]
    /\ skipped \in [Caps -> Nat]

Taken(i) == \E k \in DOMAIN positions : positions[k] = i
PlanDone == phase = "plan" /\ pool = {}

\* The basket never exceeds a cap, at no point of the walk, and every row
\* offered keeps to the risk the user set per trade.
WithinCaps ==
    /\ Len(positions) <= MaxConcurrent
    /\ deployed <= MaxNotional(settings)
    /\ totalRisk <= RiskCap(settings)
    /\ \A s \in Sectors : sectorCount[s] <= MaxPerSector
    /\ \A i \in DOMAIN best : best[i].risk <= RiskAmount(settings)

\* One trade at the user's risk is always allowed (config.rs): a ranking that
\* shows rows never ends in an empty basket, however the caps are set.
NeverEmptyHanded == PlanDone /\ Shown # {} => Len(positions) > 0

\* Nothing that was left out fits the finished basket: dropping a row makes
\* room for no other that was dropped before it.
Misfit(i) == BasketFull \/ SectorFull(i) \/ NoHeadroom(i) \/ OverRisk(i)
LeftOutDoesNotFit == PlanDone => \A i \in Shown : Taken(i) \/ Misfit(i)

Notionals == [j \in DOMAIN best |-> best[j].notional]
Risks == [j \in DOMAIN best |-> best[j].risk]

\* What the walk computes, stated without it: a row is taken exactly when it
\* fits beside the taken rows that rank before it.
FitsBeside(i, basket) ==
    /\ Cardinality(basket) < MaxConcurrent
    /\ Sector(i) # NoSector =>
          Cardinality({j \in basket : Sector(j) = Sector(i)}) < MaxPerSector
    /\ SumFunctionOnSet(Notionals, basket \cup {i}) <= MaxNotional(settings)
    /\ SumFunctionOnSet(Risks, basket \cup {i}) <= RiskCap(settings)
PlanIsGreedy ==
    PlanDone => \A i \in Shown :
        Taken(i) <=> FitsBeside(i, {j \in Shown : Taken(j) /\ Precedes(j, i)})

=============================================================================
