----------------------------- MODULE RuleProofs -----------------------------
(***************************************************************************)
(* The rules a trade is chosen and judged by, for every instance.          *)
(*                                                                         *)
(* TradePlan, for any symbols, prices, settings and caps. For the caps the *)
(* ranking is well formed and no row risks more than its share; for the    *)
(* greedy walk the accounts are sums over the basket, and who was walked   *)
(* precedes who was not.                                                   *)
(*                                                                         *)
(* BacktestFill, for every sorted series, entry list and risk: of the      *)
(* trade being held no bar since its entry touched a level, and of every   *)
(* booked trade what the properties say, which depends on the bars and the *)
(* direction only, and these never change.                                 *)
(*                                                                         *)
(* Finder, for any blocks, lights and gates: of the blocks processed so    *)
(* far each pick is the best that contended, and nothing is shown that     *)
(* was not a candidate.                                                    *)
(*                                                                         *)
(* TradeStats, for every list of trades: its one-pass figures are those of *)
(* the whole curve.                                                        *)
(***************************************************************************)
EXTENDS TradePlan, BacktestFill, Finder, TradeStats, FiniteSetTheorems, SequenceTheorems, TLAPS

Facts == INSTANCE FoldFacts WITH Op <- Append
Adding == INSTANCE FoldFacts WITH Op <- +
Falling == INSTANCE FoldFacts WITH Op <- Fallen
Losing == INSTANCE FoldFacts WITH Op <- Lost

\* A share count rounded down never spends more than the amount divided.
LEMMA DivBounds ==
    ASSUME NEW x \in Nat, NEW d \in Nat \ {0}
    PROVE  x \div d \in Nat /\ (x \div d) * d <= x
  OBVIOUS

\* What the prover needs to be told of products.
LEMMA ProductIsNat ==
    ASSUME NEW x \in Nat, NEW y \in Nat
    PROVE  x * y \in Nat
  OBVIOUS

\* Products grow with their factors.
LEMMA ProductMonotone ==
    ASSUME NEW x \in Nat, NEW y \in Nat, NEW z \in Nat, x <= y
    PROVE  x * z <= y * z
  OBVIOUS

-----------------------------------------------------------------------------
\* The settings are within the bounds clamped() puts on them.
LEMMA SettingsClamped ==
    ASSUME NEW raw \in RawSettings
    PROVE  NewSettings(raw) \in Settings
  <1>1. raw.budget \in Int /\ raw.risk \in Int
    BY InputAssumption
  <1>2. ASSUME NEW x \in Int, NEW lo \in Nat, NEW hi \in Nat, lo <= hi
        PROVE  Clamp(x, lo, hi) \in lo..hi
    BY <1>2 DEF Clamp, Smaller, Larger
  <1>. QED
    BY <1>1, <1>2, CapAssumption DEF NewSettings, Settings

\* So the amounts computed from them are whole and not negative.
LEMMA AmountsAreNat ==
    ASSUME NEW s \in Settings
    PROVE  /\ RiskAmount(s) \in Nat /\ MaxNotional(s) \in Nat
           /\ RiskCap(s) \in Nat /\ RiskAmount(s) <= RiskCap(s)
  <1>1. s.budget \in Nat /\ s.risk \in Nat
    BY CapAssumption DEF Settings
  <1>2. RiskAmount(s) \in Nat /\ s.budget * MaxPortfolioRisk \in Nat
    BY <1>1, ProductIsNat, CapAssumption DEF RiskAmount
  <1>3. (100 * s.budget) \in Nat
    BY <1>1
  <1>4. MaxNotional(s) \in Nat
    BY <1>3, ProductIsNat, CapAssumption DEF MaxNotional
  <1>. QED
    BY <1>2, <1>4 DEF RiskCap, Larger

\* What a sized row may cost: no more than the settings give one trade.
LEMMA RowBounds ==
    ASSUME NEW s \in Settings, NEW cand \in Candidate
    PROVE  /\ ToRanked(s, cand) \in Row
           /\ ToRanked(s, cand).risk <= RiskAmount(s)
           /\ ToRanked(s, cand).notional <= MaxNotional(s)
  <1>. DEFINE p == cand.price
              n == Size(s, p)
  <1>1. p.entry \in Nat /\ p.dist \in Nat
    BY InputAssumption DEF Candidate
  <1>2. RiskAmount(s) \in Nat /\ MaxNotional(s) \in Nat
    BY AmountsAreNat
  <1>3. n \in Nat /\ n * p.dist <= RiskAmount(s) /\ n * p.entry <= MaxNotional(s)
    <2>1. CASE p.dist <= 0 \/ p.entry <= 0
      <3>1. n = 0
        BY <2>1 DEF Size
      <3>. QED
        BY <3>1, <1>1, <1>2
    <2>2. CASE ~(p.dist <= 0 \/ p.entry <= 0)
      <3>. DEFINE q == RiskAmount(s) \div p.dist
                  l == MaxNotional(s) \div p.entry
      <3>1. p.dist \in Nat \ {0} /\ p.entry \in Nat \ {0}
        BY <1>1, <2>2
      <3>2. q \in Nat /\ q * p.dist <= RiskAmount(s)
        BY <1>2, <3>1, DivBounds
      <3>3. l \in Nat /\ l * p.entry <= MaxNotional(s)
        BY <1>2, <3>1, DivBounds
      <3>4. n = Smaller(q, l)
        BY <2>2 DEF Size
      <3>5. n \in Nat /\ n <= q /\ n <= l
        BY <3>2, <3>3, <3>4 DEF Smaller
      <3>6. n * p.dist <= q * p.dist /\ n * p.entry <= l * p.entry
        BY <3>1, <3>2, <3>3, <3>5, ProductMonotone
      <3>7. /\ n * p.dist \in Nat /\ q * p.dist \in Nat
            /\ n * p.entry \in Nat /\ l * p.entry \in Nat
        BY <3>1, <3>2, <3>3, <3>5, ProductIsNat
      <3>. HIDE DEF n, q, l, p
      <3>. QED
        BY <3>2, <3>3, <3>5, <3>6, <3>7, <1>2
    <2>. QED
      BY <2>1, <2>2
  <1>4. n * p.dist \in Nat /\ n * p.entry \in Nat
    BY <1>1, <1>3, ProductIsNat
  <1>5. cand.symbol \in Symbols /\ cand.side \in Sides /\ cand.score \in Scores
    BY DEF Candidate
  <1>. HIDE DEF n
  <1>6. ToRanked(s, cand) = [symbol |-> cand.symbol, side |-> cand.side,
                             score |-> cand.score, notional |-> n * p.entry,
                             risk |-> n * p.dist]
    BY DEF ToRanked, n
  <1>. HIDE DEF p
  <1>. QED
    BY <1>3, <1>4, <1>5, <1>6 DEF Row

-----------------------------------------------------------------------------
\* No row costs more than one trade may.
Cheap ==
    \A i \in DOMAIN best :
        /\ best[i].risk <= RiskAmount(settings)
        /\ best[i].notional <= MaxNotional(settings)

\* While candidates are ranked the plan's locals are as they start.
PlanUntouched == phase = "rank" => pool = {} /\ positions = <<>>

\* The part of TypeOK that speaks of the ranking.
Ranking ==
    /\ best \in Seq(Row) /\ Len(best) <= seen
    /\ \A i, j \in DOMAIN best :
         best[i].symbol = best[j].symbol /\ best[i].side = best[j].side => i = j

RankInv == TypeOK /\ Cheap /\ PlanUntouched

\* The rows and the settings they were sized with stay together.
LEMMA ConsiderKeepsRows ==
    ASSUME TypeOK, Cheap, NEW cand \in Candidate, Consider(cand)
    PROVE  Ranking' /\ Cheap'
  <1>. DEFINE row == ToRanked(settings, cand)
  <1>1. /\ row \in Row /\ row.risk <= RiskAmount(settings)
        /\ row.notional <= MaxNotional(settings)
        /\ row.symbol = cand.symbol /\ row.side = cand.side
    <2>1. settings \in Settings
      BY DEF TypeOK
    <2>. QED
      BY <2>1, RowBounds DEF ToRanked
  <1>2. /\ settings' = settings /\ seen' = seen + 1 /\ seen \in Nat
        /\ best \in Seq(Row) /\ Len(best) \in Nat /\ Len(best) <= seen
    BY InputAssumption DEF TypeOK, Consider
  <1>. HIDE DEF row
  <1>3. CASE best' = best
    BY <1>2, <1>3 DEF TypeOK, Cheap, Ranking
  <1>4. CASE RowsFor(cand) = {} /\ best' = Append(best, row)
    <2>1. /\ best' \in Seq(Row) /\ Len(best') = Len(best) + 1
          /\ DOMAIN best' = 1..(Len(best) + 1) /\ DOMAIN best = 1..Len(best)
          /\ \A i \in DOMAIN best : best'[i] = best[i]
          /\ best'[Len(best) + 1] = row
      BY <1>1, <1>2, <1>4
    <2>2. \A i \in DOMAIN best :
            ~(best[i].symbol = row.symbol /\ best[i].side = row.side)
      BY <1>1, <1>4 DEF RowsFor
    <2>3. Cheap'
      BY <1>1, <1>2, <2>1 DEF Cheap
    <2>4. \A i, j \in DOMAIN best' :
            best'[i].symbol = best'[j].symbol /\ best'[i].side = best'[j].side
                => i = j
      <3>. TAKE i, j \in DOMAIN best'
      <3>1. CASE i \in DOMAIN best /\ j \in DOMAIN best
        BY <2>1, <3>1 DEF TypeOK
      <3>2. CASE i \notin DOMAIN best /\ j \notin DOMAIN best
        BY <1>2, <2>1, <3>2
      <3>3. CASE i \in DOMAIN best /\ j \notin DOMAIN best
        BY <1>2, <2>1, <2>2, <3>3
      <3>4. CASE i \notin DOMAIN best /\ j \in DOMAIN best
        BY <1>2, <2>1, <2>2, <3>4
      <3>. QED
        BY <3>1, <3>2, <3>3, <3>4
    <2>. QED
      BY <1>2, <2>1, <2>3, <2>4 DEF Ranking
  <1>5. ASSUME NEW k \in RowsFor(cand), best' = [best EXCEPT ![k] = row]
        PROVE  Ranking' /\ Cheap'
    <2>1. /\ k \in DOMAIN best
          /\ best[k].symbol = cand.symbol /\ best[k].side = cand.side
      BY DEF RowsFor
    <2>2. /\ best' \in Seq(Row) /\ Len(best') = Len(best)
          /\ DOMAIN best' = DOMAIN best
          /\ \A i \in DOMAIN best : best'[i] = IF i = k THEN row ELSE best[i]
      BY <1>1, <1>2, <1>5, <2>1
    <2>3. \A i \in DOMAIN best :
            best'[i].symbol = best[i].symbol /\ best'[i].side = best[i].side
      BY <1>1, <2>1, <2>2
    <2>4. Cheap'
      BY <1>1, <1>2, <2>2 DEF Cheap
    <2>. QED
      BY <1>2, <2>2, <2>3, <2>4 DEF TypeOK, Ranking
  <1>. QED
    BY <1>3, <1>4, <1>5 DEF Consider, row

-----------------------------------------------------------------------------
\* Before the first candidate the ranking is empty.
LEMMA RankInit ==
    ASSUME Init
    PROVE  RankInv
  <1>1. settings \in Settings
    BY SettingsClamped DEF Init
  <1>2. best = <<>> /\ DOMAIN best = {} /\ Len(best) = 0
    BY DEF Init
  <1>3. TypeOK
    BY <1>1, <1>2, InputAssumption DEF Init, TypeOK
  <1>. QED
    BY <1>2, <1>3 DEF Init, RankInv, Cheap, PlanUntouched

\* Ranking a candidate keeps the ranking well formed, the walk never changes it.
LEMMA RankStep ==
    ASSUME RankInv, [Next]_vars
    PROVE  RankInv'
  <1>. USE DEF RankInv
  <1>1. CASE Snapshot
    <2>1. settings' \in Settings
      BY <1>1, SettingsClamped DEF Snapshot
    <2>2. best' = <<>> /\ DOMAIN best' = {} /\ Len(best') = 0
      BY <1>1 DEF Snapshot
    <2>3. TypeOK'
      BY <1>1, <2>1, <2>2, InputAssumption DEF Snapshot, TypeOK
    <2>. QED
      BY <1>1, <2>2, <2>3 DEF Snapshot, Cheap, PlanUntouched
  <1>2. ASSUME NEW cand \in Candidate, Consider(cand)
        PROVE  RankInv'
    <2>1. Ranking' /\ Cheap'
      BY <1>2, ConsiderKeepsRows
    <2>2. PlanUntouched' /\ pool' = {} /\ positions' = <<>>
      BY <1>2 DEF Consider, PlanUntouched, planVars
    <2>3. seen' \in 0..MaxCandidates
      BY <1>2, InputAssumption DEF Consider, TypeOK
    <2>4. TypeOK'
      BY <1>2, <2>1, <2>2, <2>3 DEF Consider, TypeOK, Ranking, planVars
    <2>. QED
      BY <2>1, <2>2, <2>4
  <1>3. CASE Select
    BY <1>3 DEF Select, Shown, TypeOK, Cheap, PlanUntouched, planVars
  <1>4. ASSUME NEW cap \in Caps, NEW i \in pool, SkipFor(cap, i), phase = "plan"
        PROVE  RankInv'
    BY <1>4 DEF SkipFor, TypeOK, Cheap, PlanUntouched
  <1>5. ASSUME NEW i \in pool, Accept(i)
        PROVE  RankInv'
    <2>1. i \in DOMAIN best /\ best[i].notional \in Nat /\ best[i].risk \in Nat
      <3>1. i \in DOMAIN best /\ best \in Seq(Row)
        BY DEF TypeOK
      <3>2. best[i] \in Row
        BY <3>1
      <3>. QED
        BY <3>1, <3>2 DEF Row
    <2>2. /\ deployed' \in Nat /\ totalRisk' \in Nat
          /\ sectorCount' \in [Sectors -> Nat]
          /\ positions' \in Seq(DOMAIN best)
      <3>1. /\ deployed \in Nat /\ totalRisk \in Nat
            /\ sectorCount \in [Sectors -> Nat] /\ positions \in Seq(DOMAIN best)
        BY DEF TypeOK
      <3>2. deployed' \in Nat /\ totalRisk' \in Nat
        BY <1>5, <2>1, <3>1 DEF Accept
      <3>3. sectorCount' \in [Sectors -> Nat]
        BY <1>5, <3>1 DEF Accept
      <3>4. positions' \in Seq(DOMAIN best)
        BY <1>5, <2>1, <3>1 DEF Accept
      <3>. QED
        BY <3>2, <3>3, <3>4
    <2>3. TypeOK'
      BY <1>5, <2>2 DEF Accept, TypeOK
    <2>. QED
      BY <1>5, <2>3 DEF Accept, Cheap, PlanUntouched, TypeOK
  <1>6. CASE Walk
    <2>1. phase = "plan"
      BY <1>6 DEF Walk, PlanUntouched, TypeOK
    <2>2. {"concurrent", "sector", "leverage", "risk"} \subseteq Caps
      BY DEF Caps
    <2>. QED
      BY <1>4, <1>5, <1>6, <2>1, <2>2
         DEF Walk, SkipConcurrent, SkipSector, SkipLeverage, SkipRisk
  <1>7. CASE UNCHANGED vars
    BY <1>7 DEF vars, TypeOK, Cheap, PlanUntouched
  <1>. QED
    BY <1>1, <1>2, <1>3, <1>6, <1>7 DEF Next

\* Every variable is well typed in every reachable state, and the ranking
\* never lists a symbol twice on one side.
THEOREM TypeCorrect == Spec => []TypeOK
  <1>1. RankInv => TypeOK
    BY DEF RankInv
  <1>. QED
    BY <1>1, RankInit, RankStep, PTL DEF Spec

-----------------------------------------------------------------------------
\* An empty basket has spent nothing.
EmptyIsFree ==
    positions = <<>> =>
        deployed = 0 /\ totalRisk = 0 /\ \A s \in Sectors : sectorCount[s] = 0

\* Every shown row the walk has passed was taken or still does not fit.
Walked == phase = "plan" => \A i \in Shown \ pool : Taken(i) \/ Misfit(i)

WalkInv == RankInv /\ WithinCaps /\ EmptyIsFree /\ Walked

\* The four facts of an emission's start that its invariants rest on.
LEMMA StartIsWithinCaps ==
    ASSUME settings \in Settings, positions = <<>>, deployed = 0, totalRisk = 0,
           sectorCount = [s \in Sectors |-> 0], Cheap
    PROVE  WithinCaps /\ EmptyIsFree
  BY AmountsAreNat, CapAssumption DEF WithinCaps, EmptyIsFree, Cheap

\* Before the first candidate the basket is empty.
LEMMA WalkInit ==
    ASSUME Init
    PROVE  WalkInv
  <1>1. RankInv
    BY RankInit
  <1>2. WithinCaps /\ EmptyIsFree
    BY <1>1, StartIsWithinCaps DEF Init, RankInv, TypeOK
  <1>3. Walked
    BY DEF Init, Walked, Shown
  <1>. QED
    BY <1>1, <1>2, <1>3 DEF WalkInv

\* A new emission reads the settings once and has taken nothing.
LEMMA SnapshotStep ==
    ASSUME RankInv', Snapshot
    PROVE  WithinCaps' /\ EmptyIsFree' /\ Walked'
  <1>1. /\ settings' \in Settings /\ positions' = <<>> /\ deployed' = 0
        /\ totalRisk' = 0 /\ sectorCount' = [s \in Sectors |-> 0] /\ Cheap'
    BY DEF Snapshot, RankInv, TypeOK
  <1>2. WithinCaps' /\ EmptyIsFree'
    BY <1>1, AmountsAreNat, CapAssumption DEF WithinCaps, EmptyIsFree, Cheap
  <1>. QED
    BY <1>2 DEF Snapshot, Walked

\* What a skip leaves out does not fit, and nothing else changes.
LEMMA SkipStep ==
    ASSUME WalkInv, NEW cap \in Caps, NEW i \in pool, SkipFor(cap, i), Misfit(i)
    PROVE  WithinCaps' /\ EmptyIsFree' /\ Walked'
  <1>1. /\ best' = best /\ settings' = settings /\ positions' = positions
        /\ deployed' = deployed /\ totalRisk' = totalRisk
        /\ sectorCount' = sectorCount /\ phase' = phase /\ pool' = pool \ {i}
    BY DEF SkipFor
  <1>2. WithinCaps' /\ EmptyIsFree'
    BY <1>1 DEF WalkInv, WithinCaps, EmptyIsFree
  <1>3. Shown' = Shown /\ \A j \in DOMAIN best :
            (Taken(j)' <=> Taken(j)) /\ (Misfit(j)' <=> Misfit(j))
    BY <1>1 DEF Shown, Precedes, Taken, Misfit, BasketFull, SectorFull,
                NoHeadroom, OverRisk, Sector
  <1>4. Shown \subseteq DOMAIN best
    BY DEF Shown
  <1>5. Walked'
    BY <1>1, <1>3, <1>4 DEF WalkInv, Walked
  <1>. QED
    BY <1>2, <1>5

\* A list with one more element.
LEMMA AppendFacts ==
    ASSUME NEW S, NEW q \in Seq(S), NEW x \in S
    PROVE  /\ Len(q) \in Nat
           /\ Len(Append(q, x)) = Len(q) + 1
           /\ DOMAIN Append(q, x) = 1..(Len(q) + 1)
           /\ \A k \in DOMAIN q : k \in DOMAIN Append(q, x) /\ Append(q, x)[k] = q[k]
           /\ Append(q, x)[Len(q) + 1] = x
           /\ Append(q, x) # <<>>
  OBVIOUS

\* A row is taken only if it fits, and what did not fit before does not now.
LEMMA AcceptStep ==
    ASSUME WalkInv, NEW i \in pool, Accept(i)
    PROVE  WithinCaps' /\ EmptyIsFree' /\ Walked'
  <1>1. /\ best' = best /\ settings' = settings /\ phase' = phase
        /\ pool' = pool \ {i} /\ positions' = Append(positions, i)
        /\ deployed' = deployed + best[i].notional
        /\ totalRisk' = totalRisk + best[i].risk
        /\ sectorCount' = [s \in Sectors |->
                             sectorCount[s] + IF s = Sector(i) THEN 1 ELSE 0]
    BY DEF Accept
  <1>2. /\ best \in Seq(Row) /\ positions \in Seq(DOMAIN best)
        /\ deployed \in Nat /\ totalRisk \in Nat /\ settings \in Settings
        /\ sectorCount \in [Sectors -> Nat] /\ i \in DOMAIN best
    BY DEF WalkInv, RankInv, TypeOK
  <1>3. best[i].notional \in Nat /\ best[i].risk \in Nat
    <2>1. best[i] \in Row
      BY <1>2
    <2>. QED
      BY <2>1 DEF Row
  <1>4. /\ Len(positions) \in Nat /\ Len(positions') = Len(positions) + 1
        /\ positions' # <<>>
        /\ \A k \in DOMAIN positions :
             k \in DOMAIN positions' /\ positions'[k] = positions[k]
        /\ \E k \in DOMAIN positions' : positions'[k] = i
    <2>. DEFINE R == DOMAIN best
    <2>1. positions \in Seq(R) /\ i \in R
      BY <1>2
    <2>. HIDE DEF R
    <2>2. Len(positions) + 1 \in 1..(Len(positions) + 1)
      BY <2>1
    <2>. QED
      BY <1>1, <2>1, <2>2, AppendFacts
  <1>5. \A s \in Sectors :
          /\ sectorCount[s] \in Nat /\ sectorCount'[s] \in Nat
          /\ sectorCount'[s] >= sectorCount[s]
          /\ s # Sector(i) => sectorCount'[s] = sectorCount[s]
          /\ s = Sector(i) => sectorCount'[s] = sectorCount[s] + 1
    BY <1>1, <1>2
  <1>6. WithinCaps'
    <2>1. /\ Len(positions) < MaxConcurrent
          /\ deployed' <= MaxNotional(settings) /\ totalRisk' <= RiskCap(settings)
      <3>1. MaxNotional(settings) \in Nat /\ RiskCap(settings) \in Nat
        BY <1>2, AmountsAreNat
      <3>2. ~BasketFull /\ ~NoHeadroom(i) /\ ~OverRisk(i)
        BY DEF Accept
      <3>3. Len(positions) < MaxConcurrent
        BY <1>4, <3>2, CapAssumption DEF BasketFull
      <3>4. deployed' <= MaxNotional(settings)
        BY <1>1, <1>2, <1>3, <3>1, <3>2 DEF NoHeadroom
      <3>5. totalRisk' <= RiskCap(settings)
        BY <1>1, <1>2, <1>3, <3>1, <3>2 DEF OverRisk
      <3>. QED
        BY <3>3, <3>4, <3>5
    <2>2. \A s \in Sectors : sectorCount'[s] <= MaxPerSector
      BY <1>5, SectorAssumption, CapAssumption
         DEF Accept, SectorFull, WalkInv, WithinCaps
    <2>. QED
      BY <1>1, <1>4, <2>1, <2>2, CapAssumption DEF WalkInv, WithinCaps
  <1>7. EmptyIsFree'
    BY <1>4 DEF EmptyIsFree
  <1>8. Shown' = Shown /\ Shown \subseteq DOMAIN best
    BY <1>1 DEF Shown, Precedes
  <1>9. \A j \in DOMAIN best : Taken(j) => Taken(j)'
    BY <1>4 DEF Taken
  <1>10. Taken(i)'
    BY <1>1, <1>4 DEF Taken
  <1>11. ASSUME NEW j \in DOMAIN best, Misfit(j)
         PROVE  Misfit(j)'
    <2>1. best[j] \in Row /\ best[j].notional \in Nat /\ best[j].risk \in Nat
          /\ Sector(j) \in Sectors \cup {NoSector}
      <3>1. best[j] \in Row
        BY <1>2
      <3>. QED
        BY <3>1, SectorAssumption DEF Row, Sector
    <2>2. /\ MaxNotional(settings) \in Nat /\ RiskCap(settings) \in Nat
          /\ MaxNotional(settings)' = MaxNotional(settings)
          /\ RiskCap(settings)' = RiskCap(settings)
      BY <1>1, <1>2, AmountsAreNat
    <2>3. CASE BasketFull
      BY <1>4, <2>3, CapAssumption DEF BasketFull, Misfit
    <2>4. CASE SectorFull(j)
      <3>1. Sector(j)' = Sector(j) /\ Sector(j) \in Sectors
        BY <1>1, <2>1, <2>4 DEF SectorFull, Sector
      <3>2. sectorCount'[Sector(j)] >= MaxPerSector
        BY <1>5, <2>4, <3>1, CapAssumption DEF SectorFull
      <3>. QED
        BY <2>4, <3>1, <3>2 DEF SectorFull, Misfit
    <2>5. CASE NoHeadroom(j)
      <3>1. deployed' >= deployed /\ deployed' \in Nat
        BY <1>1, <1>2, <1>3
      <3>2. deployed + best[j].notional > MaxNotional(settings)
        BY <2>5 DEF NoHeadroom
      <3>3. deployed' + best[j].notional > MaxNotional(settings)
        BY <1>2, <2>1, <2>2, <3>1, <3>2
      <3>4. NoHeadroom(j)'
        BY <1>1, <2>2, <3>3 DEF NoHeadroom
      <3>. QED
        BY <3>4 DEF Misfit
    <2>6. CASE OverRisk(j)
      <3>1. totalRisk' >= totalRisk /\ totalRisk' \in Nat /\ totalRisk \in Nat
        BY <1>1, <1>2, <1>3
      <3>2. totalRisk + best[j].risk > RiskCap(settings)
        BY <2>6 DEF OverRisk
      <3>3. totalRisk' + best[j].risk > RiskCap(settings)
        BY <2>1, <2>2, <3>1, <3>2
      <3>4. OverRisk(j)'
        BY <1>1, <2>2, <3>3 DEF OverRisk
      <3>. QED
        BY <3>4 DEF Misfit
    <2>7. BasketFull \/ SectorFull(j) \/ NoHeadroom(j) \/ OverRisk(j)
      BY <1>11 DEF Misfit
    <2>. QED
      BY <2>3, <2>4, <2>5, <2>6, <2>7
  <1>12. Walked'
    BY <1>1, <1>8, <1>9, <1>10, <1>11 DEF WalkInv, Walked
  <1>. QED
    BY <1>6, <1>7, <1>12

-----------------------------------------------------------------------------
\* One step of the emission.
LEMMA WalkStep ==
    ASSUME WalkInv, [Next]_vars
    PROVE  WalkInv'
  <1>1. RankInv'
    BY RankStep DEF WalkInv
  <1>2. WithinCaps' /\ EmptyIsFree' /\ Walked'
    <2>1. CASE Snapshot
      BY <1>1, <2>1, SnapshotStep
    <2>2. ASSUME NEW cand \in Candidate, Consider(cand)
          PROVE  WithinCaps' /\ EmptyIsFree' /\ Walked'
      <3>1. Cheap' /\ phase' = "rank" /\ settings' = settings /\ planVars' = planVars
        BY <1>1, <2>2 DEF Consider, RankInv
      <3>2. WithinCaps' /\ EmptyIsFree'
        BY <3>1 DEF WalkInv, WithinCaps, EmptyIsFree, Cheap, planVars
      <3>3. Walked'
        BY <3>1 DEF Walked
      <3>. QED
        BY <3>2, <3>3
    <2>3. CASE Select
      <3>1. /\ best' = best /\ settings' = settings /\ planVars' = planVars
            /\ pool' = Shown
        BY <2>3 DEF Select
      <3>2. WithinCaps' /\ EmptyIsFree'
        BY <3>1 DEF WalkInv, WithinCaps, EmptyIsFree, planVars
      <3>3. Shown' = Shown
        BY <3>1 DEF Shown, Precedes
      <3>. QED
        BY <3>1, <3>2, <3>3 DEF Walked
    <2>4. CASE Walk
      <3>1. PICK i \in pool : \/ SkipConcurrent(i) \/ SkipSector(i)
                              \/ SkipLeverage(i) \/ SkipRisk(i) \/ Accept(i)
        BY <2>4 DEF Walk
      <3>2. CASE SkipConcurrent(i)
        BY <3>2, SkipStep DEF SkipConcurrent, Misfit, Caps
      <3>3. CASE SkipSector(i)
        BY <3>3, SkipStep DEF SkipSector, Misfit, Caps
      <3>4. CASE SkipLeverage(i)
        BY <3>4, SkipStep DEF SkipLeverage, Misfit, Caps
      <3>5. CASE SkipRisk(i)
        BY <3>5, SkipStep DEF SkipRisk, Misfit, Caps
      <3>6. CASE Accept(i)
        BY <3>6, AcceptStep
      <3>. QED
        BY <3>1, <3>2, <3>3, <3>4, <3>5, <3>6
    <2>5. CASE UNCHANGED vars
      BY <2>5 DEF vars, WalkInv, WithinCaps, EmptyIsFree, Walked, Shown, Precedes,
                  Taken, Misfit, BasketFull, SectorFull, NoHeadroom, OverRisk, Sector
    <2>. QED
      BY <2>1, <2>2, <2>3, <2>4, <2>5 DEF Next
  <1>. QED
    BY <1>1, <1>2 DEF WalkInv

\* The invariant of the walk holds in every reachable state.
LEMMA WalkAlways == Spec => []WalkInv
  BY WalkInit, WalkStep, PTL DEF Spec

\* No basket exceeds a cap, whatever the ranking, the settings and the caps.
THEOREM CapsHold == Spec => []WithinCaps
  <1>1. WalkInv => WithinCaps
    BY DEF WalkInv
  <1>. QED
    BY <1>1, WalkAlways, PTL

\* What the finished plan leaves out would not fit it.
THEOREM LeftOutCorrectly == Spec => []LeftOutDoesNotFit
  <1>1. WalkInv => LeftOutDoesNotFit
    BY DEF WalkInv, Walked, LeftOutDoesNotFit, PlanDone
  <1>. QED
    BY <1>1, WalkAlways, PTL

\* A ranking that shows a row never ends in an empty plan: the first row walked
\* costs one trade's risk at most, and the caps leave room for that.
THEOREM OneTradeAllowed == Spec => []NeverEmptyHanded
  <1>1. WalkInv => NeverEmptyHanded
    <2>. SUFFICES ASSUME WalkInv, PlanDone, NEW i \in Shown, ~(Len(positions) > 0)
                  PROVE  FALSE
      BY DEF NeverEmptyHanded
    <2>1. /\ best \in Seq(Row) /\ settings \in Settings
          /\ positions \in Seq(DOMAIN best) /\ i \in DOMAIN best
      BY DEF WalkInv, RankInv, TypeOK, Shown
    <2>2. positions = <<>> /\ Len(positions) = 0
      BY <2>1
    <2>3. Misfit(i)
      BY <2>2 DEF WalkInv, Walked, PlanDone, Taken
    <2>4. ~BasketFull
      BY <2>2, CapAssumption DEF BasketFull
    <2>5. ~SectorFull(i)
      <3>1. SectorOf[best[i].symbol] \in Sectors \cup {NoSector}
        <4>1. best[i] \in Row
          BY <2>1
        <4>. QED
          BY <4>1, SectorAssumption DEF Row
      <3>. QED
        BY <2>2, <3>1, CapAssumption DEF SectorFull, Sector, WalkInv, EmptyIsFree
    <2>6. best[i].notional \in Nat /\ best[i].risk \in Nat
      <3>1. best[i] \in Row
        BY <2>1
      <3>. QED
        BY <3>1 DEF Row
    <2>7. /\ best[i].risk <= RiskAmount(settings)
          /\ best[i].notional <= MaxNotional(settings)
          /\ deployed = 0 /\ totalRisk = 0
      BY <2>1, <2>2 DEF WalkInv, RankInv, Cheap, EmptyIsFree
    <2>8. /\ RiskAmount(settings) \in Nat /\ MaxNotional(settings) \in Nat
          /\ RiskCap(settings) \in Nat /\ RiskAmount(settings) <= RiskCap(settings)
      BY <2>1, AmountsAreNat
    <2>9. ~NoHeadroom(i)
      BY <2>6, <2>7, <2>8 DEF NoHeadroom
    <2>10. ~OverRisk(i)
      BY <2>6, <2>7, <2>8 DEF OverRisk
    <2>. QED
      BY <2>3, <2>4, <2>5, <2>9, <2>10 DEF Misfit
  <1>. QED
    BY <1>1, WalkAlways, PTL

-----------------------------------------------------------------------------
\* The rows taken.
Basket == {j \in DOMAIN best : Taken(j)}

\* Taken rows that rank before a row.
Ahead(i) == {j \in Shown : Taken(j) /\ Precedes(j, i)}

\* The accumulators hold what their names say of the basket.
Accounted ==
    /\ Len(positions) = Cardinality(Basket)
    /\ deployed = SumFunctionOnSet(Notionals, Basket)
    /\ totalRisk = SumFunctionOnSet(Risks, Basket)
    /\ \A s \in Sectors : sectorCount[s] = Cardinality({j \in Basket : Sector(j) = s})

\* The walk has gone through the ranking from the top, and what it did with each row
\* so far is what the basket above that row called for.
InOrder ==
    phase = "plan" =>
        /\ pool \subseteq Shown /\ Basket \subseteq Shown \ pool
        /\ \A i \in Shown \ pool, j \in pool : Precedes(i, j)
        /\ \A i \in Shown \ pool : Taken(i) <=> FitsBeside(i, Ahead(i))

GreedyInv == RankInv /\ Accounted /\ InOrder

\* The sums of the plan are those FoldFacts speaks of.
LEMMA SumTotal == \A f, S : SumFunctionOnSet(f, S) = Facts!Total(f, S)
  BY DEF Facts!Total, SumFunctionOnSet, Facts!SumFunctionOnSet, FoldFunctionOnSet,
         Facts!FoldFunctionOnSet, MapThenFoldSet, Facts!MapThenFoldSet

\* And so are its finite sets.
LEMMA FiniteIs == \A S : Facts!IsFiniteSet(S) <=> IsFiniteSet(S)
  BY DEF IsFiniteSet, Facts!IsFiniteSet

\* The ranking is strict.
LEMMA PrecedesStrict ==
    ASSUME TypeOK, NEW i \in DOMAIN best, NEW j \in DOMAIN best
    PROVE  ~(Precedes(i, j) /\ Precedes(j, i))
  <1>1. best[i] \in Row /\ best[j] \in Row /\ i \in Nat /\ j \in Nat
    BY DEF TypeOK
  <1>2. best[i].score \in Int /\ best[j].score \in Int
    BY <1>1, InputAssumption DEF Row
  <1>. QED BY <1>1, <1>2 DEF Precedes

\* What rows cost is a number, and a basket is finite.
LEMMA BasketFacts ==
    ASSUME TypeOK, NEW S, S \subseteq DOMAIN best
    PROVE  /\ IsFiniteSet(S)
           /\ Facts!Numbers(Notionals, S) /\ Facts!Numbers(Risks, S)
  <1>1. best \in Seq(Row) /\ DOMAIN best = 1..Len(best) /\ Len(best) \in Nat
    BY DEF TypeOK
  <1>2. \A j \in DOMAIN best : best[j] \in Row
    BY <1>1
  <1>3. IsFiniteSet(1..Len(best))
    BY <1>1, FS_Interval
  <1>4. IsFiniteSet(S)
    BY <1>1, <1>3, FS_Subset
  <1>5. \A j \in DOMAIN best : Notionals[j] \in Int /\ Risks[j] \in Int
    BY <1>2 DEF Notionals, Risks, Row
  <1>. QED BY <1>4, <1>5, FiniteIs DEF Facts!Numbers

\* No row is taken, so nothing is counted.
Blank ==
    /\ positions = <<>> /\ deployed = 0 /\ totalRisk = 0
    /\ sectorCount = [s \in Sectors |-> 0]

\* An empty basket accounts for nothing.
LEMMA NothingCounted == Blank => Basket = {} /\ Accounted
  <1>. SUFFICES ASSUME Blank PROVE Basket = {} /\ Accounted
    OBVIOUS
  <1>. USE DEF Blank
  <1>1. Basket = {}
    BY DEF Basket, Taken
  <1>2. \A f : SumFunctionOnSet(f, {}) = 0
    <2>. SUFFICES ASSUME NEW f PROVE Facts!Total(f, {}) = 0
      BY SumTotal
    <2>1. Facts!Numbers(f, {})
      BY FS_EmptySet, FiniteIs DEF Facts!Numbers
    <2>. QED BY <2>1, Facts!SumAdd
  <1>3. \A s : {j \in {} : Sector(j) = s} = {}
    OBVIOUS
  <1>. QED BY <1>1, <1>2, <1>3, FS_EmptySet DEF Accounted

\* A row fits beside the whole basket when no cap keeps it out.
LEMMA FitsIsNoMisfit ==
    ASSUME TypeOK, Accounted, NEW i \in DOMAIN best, i \notin Basket
    PROVE  FitsBeside(i, Basket) <=> ~Misfit(i)
  <1>1. Basket \subseteq DOMAIN best
    BY DEF Basket
  <1>2. /\ Facts!Numbers(Notionals, Basket) /\ Facts!Numbers(Risks, Basket)
        /\ Notionals[i] \in Int /\ Risks[i] \in Int
    <2>1. Facts!Numbers(Notionals, {i}) /\ Facts!Numbers(Risks, {i})
      BY BasketFacts
    <2>. QED BY <1>1, <2>1, BasketFacts, FiniteIs DEF Facts!Numbers
  <1>3. /\ SumFunctionOnSet(Notionals, Basket \cup {i}) = deployed + best[i].notional
        /\ SumFunctionOnSet(Risks, Basket \cup {i}) = totalRisk + best[i].risk
    <2>1. Facts!Total(Notionals, Basket \cup {i}) = Facts!Total(Notionals, Basket) + Notionals[i]
      BY <1>2, Facts!SumInsert
    <2>2. Facts!Total(Risks, Basket \cup {i}) = Facts!Total(Risks, Basket) + Risks[i]
      BY <1>2, Facts!SumInsert
    <2>. QED BY <2>1, <2>2, SumTotal DEF Accounted, Notionals, Risks
  <1>4. /\ deployed \in Nat /\ totalRisk \in Nat /\ best[i].notional \in Nat /\ best[i].risk \in Nat
        /\ MaxNotional(settings) \in Nat /\ RiskCap(settings) \in Nat
        /\ Sector(i) \in Sectors \cup {NoSector}
    <2>1. best[i] \in Row /\ settings \in Settings
      BY DEF TypeOK
    <2>. QED BY <2>1, AmountsAreNat, SectorAssumption DEF TypeOK, Row, Sector
  <1>5. Len(positions) \in Nat /\ Cardinality(Basket) = Len(positions)
    BY DEF TypeOK, Accounted
  <1>6. Cardinality(Basket) < MaxConcurrent <=> ~BasketFull
    BY <1>5, CapAssumption DEF BasketFull
  <1>7. (Sector(i) # NoSector =>
            Cardinality({j \in Basket : Sector(j) = Sector(i)}) < MaxPerSector) <=> ~SectorFull(i)
    <2>1. Sector(i) # NoSector =>
            /\ sectorCount[Sector(i)] = Cardinality({j \in Basket : Sector(j) = Sector(i)})
            /\ sectorCount[Sector(i)] \in Nat
      BY <1>4 DEF TypeOK, Accounted
    <2>. QED BY <2>1, CapAssumption DEF SectorFull
  <1>8. deployed + best[i].notional <= MaxNotional(settings) <=> ~NoHeadroom(i)
    BY <1>4 DEF NoHeadroom
  <1>9. totalRisk + best[i].risk <= RiskCap(settings) <=> ~OverRisk(i)
    BY <1>4 DEF OverRisk
  <1>. QED BY <1>3, <1>6, <1>7, <1>8, <1>9 DEF FitsBeside, Misfit

\* The taken rows above the next row of the walk are the whole basket.
LEMMA BasketIsAhead ==
    ASSUME GreedyInv, phase = "plan", NEW i \in pool
    PROVE  Ahead(i) = Basket /\ i \notin Basket /\ i \in DOMAIN best
  <1>1. /\ pool \subseteq Shown /\ Basket \subseteq Shown \ pool
        /\ \A k \in Shown \ pool, j \in pool : Precedes(k, j)
        /\ Shown \subseteq DOMAIN best
    BY DEF GreedyInv, InOrder, Shown
  <1>2. \A j \in Basket : j \in Shown /\ Taken(j) /\ Precedes(j, i)
    BY <1>1 DEF Basket
  <1>3. \A j \in Shown : Taken(j) => j \in Basket
    BY <1>1 DEF Basket
  <1>4. Ahead(i) = Basket
    BY <1>2, <1>3 DEF Ahead
  <1>. QED BY <1>1, <1>4

\* While neither the rows nor the settings change, what fits beside a basket does not.
LEMMA RowsStay ==
    ASSUME best' = best, settings' = settings
    PROVE  /\ Shown' = Shown /\ Notionals' = Notionals /\ Risks' = Risks
           /\ \A i, j : Precedes(i, j)' <=> Precedes(i, j)
           /\ \A i : Sector(i)' = Sector(i)
           /\ \A i, S : FitsBeside(i, S)' <=> FitsBeside(i, S)
  <1>1. /\ Notionals' = Notionals /\ Risks' = Risks
        /\ \A i, j : Precedes(i, j)' <=> Precedes(i, j)
        /\ \A i : Sector(i)' = Sector(i)
    BY DEF Notionals, Risks, Precedes, Sector
  <1>2. Shown' = Shown
    BY <1>1 DEF Shown
  <1>3. MaxNotional(settings)' = MaxNotional(settings) /\ RiskCap(settings)' = RiskCap(settings)
    OBVIOUS
  <1>. QED BY <1>1, <1>2, <1>3 DEF FitsBeside

\* Passing over a row leaves the accounts alone.
LEMMA GreedySkip ==
    ASSUME GreedyInv, phase = "plan", NEW cap \in Caps, NEW i \in pool, SkipFor(cap, i),
           Foremost(i), Misfit(i)
    PROVE  Accounted' /\ InOrder'
  <1>1. /\ best' = best /\ settings' = settings /\ positions' = positions
        /\ deployed' = deployed /\ totalRisk' = totalRisk
        /\ sectorCount' = sectorCount /\ phase' = "plan" /\ pool' = pool \ {i}
    BY DEF SkipFor
  <1>2. /\ Shown' = Shown /\ Notionals' = Notionals /\ Risks' = Risks
        /\ \A k, j : Precedes(k, j)' <=> Precedes(k, j)
        /\ \A k : Sector(k)' = Sector(k)
        /\ \A k, S : FitsBeside(k, S)' <=> FitsBeside(k, S)
    BY <1>1, RowsStay
  <1>3. \A k : Taken(k)' <=> Taken(k)
    BY <1>1 DEF Taken
  <1>4. Basket' = Basket /\ \A k : Ahead(k)' = Ahead(k)
    BY <1>1, <1>2, <1>3 DEF Basket, Ahead
  <1>5. Accounted'
    BY <1>1, <1>2, <1>4 DEF GreedyInv, Accounted
  <1>6. ~Taken(i) /\ ~FitsBeside(i, Ahead(i))
    BY BasketIsAhead, FitsIsNoMisfit DEF GreedyInv, RankInv, Basket
  <1>7. /\ pool \subseteq Shown /\ Basket \subseteq Shown \ pool
        /\ \A k \in Shown \ pool, j \in pool : Precedes(k, j)
        /\ \A k \in Shown \ pool : Taken(k) <=> FitsBeside(k, Ahead(k))
    BY DEF GreedyInv, InOrder
  <1>8. \A k \in Shown' \ pool' : k \in Shown \ pool \/ k = i
    BY <1>1, <1>2
  <1>9. \A k \in Shown' \ pool', j \in pool' : Precedes(k, j)'
    BY <1>1, <1>2, <1>7, <1>8 DEF Foremost
  <1>10. \A k \in Shown' \ pool' : Taken(k)' <=> FitsBeside(k, Ahead(k))'
    BY <1>2, <1>3, <1>4, <1>6, <1>7, <1>8
  <1>. QED BY <1>1, <1>2, <1>4, <1>5, <1>7, <1>9, <1>10 DEF InOrder

\* Taking a row adds its notional, risk and sector to the accounts, and it ranks behind
\* all that was walked.
LEMMA GreedyAccept ==
    ASSUME GreedyInv, phase = "plan", NEW i \in pool, Accept(i)
    PROVE  Accounted' /\ InOrder'
  <1>1. /\ best' = best /\ settings' = settings /\ phase' = "plan"
        /\ pool' = pool \ {i} /\ positions' = Append(positions, i)
        /\ deployed' = deployed + best[i].notional
        /\ totalRisk' = totalRisk + best[i].risk
        /\ sectorCount' = [s \in Sectors |->
                             sectorCount[s] + IF s = Sector(i) THEN 1 ELSE 0]
        /\ Foremost(i) /\ ~Misfit(i)
    BY DEF Accept, Misfit
  <1>2. /\ Shown' = Shown /\ Notionals' = Notionals /\ Risks' = Risks
        /\ \A k, j : Precedes(k, j)' <=> Precedes(k, j)
        /\ \A k : Sector(k)' = Sector(k)
        /\ \A k, S : FitsBeside(k, S)' <=> FitsBeside(k, S)
    BY <1>1, RowsStay
  <1>3. Ahead(i) = Basket /\ i \notin Basket /\ i \in DOMAIN best /\ TypeOK /\ Accounted
    BY BasketIsAhead DEF GreedyInv, RankInv
  <1>4. Len(positions') = Len(positions) + 1 /\ \A k : Taken(k)' <=> Taken(k) \/ k = i
    <2>. DEFINE R == DOMAIN best
    <2>1. positions \in Seq(R) /\ i \in R
      BY <1>3 DEF TypeOK
    <2>. HIDE DEF R
    <2>2. /\ Len(positions) \in Nat /\ Len(positions') = Len(positions) + 1
          /\ DOMAIN positions = 1..Len(positions) /\ DOMAIN positions' = 1..Len(positions) + 1
          /\ \A k \in DOMAIN positions : positions'[k] = positions[k]
          /\ positions'[Len(positions) + 1] = i
      BY <1>1, <2>1, AppendFacts
    <2>3. ASSUME NEW k, Taken(k) PROVE Taken(k)'
      BY <2>2, <2>3 DEF Taken
    <2>4. Taken(i)'
      BY <2>2 DEF Taken
    <2>5. ASSUME NEW k, Taken(k)', k # i PROVE Taken(k)
      <3>1. PICK m \in DOMAIN positions' : positions'[m] = k
        BY <2>5 DEF Taken
      <3>2. m \in DOMAIN positions
        BY <2>2, <2>5, <3>1
      <3>. QED BY <2>2, <3>1, <3>2 DEF Taken
    <2>. QED BY <2>2, <2>3, <2>4, <2>5
  <1>5. Basket' = Basket \cup {i}
    BY <1>1, <1>3, <1>4 DEF Basket
  <1>6. /\ IsFiniteSet(Basket)
        /\ Facts!Numbers(Notionals, Basket) /\ Facts!Numbers(Risks, Basket)
        /\ Notionals[i] \in Int /\ Risks[i] \in Int
    <2>1. Basket \subseteq DOMAIN best
      BY DEF Basket
    <2>2. Facts!Numbers(Notionals, {i}) /\ Facts!Numbers(Risks, {i})
      BY <1>3, BasketFacts
    <2>. QED BY <1>3, <2>1, <2>2, BasketFacts, FiniteIs DEF Facts!Numbers
  <1>7. Accounted'
    <2>1. Cardinality(Basket') = Cardinality(Basket) + 1
      BY <1>3, <1>5, <1>6, FS_AddElement
    <2>2. Facts!Total(Notionals, Basket \cup {i}) = Facts!Total(Notionals, Basket) + Notionals[i]
      BY <1>3, <1>6, Facts!SumInsert
    <2>3. Facts!Total(Risks, Basket \cup {i}) = Facts!Total(Risks, Basket) + Risks[i]
      BY <1>3, <1>6, Facts!SumInsert
    <2>4. Notionals[i] = best[i].notional /\ Risks[i] = best[i].risk
      BY <1>3 DEF Notionals, Risks
    <2>5. deployed' = SumFunctionOnSet(Notionals, Basket)'
      BY <1>1, <1>2, <1>3, <1>5, <2>2, <2>4, SumTotal DEF Accounted
    <2>6. totalRisk' = SumFunctionOnSet(Risks, Basket)'
      BY <1>1, <1>2, <1>3, <1>5, <2>3, <2>4, SumTotal DEF Accounted
    <2>7. ASSUME NEW s \in Sectors
          PROVE  sectorCount'[s] = Cardinality({j \in Basket' : Sector(j)' = s})
      <3>. DEFINE old == {j \in Basket : Sector(j) = s}
      <3>1. IsFiniteSet(old) /\ i \notin old
        BY <1>3, <1>6, FS_Subset
      <3>2. {j \in Basket' : Sector(j)' = s} = IF s = Sector(i) THEN old \cup {i} ELSE old
        BY <1>2, <1>5
      <3>3. sectorCount[s] = Cardinality(old) /\ sectorCount[s] \in Nat
        BY <1>3 DEF Accounted, TypeOK
      <3>4. Cardinality(old \cup {i}) = Cardinality(old) + 1
        BY <3>1, FS_AddElement
      <3>. HIDE DEF old
      <3>5. sectorCount'[s] = sectorCount[s] + IF s = Sector(i) THEN 1 ELSE 0
        BY <1>1
      <3>6. CASE s = Sector(i)
        BY <3>2, <3>3, <3>4, <3>5, <3>6
      <3>7. CASE s # Sector(i)
        <4>1. {j \in Basket' : Sector(j)' = s} = old
          BY <3>2, <3>7
        <4>2. sectorCount'[s] = sectorCount[s]
          BY <3>3, <3>5, <3>7
        <4>. QED BY <3>3, <4>1, <4>2
      <3>. QED BY <3>6, <3>7
    <2>. QED BY <1>3, <1>4, <2>1, <2>5, <2>6, <2>7 DEF Accounted
  <1>8. /\ pool \subseteq Shown /\ Basket \subseteq Shown \ pool
        /\ \A k \in Shown \ pool, j \in pool : Precedes(k, j)
        /\ \A k \in Shown \ pool : Taken(k) <=> FitsBeside(k, Ahead(k))
    BY DEF GreedyInv, InOrder
  <1>9. \A k \in Shown' \ pool' : k \in Shown \ pool \/ k = i
    BY <1>1, <1>2
  <1>10. \A k \in Shown' \ pool', j \in pool' : Precedes(k, j)'
    BY <1>1, <1>2, <1>8, <1>9 DEF Foremost
  <1>11. ASSUME NEW k \in Shown' \ pool' PROVE ~Precedes(i, k)
    <2>1. k \in DOMAIN best
      BY <1>2 DEF Shown
    <2>2. k = i \/ Precedes(k, i)
      BY <1>8, <1>9
    <2>. QED BY <1>3, <2>1, <2>2, PrecedesStrict
  <1>12. \A k \in Shown' \ pool' : Ahead(k)' = Ahead(k)
    BY <1>2, <1>4, <1>11 DEF Ahead
  <1>13. Taken(i)' /\ FitsBeside(i, Ahead(i))
    BY <1>1, <1>3, <1>4, FitsIsNoMisfit
  <1>14. \A k \in Shown' \ pool' : Taken(k)' <=> FitsBeside(k, Ahead(k))'
    BY <1>2, <1>4, <1>8, <1>9, <1>12, <1>13
  <1>15. pool' \subseteq Shown' /\ Basket' \subseteq Shown' \ pool'
    BY <1>1, <1>2, <1>5, <1>8
  <1>. QED BY <1>7, <1>10, <1>14, <1>15 DEF InOrder

\* Before the first candidate there is nothing to account for.
LEMMA GreedyInit ==
    ASSUME Init
    PROVE  GreedyInv
  <1>1. RankInv
    BY RankInit
  <1>2. Basket = {} /\ Accounted
    BY NothingCounted DEF Init, Blank
  <1>3. Shown = {}
    BY DEF Init, Shown
  <1>. QED BY <1>1, <1>2, <1>3 DEF Init, GreedyInv, InOrder

\* One step of the emission.
LEMMA GreedyStep ==
    ASSUME GreedyInv, [Next]_vars
    PROVE  GreedyInv'
  <1>1. RankInv'
    BY RankStep DEF GreedyInv
  <1>2. Accounted' /\ InOrder'
    <2>1. CASE Snapshot
      <3>1. phase' = "rank" /\ Blank'
        BY <2>1 DEF Snapshot, Blank
      <3>2. Accounted'
        BY <3>1, NothingCounted, PTL
      <3>. QED BY <3>1, <3>2 DEF InOrder
    <2>2. ASSUME NEW cand \in Candidate, Consider(cand)
          PROVE  Accounted' /\ InOrder'
      <3>1. /\ phase' = "rank" /\ positions' = <<>> /\ positions = <<>>
            /\ deployed' = deployed /\ totalRisk' = totalRisk /\ sectorCount' = sectorCount
        BY <1>1, <2>2 DEF Consider, RankInv, PlanUntouched, GreedyInv, planVars
      <3>2. Basket = {} /\ Basket' = {}
        BY <3>1 DEF Basket, Taken
      <3>3. \A f, h : SumFunctionOnSet(f, {}) = SumFunctionOnSet(h, {})
        <4>. SUFFICES ASSUME NEW f, NEW h PROVE Facts!Total(f, {}) = Facts!Total(h, {})
          BY SumTotal
        <4>1. Facts!Numbers(f, {}) /\ Facts!Numbers(h, {})
          BY FS_EmptySet, FiniteIs DEF Facts!Numbers
        <4>2. Facts!Total(f, {}) = 0 /\ Facts!Total(h, {}) = 0
          BY <4>1, Facts!SumAdd
        <4>. QED BY <4>2
      <3>4. Accounted'
        BY <3>1, <3>2, <3>3 DEF GreedyInv, Accounted
      <3>. QED BY <3>1, <3>4 DEF InOrder
    <2>3. CASE Select
      <3>1. /\ best' = best /\ settings' = settings /\ planVars' = planVars
            /\ pool' = Shown /\ phase' = "plan" /\ positions = <<>>
        BY <2>3 DEF Select, GreedyInv, RankInv, PlanUntouched
      <3>2. Shown' = Shown /\ Notionals' = Notionals /\ Risks' = Risks
            /\ \A k : Sector(k)' = Sector(k)
        BY <3>1, RowsStay
      <3>3. Basket = {} /\ Basket' = {}
        BY <3>1 DEF Basket, Taken, planVars
      <3>4. Accounted'
        BY <3>1, <3>2, <3>3 DEF GreedyInv, Accounted, planVars
      <3>. QED BY <3>1, <3>2, <3>3, <3>4 DEF InOrder
    <2>4. CASE Walk
      <3>1. PICK i \in pool : \/ SkipConcurrent(i) \/ SkipSector(i)
                              \/ SkipLeverage(i) \/ SkipRisk(i) \/ Accept(i)
        BY <2>4 DEF Walk
      <3>2. phase = "plan"
        BY DEF GreedyInv, RankInv, PlanUntouched, TypeOK
      <3>3. CASE SkipConcurrent(i)
        BY <3>2, <3>3, GreedySkip DEF SkipConcurrent, Misfit, Caps
      <3>4. CASE SkipSector(i)
        BY <3>2, <3>4, GreedySkip DEF SkipSector, Misfit, Caps
      <3>5. CASE SkipLeverage(i)
        BY <3>2, <3>5, GreedySkip DEF SkipLeverage, Misfit, Caps
      <3>6. CASE SkipRisk(i)
        BY <3>2, <3>6, GreedySkip DEF SkipRisk, Misfit, Caps
      <3>7. CASE Accept(i)
        BY <3>2, <3>7, GreedyAccept
      <3>. QED BY <3>1, <3>3, <3>4, <3>5, <3>6, <3>7
    <2>5. CASE UNCHANGED vars
      <3>1. /\ best' = best /\ settings' = settings /\ positions' = positions /\ pool' = pool
            /\ phase' = phase /\ deployed' = deployed /\ totalRisk' = totalRisk
            /\ sectorCount' = sectorCount
        BY <2>5 DEF vars
      <3>2. /\ Shown' = Shown /\ Notionals' = Notionals /\ Risks' = Risks
            /\ \A k, j : Precedes(k, j)' <=> Precedes(k, j)
            /\ \A k : Sector(k)' = Sector(k)
            /\ \A k, S : FitsBeside(k, S)' <=> FitsBeside(k, S)
        BY <3>1, RowsStay
      <3>3. \A k : Taken(k)' <=> Taken(k)
        BY <3>1 DEF Taken
      <3>4. Basket' = Basket /\ \A k : Ahead(k)' = Ahead(k)
        BY <3>1, <3>2, <3>3 DEF Basket, Ahead
      <3>. QED BY <3>1, <3>2, <3>3, <3>4 DEF GreedyInv, Accounted, InOrder
    <2>. QED BY <2>1, <2>2, <2>3, <2>4, <2>5 DEF Next
  <1>. QED BY <1>1, <1>2 DEF GreedyInv

\* What the walk leaves behind is the greedy plan: a row is in it exactly when it fits,
\* under all four caps, beside the taken rows that rank before it.
THEOREM WalkIsGreedy == Spec => []PlanIsGreedy
  <1>1. GreedyInv => PlanIsGreedy
    BY DEF GreedyInv, InOrder, PlanIsGreedy, PlanDone, Ahead
  <1>. QED
    BY <1>1, GreedyInit, GreedyStep, PTL DEF Spec

-----------------------------------------------------------------------------
Settled(t) ==
    /\ t.idx < t.exit /\ t.exit <= Len(bars)
    /\ bars[t.idx].day = bars[t.exit].day
    /\ -t.risk <= t.gain /\ t.gain <= RewardRisk * t.risk
    /\ t.worst >= t.risk <=> t.gain = -t.risk
    /\ t.exit = ExitBar(t) /\ t.gain = Sign * (ExitPrice(t) - t.entry)

BookedInv ==
    /\ \A k \in DOMAIN trades, t \in Booked : trades[k] = t => Settled(t)
    /\ \A k \in DOMAIN trades : trades[k].exit < freeFrom
    /\ \A k, l \in DOMAIN trades : k < l => trades[k].exit < trades[l].idx

HeldInv ==
    open # NoTrade =>
        /\ open.idx < at /\ open.idx < Len(bars)
        /\ freeFrom <= open.idx
        /\ open.worst < open.risk
        /\ \A k \in open.idx..(at - 1) : bars[k].day = bars[open.idx].day
        /\ \A k \in (open.idx + 1)..(at - 1) :
             ~HitStop(open, bars[k]) /\ ~HitTarget(open, bars[k])
        /\ at = open.idx + 1 => bars[at].day = bars[open.idx].day

FillInv == bars \in Series /\ FillTypeOK /\ freeFrom # 0 /\ BookedInv /\ HeldInv

-----------------------------------------------------------------------------
\* What the assumption says of a bar of the series at hand.
LEMMA BarFacts ==
    ASSUME bars \in Series, NEW k \in 1..Len(bars)
    PROVE  /\ bars[k] \in Bar /\ DOMAIN bars = 1..Len(bars) /\ Len(bars) \in Nat
           /\ bars[k].low <= bars[k].close /\ bars[k].close <= bars[k].high
           /\ \A l \in 1..Len(bars) : k <= l => bars[k].day <= bars[l].day
<1>1. bars \in Seq(Bar) BY SeriesAssumption
<1>2. DOMAIN bars = 1..Len(bars) /\ Len(bars) \in Nat /\ bars[k] \in Bar BY <1>1
<1> QED BY <1>2, SeriesAssumption

\* The target is at least one risk away.
LEMMA TargetIsFar ==
    ASSUME NEW r \in Nat \ {0}
    PROVE  RewardRisk * r \in Nat /\ RewardRisk * r >= r
<1>1. RewardRisk \in Nat \ {0} BY AtrAssumption
<1>2. RewardRisk * r >= 1 * r BY <1>1
<1> QED BY <1>1, <1>2

\* A booked trade stays settled: it depends on the bars and direction alone.
LEMMA SettledStays ==
    ASSUME UNCHANGED <<bars, dir>>, NEW t, Settled(t)
    PROVE  Settled(t)'
<1>1. Day(t)' = Day(t) BY DEF Day
<1>2. \A k : HitStop(t, bars[k])' = HitStop(t, bars[k])
    BY DEF HitStop, Stop, Sign
<1>3. \A k : HitTarget(t, bars[k])' = HitTarget(t, bars[k])
    BY DEF HitTarget, Target, Sign
<1>4. Touches(t)' = Touches(t) BY <1>1, <1>2, <1>3 DEF Touches
<1>5. ExitBar(t)' = ExitBar(t) BY <1>1, <1>4 DEF ExitBar
<1>6. ExitPrice(t)' = ExitPrice(t) 
    BY <1>2, <1>4, <1>5 DEF ExitPrice, Stop, Target, Sign
<1> QED BY <1>5, <1>6 DEF Settled, Sign

\* The first and the last of a set of bars are what the walk says they are.
LEMMA MinIs ==
    ASSUME NEW S \in SUBSET Int, NEW x \in S, \A y \in S : x <= y
    PROVE  Min(S) = x
<1>1. \A z \in S : (\A y \in S : z <= y) => z = x
  <2>1. \A z \in S : z \in Int /\ x \in Int BY Zenon
  <2>2. \A z \in S : z <= x /\ x <= z => z = x BY <2>1, SMT
  <2> QED BY <2>2, Zenon
<1>2. \E z \in S : \A y \in S : z <= y BY Zenon
<1> QED BY <1>1, <1>2, Zenon DEF Min
\* The largest element of a set of numbers, where one is known to be.
LEMMA MaxIs ==
    ASSUME NEW S \in SUBSET Int, NEW x \in S, \A y \in S : x >= y
    PROVE  Max(S) = x
<1>1. \A z \in S : (\A y \in S : z >= y) => z = x
  <2>1. \A z \in S : z \in Int /\ x \in Int BY Zenon
  <2>2. \A z \in S : z >= x /\ x >= z => z = x BY <2>1, SMT
  <2> QED BY <2>2, Zenon
<1>2. \E z \in S : \A y \in S : z >= y BY Zenon
<1> QED BY <1>1, <1>2, Zenon DEF Max


-----------------------------------------------------------------------------
\* Levels and days of an outcome are those of the trade it closes.
LEMMA OutcomeFacts ==
    ASSUME FillInv, NEW h \in Held, NEW bar \in Nat \ {0}, NEW price \in Int,
           NEW t, t = Outcome(h, bar, price)
    PROVE  /\ t \in Booked /\ t.idx = h.idx /\ t.exit = bar
           /\ t.entry = h.entry /\ t.risk = h.risk /\ t.worst = h.worst
           /\ t.gain = Sign * (price - h.entry)
           /\ Stop(t) = Stop(h) /\ Target(t) = Target(h)
           /\ \A k : HitStop(t, bars[k]) <=> HitStop(h, bars[k])
           /\ \A k : HitTarget(t, bars[k]) <=> HitTarget(h, bars[k])
<1>1. h.entry \in Int /\ h.idx \in Nat \ {0} /\ h.risk \in Nat \ {0} /\ h.worst \in Nat
    BY DEF Held
<1>2. Sign \in {1, -1} BY DEF Sign
<1>3. Sign * (price - h.entry) \in Int BY <1>1, <1>2
<1>4. /\ t \in Booked /\ t.idx = h.idx /\ t.exit = bar
      /\ t.entry = h.entry /\ t.risk = h.risk /\ t.worst = h.worst
      /\ t.gain = Sign * (price - h.entry)
    BY <1>1, <1>3 DEF Outcome, Booked
<1>5. Stop(t) = Stop(h) /\ Target(t) = Target(h) BY <1>4 DEF Stop, Target
<1>6. \A k : /\ HitStop(t, bars[k]) <=> HitStop(h, bars[k])
             /\ HitTarget(t, bars[k]) <=> HitTarget(h, bars[k])
    BY <1>5 DEF HitStop, HitTarget
<1> QED BY <1>4, <1>5, <1>6

\* What the invariant says of the trade being held.
LEMMA HeldFacts ==
    ASSUME FillInv, open # NoTrade
    PROVE  /\ open \in Held /\ Len(bars) \in Nat /\ DOMAIN bars = 1..Len(bars)
           /\ open.idx \in 1..Len(bars) /\ at \in 2..(Len(bars) + 1)
           /\ at - 1 \in 1..Len(bars)
           /\ freeFrom \in Nat \ {0} /\ freeFrom <= open.idx
           /\ open.entry \in Int /\ open.risk \in Nat \ {0}
           /\ open.worst \in Nat /\ open.worst < open.risk
<1>1. bars \in Seq(Bar) BY SeriesAssumption DEF FillInv
<1>2. open \in Held BY DEF FillInv, FillTypeOK
<1>3. open.idx \in Nat \ {0} /\ open.entry \in Int /\ open.risk \in Nat \ {0}
      /\ open.worst \in Nat
    BY <1>2 DEF Held
<1>4. open.idx < at /\ open.idx < Len(bars) /\ freeFrom <= open.idx
      /\ open.worst < open.risk
    BY DEF FillInv, HeldInv
<1>5. freeFrom \in Nat \ {0} /\ at \in 0..(Len(bars) + 1)
    BY DEF FillInv, FillTypeOK
<1> QED BY <1>1, <1>2, <1>3, <1>4, <1>5

\* Booking a settled outcome of the held trade keeps the invariant.
LEMMA BookKeeps ==
    ASSUME FillInv, open # NoTrade,
           NEW h \in Held, h.idx = open.idx,
           NEW bar \in (open.idx + 1)..Len(bars), NEW price \in Int,
           Settled(Outcome(h, bar, price)), Book(h, bar, price)
    PROVE  FillInv'
<1>1. /\ Len(bars) \in Nat /\ open.idx \in 1..Len(bars)
      /\ freeFrom \in Nat \ {0} /\ freeFrom <= open.idx
    BY HeldFacts
<1>2. bar \in Nat \ {0} /\ bar > open.idx /\ bar <= Len(bars) BY <1>1
<1>3. PICK t \in Booked : t = Outcome(h, bar, price) /\ t.idx = open.idx /\ t.exit = bar
    <2> DEFINE o == Outcome(h, bar, price)
    <2>1. o \in Booked /\ o.idx = h.idx /\ o.exit = bar BY <1>2, OutcomeFacts
    <2> HIDE DEF o
    <2>2. \E t \in Booked : t = o /\ t.idx = open.idx /\ t.exit = bar
        BY <2>1, Zenon
    <2> QED BY <2>2, Zenon DEF o
<1>4. /\ trades' = Append(trades, t) /\ freeFrom' = bar + 1 /\ open' = NoTrade
      /\ at' = 0 /\ UNCHANGED <<bars, dir, looked>>
    BY <1>3 DEF Book
<1>5. trades \in Seq(Booked) BY DEF FillInv, FillTypeOK
<1>6. Settled(t)' BY <1>3, <1>4, SettledStays
<1>7. /\ Len(trades) \in Nat /\ DOMAIN trades = 1..Len(trades)
      /\ DOMAIN trades' = 1..(Len(trades) + 1)
      /\ trades' \in Seq(Booked)
      /\ \A k \in 1..Len(trades) : trades'[k] = trades[k]
      /\ trades'[Len(trades) + 1] = t
    BY <1>3, <1>4, <1>5
<1>8. FillTypeOK'
    BY <1>1, <1>2, <1>4, <1>7 DEF FillInv, FillTypeOK
<1>9. BookedInv'
  <2>1. \A k \in DOMAIN trades : /\ trades[k].exit \in Nat
                                 /\ trades[k].exit < freeFrom
    <3>1. \A k \in DOMAIN trades : trades[k] \in Booked BY <1>5
    <3> QED BY <3>1 DEF FillInv, BookedInv, Booked
  <2>2. ASSUME NEW k \in DOMAIN trades', NEW u \in Booked, trades'[k] = u
        PROVE  Settled(u)'
    <3>1. CASE k \in DOMAIN trades
      <4>1. Settled(u) BY <1>7, <2>2, <3>1 DEF FillInv, BookedInv
      <4> QED BY <1>4, <4>1, SettledStays
    <3>2. CASE k = Len(trades) + 1 
      <4>1. u = t BY <1>7, <2>2, <3>2
      <4> QED BY <1>6, <4>1
    <3> QED BY <1>7, <3>1, <3>2
  <2>3. ASSUME NEW k \in DOMAIN trades'
        PROVE  trades'[k].exit < freeFrom'
    <3>1. CASE k \in DOMAIN trades BY <1>1, <1>2, <1>4, <1>7, <2>1, <3>1
    <3>2. CASE k = Len(trades) + 1 BY <1>2, <1>3, <1>4, <1>7, <3>2
    <3> QED BY <1>7, <3>1, <3>2
  <2>4. ASSUME NEW k \in DOMAIN trades', NEW l \in DOMAIN trades', k < l
        PROVE  trades'[k].exit < trades'[l].idx
    <3>1. CASE l \in DOMAIN trades BY <1>7, <2>4, <3>1 DEF FillInv, BookedInv
    <3>2. CASE l = Len(trades) + 1 BY <1>1, <1>3, <1>7, <2>1, <2>4, <3>2
    <3> QED BY <1>7, <3>1, <3>2
  <2> QED BY <2>2, <2>3, <2>4 DEF BookedInv
<1>10. HeldInv' BY <1>4 DEF HeldInv
<1> QED BY <1>2, <1>4, <1>8, <1>9, <1>10 DEF FillInv


\* The heat of one more bar, when the stop was not touched and when it was.
LEMMA HeatFacts ==
    ASSUME FillInv, open # NoTrade, OnDay
    PROVE  LET h == WithHeat(open, bars[at]) IN
           /\ h \in Held /\ h.idx = open.idx /\ h.entry = open.entry
           /\ h.risk = open.risk /\ Stop(h) = Stop(open) /\ Target(h) = Target(open)
           /\ h.worst >= h.risk <=> HitStop(open, bars[at])
<1> DEFINE h == WithHeat(open, bars[at])
<1>1. /\ at \in 1..Len(bars) /\ open \in Held /\ open.entry \in Int
      /\ open.risk \in Nat \ {0} /\ open.worst \in Nat /\ open.worst < open.risk
    BY HeldFacts DEF OnDay
<1>2. bars[at].low \in Int /\ bars[at].high \in Int
    BY <1>1, BarFacts DEF FillInv, Bar
<1>3. Adverse(open, bars[at]) \in Int
    BY <1>1, <1>2 DEF Adverse
<1>4. Adverse(open, bars[at]) >= open.risk <=> HitStop(open, bars[at])
  <2>1. CASE dir = "Long" BY <1>1, <1>2, <2>1 DEF Adverse, HitStop, Stop, Sign
  <2>2. CASE dir # "Long" BY <1>1, <1>2, <2>2 DEF Adverse, HitStop, Stop, Sign
  <2> QED BY <2>1, <2>2
<1>5. \E w \in Nat : h = [open EXCEPT !.worst = w]
                     /\ (w >= open.risk <=> HitStop(open, bars[at]))
    BY <1>1, <1>3, <1>4 DEF WithHeat
<1>6. h \in Held /\ h.idx = open.idx /\ h.entry = open.entry /\ h.risk = open.risk
      /\ (h.worst >= h.risk <=> HitStop(open, bars[at]))
    BY <1>1, <1>5 DEF Held
<1> HIDE DEF h
<1>7. Stop(h) = Stop(open) /\ Target(h) = Target(open) BY <1>6 DEF Stop, Target
<1> QED BY <1>6, <1>7 DEF h

\* A bar that decides: nothing before it touched a level, so it is the first.
LEMMA Decided ==
    ASSUME FillInv, open # NoTrade, OnDay,
           HitStop(open, bars[at]) \/ HitTarget(open, bars[at]),
           NEW price \in Int,
           price = IF HitStop(open, bars[at]) THEN Stop(open) ELSE Target(open)
    PROVE  Settled(Outcome(WithHeat(open, bars[at]), at, price))
<1> DEFINE h == WithHeat(open, bars[at])
           t == Outcome(h, at, price)
<1>1. /\ h \in Held /\ h.idx = open.idx /\ h.entry = open.entry
      /\ h.risk = open.risk /\ Stop(h) = Stop(open) /\ Target(h) = Target(open)
      /\ h.worst >= h.risk <=> HitStop(open, bars[at])
    BY HeatFacts
<1>2. /\ Len(bars) \in Nat /\ DOMAIN bars = 1..Len(bars) /\ at \in 1..Len(bars)
      /\ open.idx \in 1..Len(bars) /\ open.idx < at
      /\ open.entry \in Int /\ open.risk \in Nat \ {0}
      /\ bars[at].day = bars[open.idx].day
    BY HeldFacts DEF OnDay, FillInv, HeldInv
<1> HIDE DEF h
<1>3. /\ t.idx = open.idx /\ t.exit = at /\ t.entry = open.entry
      /\ t.risk = open.risk /\ t.worst = h.worst
      /\ t.gain = Sign * (price - open.entry)
      /\ Stop(t) = Stop(open) /\ Target(t) = Target(open)
  <2>1. h \in Held /\ at \in Nat \ {0} BY <1>1, <1>2
  <2>2. /\ t.idx = h.idx /\ t.exit = at /\ t.entry = h.entry
        /\ t.risk = h.risk /\ t.worst = h.worst
        /\ t.gain = Sign * (price - h.entry)
        /\ Stop(t) = Stop(h) /\ Target(t) = Target(h)
      BY <2>1, OutcomeFacts
  <2> HIDE DEF t
  <2> QED BY <1>1, <2>2, Zenon
<1> HIDE DEF t
<1>4. \A k : /\ HitStop(t, bars[k]) <=> HitStop(open, bars[k])
             /\ HitTarget(t, bars[k]) <=> HitTarget(open, bars[k])
    BY <1>3 DEF HitStop, HitTarget
<1>5. at \in Touches(t)
    BY <1>2, <1>3, <1>4 DEF Touches, Day
<1>6. \A k \in Touches(t) : at <= k
  <2> SUFFICES ASSUME NEW k \in Touches(t), k < at PROVE FALSE
      BY <1>2 DEF Touches, Day
  <2>1. k \in (open.idx + 1)..(at - 1) BY <1>2, <1>3 DEF Touches, Day
  <2>2. ~HitStop(open, bars[k]) /\ ~HitTarget(open, bars[k])
      BY <2>1 DEF FillInv, HeldInv
  <2>3. HitStop(t, bars[k]) \/ HitTarget(t, bars[k]) BY DEF Touches
  <2> QED BY <1>4, <2>2, <2>3
<1>7. ExitBar(t) = at
  <2>1. Touches(t) \in SUBSET Int BY <1>2 DEF Touches, Day
  <2> QED BY <1>5, <1>6, <2>1, MinIs DEF ExitBar
<1>8. ExitPrice(t) = price
    BY <1>3, <1>4, <1>5, <1>7 DEF ExitPrice
<1>9. /\ -t.risk <= t.gain /\ t.gain <= RewardRisk * t.risk
      /\ t.worst >= t.risk <=> t.gain = -t.risk
  <2>1. RewardRisk * open.risk \in Nat /\ RewardRisk * open.risk >= open.risk
      BY <1>2, TargetIsFar
  <2>2. CASE HitStop(open, bars[at])
    <3>1. t.gain = -open.risk BY <1>2, <1>3, <2>2 DEF Stop, Sign
    <3> QED BY <1>1, <1>2, <1>3, <2>1, <2>2, <3>1
  <2>3. CASE ~HitStop(open, bars[at])
    <3> DEFINE reach == RewardRisk * open.risk
    <3>0. reach \in Nat /\ reach >= open.risk BY <2>1
    <3>2. price = open.entry + Sign * reach BY <2>3 DEF Target
    <3> HIDE DEF reach
    <3>1. t.gain = reach BY <1>2, <1>3, <3>0, <3>2 DEF Sign
    <3>3. -open.risk <= reach /\ reach # -open.risk BY <1>2, <3>0
    <3> QED BY <1>1, <1>2, <1>3, <2>3, <3>0, <3>1, <3>3 DEF reach
  <2> QED BY <2>2, <2>3
<1>10. t.idx < t.exit /\ t.exit <= Len(bars) /\ bars[t.idx].day = bars[t.exit].day
    BY <1>2, <1>3
<1>11. t.exit = ExitBar(t) /\ t.gain = Sign * (ExitPrice(t) - t.entry)
    BY <1>3, <1>7, <1>8
<1>12. Settled(t) BY <1>9, <1>10, <1>11 DEF Settled
<1> QED BY <1>12 DEF t, h


\* A close lies as far inside the levels as its bar does.
LEMMA CloseInside ==
    ASSUME NEW low \in Int, NEW close \in Int, NEW high \in Int, NEW entry \in Int,
           NEW down \in Int, NEW up \in Int, low <= close, close <= high,
           low > entry - down, high < entry + up
    PROVE  -down < close - entry /\ close - entry < up
OBVIOUS

\* No bar of the day touched a level: the day's last close decides.
LEMMA Undecided ==
    ASSUME FillInv, open # NoTrade, ~OnDay
    PROVE  /\ at - 1 \in (open.idx + 1)..Len(bars) /\ bars[at - 1].close \in Int
           /\ Settled(Outcome(open, at - 1, bars[at - 1].close))
<1> DEFINE last == at - 1
           price == bars[last].close
           t == Outcome(open, last, price)
<1>1. /\ Len(bars) \in Nat /\ DOMAIN bars = 1..Len(bars) /\ open \in Held
      /\ open.idx \in 1..Len(bars) /\ open.idx < at /\ open.idx < Len(bars)
      /\ at \in 2..(Len(bars) + 1) /\ last \in 1..Len(bars)
      /\ open.entry \in Int /\ open.risk \in Nat \ {0}
      /\ open.worst \in Nat /\ open.worst < open.risk
    BY HeldFacts DEF FillInv, HeldInv
<1>2. at # open.idx + 1 BY <1>1 DEF OnDay, FillInv, HeldInv
<1>3. last \in (open.idx + 1)..Len(bars) /\ last \in Nat \ {0} BY <1>1, <1>2
<1>4. /\ bars[last].day = bars[open.idx].day
      /\ ~HitStop(open, bars[last]) /\ ~HitTarget(open, bars[last])
    BY <1>1, <1>3 DEF FillInv, HeldInv
<1>5. /\ bars[last].low \in Int /\ bars[last].high \in Int /\ price \in Int
      /\ bars[last].low <= price /\ price <= bars[last].high
    BY <1>1, BarFacts DEF FillInv, Bar
<1> HIDE DEF last
<1> HIDE DEF price
<1>6. /\ t.idx = open.idx /\ t.exit = last /\ t.entry = open.entry
      /\ t.risk = open.risk /\ t.worst = open.worst
      /\ t.gain = Sign * (price - open.entry)
      /\ Stop(t) = Stop(open) /\ Target(t) = Target(open)
    BY <1>1, <1>3, <1>5, OutcomeFacts
<1> HIDE DEF t
<1>7. \A k : /\ HitStop(t, bars[k]) <=> HitStop(open, bars[k])
             /\ HitTarget(t, bars[k]) <=> HitTarget(open, bars[k])
    BY <1>6 DEF HitStop, HitTarget
<1>8. \A k \in Day(t) : k <= last
  <2> SUFFICES ASSUME NEW k \in Day(t), k > last PROVE FALSE
      BY <1>1, <1>3 DEF Day
  <2>1. k \in 1..Len(bars) /\ at <= k /\ bars[k].day = bars[open.idx].day
      BY <1>1, <1>6 DEF Day, last
  <2>2. at \in 1..Len(bars) /\ bars[at].day # bars[open.idx].day
      BY <1>1, <2>1 DEF OnDay
  <2>3. bars[open.idx].day <= bars[at].day /\ bars[at].day <= bars[k].day
      BY <1>1, <2>1, <2>2, BarFacts DEF FillInv
  <2>4. bars[at].day \in Nat /\ bars[open.idx].day \in Nat
      BY <1>1, <2>2, BarFacts DEF FillInv, Bar
  <2> QED BY <2>1, <2>2, <2>3, <2>4
<1>9. Touches(t) = {}
  <2> SUFFICES ASSUME NEW k \in Touches(t) PROVE FALSE OBVIOUS
  <2>1. k \in Day(t) /\ (HitStop(t, bars[k]) \/ HitTarget(t, bars[k]))
      BY DEF Touches
  <2>2. k \in (open.idx + 1)..(at - 1)
      BY <1>1, <1>6, <1>8, <2>1 DEF Day, last
  <2>3. ~HitStop(open, bars[k]) /\ ~HitTarget(open, bars[k])
      BY <2>2 DEF FillInv, HeldInv
  <2> QED BY <1>7, <2>1, <2>3
<1>10. ExitBar(t) = last
  <2>1. Day(t) \in SUBSET Int BY <1>1 DEF Day
  <2>2. last \in Day(t) BY <1>1, <1>3, <1>4, <1>6 DEF Day
  <2>3. \A k \in Day(t) : last >= k BY <1>3, <1>8, <2>1
  <2> QED BY <1>9, <2>1, <2>2, <2>3, MaxIs DEF ExitBar
<1>11. ExitPrice(t) = price BY <1>9, <1>10 DEF ExitPrice, price
<1>12. -t.risk < t.gain /\ t.gain < RewardRisk * t.risk
  <2> DEFINE reach == RewardRisk * open.risk
  <2>1. reach \in Nat BY <1>1, TargetIsFar
  <2>2. Target(open) = open.entry + Sign * reach BY DEF Target
  <2> HIDE DEF reach
  <2>3. /\ bars[last].low \in Int /\ bars[last].high \in Int /\ price \in Int
        /\ bars[last].low <= price /\ price <= bars[last].high
        /\ open.entry \in Int /\ open.risk \in Int /\ reach \in Int
      BY <1>1, <1>5, <2>1
  <2>4. -open.risk < Sign * (price - open.entry) /\ Sign * (price - open.entry) < reach
    <3>1. CASE dir = "Long"
      <4>1. Sign = 1 BY <3>1 DEF Sign
      <4>2. bars[last].low > open.entry - open.risk
          BY <1>1, <1>4, <1>5, <3>1, <4>1 DEF HitStop, Stop
      <4>3. bars[last].high < open.entry + reach
          BY <1>1, <1>4, <1>5, <2>1, <2>2, <3>1, <4>1 DEF HitTarget
      <4>4. Sign * (price - open.entry) = price - open.entry BY <1>1, <1>5, <4>1
      <4>5. -open.risk < price - open.entry /\ price - open.entry < reach
          BY <2>3, <4>2, <4>3, CloseInside, Zenon
      <4> QED BY <4>4, <4>5
    <3>2. CASE dir # "Long"
      <4>1. Sign = -1 BY <3>2 DEF Sign
      <4>2. bars[last].high < open.entry + open.risk
          BY <1>1, <1>4, <1>5, <3>2, <4>1 DEF HitStop, Stop
      <4>3. bars[last].low > open.entry - reach
          BY <1>1, <1>4, <1>5, <2>1, <2>2, <3>2, <4>1 DEF HitTarget
      <4>4. Sign * (price - open.entry) = open.entry - price BY <1>1, <1>5, <4>1
      <4>5. -reach < price - open.entry /\ price - open.entry < open.risk
          BY <2>3, <4>2, <4>3, CloseInside, Zenon
      <4> QED BY <1>1, <1>5, <2>1, <4>4, <4>5
    <3> QED BY <3>1, <3>2
  <2> QED BY <1>6, <2>4 DEF reach
<1>13. Settled(t)
  <2>1. RewardRisk * t.risk \in Int /\ t.risk \in Int
    <3>1. RewardRisk * open.risk \in Int BY <1>1, TargetIsFar
    <3> QED BY <1>1, <1>6, <3>1
  <2>2. t.gain \in Int BY <1>1, <1>5, <1>6 DEF Sign
  <2>3. /\ -t.risk <= t.gain /\ t.gain <= RewardRisk * t.risk
        /\ t.worst >= t.risk <=> t.gain = -t.risk
      BY <1>1, <1>6, <1>12, <2>1, <2>2
  <2>4. t.idx < t.exit /\ t.exit <= Len(bars) /\ bars[t.idx].day = bars[t.exit].day
      BY <1>1, <1>3, <1>4, <1>6
  <2> QED BY <1>6, <1>10, <1>11, <2>3, <2>4 DEF Settled
<1> QED BY <1>3, <1>5, <1>13 DEF t, price, last


-----------------------------------------------------------------------------
\* No trade is held or booked.
LEMMA FillInitOK == FillInit => FillInv
<1> SUFFICES ASSUME FillInit PROVE FillInv OBVIOUS
<1>1. bars \in Seq(Bar) /\ Len(bars) \in Nat
    BY SeriesAssumption DEF FillInit
<1>2. FillTypeOK BY <1>1 DEF FillInit, FillTypeOK
<1>3. BookedInv BY DEF FillInit, BookedInv
<1>4. HeldInv BY DEF FillInit, HeldInv
<1> QED BY <1>2, <1>3, <1>4 DEF FillInit, FillInv

\* Nothing is being held: only the signal looked at, and the trade, change.
LEMMA SignalKeeps ==
    ASSUME FillInv, NEW i \in DOMAIN bars, SkipSignal(i) \/ OpenTrade(i)
    PROVE  FillInv'
<1>1. /\ bars \in Seq(Bar) /\ Len(bars) \in Nat /\ DOMAIN bars = 1..Len(bars)
      /\ freeFrom \in Nat \ {0}
    BY SeriesAssumption DEF FillInv, FillTypeOK
<1>2. UNCHANGED <<bars, dir, freeFrom, trades>> /\ looked' = i /\ open = NoTrade
    BY DEF SkipSignal, OpenTrade
<1>3. BookedInv'
  <2>1. ASSUME NEW k \in DOMAIN trades, NEW t \in Booked, trades[k] = t
        PROVE  Settled(t)'
    <3>1. Settled(t) BY <2>1 DEF FillInv, BookedInv
    <3> QED BY <1>2, <3>1, SettledStays
  <2> QED BY <1>2, <2>1 DEF FillInv, BookedInv
<1>4. CASE SkipSignal(i)
  <2>1. UNCHANGED <<open, at>> BY <1>4 DEF SkipSignal
  <2>2. FillTypeOK' BY <1>1, <1>2, <2>1 DEF FillInv, FillTypeOK
  <2>3. HeldInv' BY <1>2, <2>1 DEF HeldInv
  <2> QED BY <1>2, <1>3, <2>2, <2>3 DEF FillInv
<1>5. CASE OpenTrade(i)
  <2>1. PICK risk \in Atrs :
          /\ Usable(i, risk)
          /\ open' = [idx |-> i, entry |-> bars[i].close, risk |-> risk, worst |-> 0]
      BY <1>5 DEF OpenTrade
  <2>2. risk \in Nat \ {0} /\ i >= freeFrom /\ i + 1 <= Len(bars)
        /\ bars[i + 1].day = bars[i].day
      BY <2>1, AtrAssumption DEF Usable
  <2>3. at' = i + 1 /\ i \in Nat \ {0} BY <1>1, <1>5 DEF OpenTrade
  <2>4. bars[i].close \in Int BY <1>1, BarFacts DEF FillInv, Bar
  <2>5. open' \in Held BY <2>1, <2>2, <2>3, <2>4 DEF Held
  <2>6. FillTypeOK'
      BY <1>1, <1>2, <2>2, <2>3, <2>5 DEF FillInv, FillTypeOK
  <2>7. HeldInv'
    <3>1. open'.idx = i /\ open'.risk = risk /\ open'.worst = 0 BY <2>1
    <3>2. (open'.idx)..(at' - 1) = {i} /\ (open'.idx + 1)..(at' - 1) = {}
        BY <2>3, <3>1
    <3> QED BY <1>1, <1>2, <2>2, <2>3, <3>1, <3>2 DEF HeldInv
  <2> QED BY <1>2, <1>3, <2>6, <2>7 DEF FillInv
<1> QED BY <1>4, <1>5

\* A bar that touches no level: the trade is held on.
LEMMA HoldKeeps ==
    ASSUME FillInv, Hold
    PROVE  FillInv'
<1>1. /\ open # NoTrade /\ OnDay /\ at' = at + 1
      /\ open' = WithHeat(open, bars[at])
      /\ UNCHANGED <<bars, dir, looked, freeFrom, trades>>
      /\ ~HitStop(open, bars[at]) /\ ~HitTarget(open, bars[at])
    BY DEF Hold
<1>2. /\ open' \in Held /\ open'.idx = open.idx /\ open'.entry = open.entry
      /\ open'.risk = open.risk /\ ~(open'.worst >= open'.risk)
    BY <1>1, HeatFacts
<1>3. /\ Len(bars) \in Nat /\ DOMAIN bars = 1..Len(bars) /\ at \in 1..Len(bars)
      /\ open.idx \in 1..Len(bars) /\ open.idx < at /\ open.idx < Len(bars)
      /\ freeFrom <= open.idx /\ bars[at].day = bars[open.idx].day
    BY <1>1, HeldFacts DEF OnDay, FillInv, HeldInv
<1>4. BookedInv'
  <2>1. ASSUME NEW k \in DOMAIN trades, NEW t \in Booked, trades[k] = t
        PROVE  Settled(t)'
    <3>1. Settled(t) BY <2>1 DEF FillInv, BookedInv
    <3> QED BY <1>1, <3>1, SettledStays
  <2> QED BY <1>1, <2>1 DEF FillInv, BookedInv
<1>5. FillTypeOK' BY <1>1, <1>2, <1>3 DEF FillInv, FillTypeOK
<1>6. HeldInv'
  <2>1. open'.worst < open'.risk BY <1>2 DEF Held
  <2>2. \A k : /\ HitStop(open, bars[k])' <=> HitStop(open, bars[k])
               /\ HitTarget(open, bars[k])' <=> HitTarget(open, bars[k])
      BY <1>1, <1>2 DEF HitStop, HitTarget, Stop, Target, Sign
  <2>3. \A k \in (open.idx + 1)..at : ~HitStop(open, bars[k]) /\ ~HitTarget(open, bars[k])
    <3>1. \A k \in (open.idx + 1)..(at - 1) :
            ~HitStop(open, bars[k]) /\ ~HitTarget(open, bars[k])
        BY <1>1 DEF FillInv, HeldInv
    <3>2. \A k \in (open.idx + 1)..at : k = at \/ k \in (open.idx + 1)..(at - 1)
        BY <1>3
    <3> QED BY <1>1, <3>1, <3>2
  <2>4. \A k \in open.idx..at : bars[k].day = bars[open.idx].day
    <3>1. \A k \in open.idx..(at - 1) : bars[k].day = bars[open.idx].day
        BY <1>1 DEF FillInv, HeldInv
    <3>2. \A k \in open.idx..at : k = at \/ k \in open.idx..(at - 1) BY <1>3
    <3> QED BY <1>3, <3>1, <3>2
  <2>5. at' - 1 = at /\ at' # open'.idx + 1 BY <1>1, <1>2, <1>3
  <2>6. open'.idx < at' /\ open'.idx < Len(bars)' /\ freeFrom' <= open'.idx
      BY <1>1, <1>2, <1>3
  <2>7. \A k \in (open'.idx + 1)..(at' - 1) :
          ~HitStop(open, bars[k])' /\ ~HitTarget(open, bars[k])'
      BY <1>2, <2>2, <2>3, <2>5
  <2>8. \A k \in (open'.idx)..(at' - 1) : bars'[k].day = bars'[open'.idx].day
      BY <1>1, <1>2, <2>4, <2>5
  <2> QED BY <2>1, <2>5, <2>6, <2>7, <2>8 DEF HeldInv
<1> QED BY <1>1, <1>4, <1>5, <1>6 DEF FillInv

\* The three ways out.
LEMMA ExitKeeps ==
    ASSUME FillInv, StopOut \/ TakeProfit \/ SquareOff
    PROVE  FillInv'
<1>1. CASE StopOut \/ TakeProfit
  <2> DEFINE h == WithHeat(open, bars[at])
             price == IF HitStop(open, bars[at]) THEN Stop(open) ELSE Target(open)
  <2>1. /\ open # NoTrade /\ OnDay
        /\ HitStop(open, bars[at]) \/ HitTarget(open, bars[at])
        /\ Book(h, at, price)
      BY <1>1 DEF StopOut, TakeProfit
  <2>2. h \in Held /\ h.idx = open.idx BY <2>1, HeatFacts
  <2>3. /\ at \in (open.idx + 1)..Len(bars) /\ open.entry \in Int
        /\ open.risk \in Nat \ {0}
      BY <2>1, HeldFacts DEF OnDay, FillInv, HeldInv
  <2>4. price \in Int
    <3>1. RewardRisk * open.risk \in Int BY <2>3, TargetIsFar
    <3>2. Sign \in {1, -1} BY DEF Sign
    <3>3. Sign * (RewardRisk * open.risk) \in Int /\ Sign * open.risk \in Int
        BY <2>3, <3>1, <3>2
    <3> QED BY <2>3, <3>3 DEF Stop, Target
  <2>5. Settled(Outcome(h, at, price)) BY <2>1, <2>4, Decided
  <2> HIDE DEF h, price
  <2> QED BY <2>1, <2>2, <2>3, <2>4, <2>5, BookKeeps
<1>2. CASE SquareOff
  <2>1. open # NoTrade /\ ~OnDay /\ Book(open, at - 1, bars[at - 1].close)
      BY <1>2 DEF SquareOff
  <2>2. open \in Held BY <2>1, HeldFacts
  <2>3. /\ at - 1 \in (open.idx + 1)..Len(bars) /\ bars[at - 1].close \in Int
        /\ Settled(Outcome(open, at - 1, bars[at - 1].close))
      BY <2>1, Undecided
  <2> QED BY <2>1, <2>2, <2>3, BookKeeps
<1> QED BY <1>1, <1>2

\* One step of the walk.
LEMMA FillNextOK == FillInv /\ [FillNext]_fillVars => FillInv'
<1> SUFFICES ASSUME FillInv, [FillNext]_fillVars PROVE FillInv' OBVIOUS
<1>1. CASE \E i \in DOMAIN bars : SkipSignal(i) \/ OpenTrade(i)
    BY <1>1, SignalKeeps
<1>2. CASE StopOut \/ TakeProfit \/ SquareOff BY <1>2, ExitKeeps
<1>3. CASE Hold BY <1>3, HoldKeeps
<1>4. CASE UNCHANGED fillVars
  <2>1. UNCHANGED <<bars, dir, looked, freeFrom, open, at, trades>>
      BY <1>4 DEF fillVars
  <2>2. BookedInv'
    <3>1. ASSUME NEW k \in DOMAIN trades, NEW t \in Booked, trades[k] = t
          PROVE  Settled(t)'
      <4>1. Settled(t) BY <3>1 DEF FillInv, BookedInv
      <4> QED BY <2>1, <4>1, SettledStays
    <3> QED BY <2>1, <3>1 DEF FillInv, BookedInv
  <2>3. FillTypeOK' BY <2>1 DEF FillInv, FillTypeOK
  <2>4. HeldInv'
      BY <2>1 DEF FillInv, HeldInv, HitStop, HitTarget, Stop, Target, Sign
  <2> QED BY <2>1, <2>2, <2>3, <2>4 DEF FillInv
<1> QED BY <1>1, <1>2, <1>3, <1>4 DEF FillNext

\* The invariant of the fills holds in every reachable state.
LEMMA FillInvariant == FillSpec => []FillInv
BY FillInitOK, FillNextOK, PTL DEF FillSpec

\* What it says of every booked trade are the properties.
LEMMA BookedProperties ==
    FillInv => FillTypeOK /\ OneTradeAtATime /\ StopsAreHonest /\ FirstTouchDecides
<1> SUFFICES ASSUME FillInv
             PROVE  FillTypeOK /\ OneTradeAtATime /\ StopsAreHonest /\ FirstTouchDecides
    OBVIOUS
<1>1. trades \in Seq(Booked) /\ FillTypeOK BY DEF FillInv, FillTypeOK
<1>2. \A k \in DOMAIN trades : Settled(trades[k])
  <2>1. \A k \in DOMAIN trades : trades[k] \in Booked BY <1>1
  <2> QED BY <2>1 DEF FillInv, BookedInv
<1>3. OneTradeAtATime BY <1>2 DEF FillInv, BookedInv, Settled, OneTradeAtATime
<1>4. StopsAreHonest BY <1>2 DEF Settled, StopsAreHonest
<1>5. FirstTouchDecides BY <1>2 DEF Settled, FirstTouchDecides
<1> QED BY <1>1, <1>3, <1>4, <1>5

\* Every variable of the walk stays in its type.
THEOREM FillTypeCorrect == FillSpec => []FillTypeOK
BY FillInvariant, BookedProperties, PTL

\* No two trades of a direction overlap and none is held over night, whatever
\* the bars, the signals and the risk are.
THEOREM OneAtATime == FillSpec => []OneTradeAtATime
BY FillInvariant, BookedProperties, PTL

\* A trade is booked as stopped exactly when its heat reached the stop, so a
\* bar that spans both levels is never counted as won.
THEOREM StopsStayHonest == FillSpec => []StopsAreHonest
BY FillInvariant, BookedProperties, PTL

\* The walk computes what the whole day says: the first touch decides.
THEOREM FirstTouch == FillSpec => []FirstTouchDecides
BY FillInvariant, BookedProperties, PTL

-----------------------------------------------------------------------------
\* The filter of the finder is the filter FoldFacts speaks of.
LEMMA FilterIs == \A s, S : Filter(s, S) = Facts!Filter(s, S)
  BY DEF Filter, Facts!Filter

-----------------------------------------------------------------------------
\* What the score promises, whatever the penalties: it is none without trades or
\* edge and a percentage otherwise, and beyond LowBand only with MinSample trades
\* and a Sharpe ratio that beats luck.
LEMMA ScoreMeans ==
    ASSUME NEW i, i.n \in Nat, i.exp \in Int, i.t12 \in Int, NEW x, x = ConfidenceOf(i)
    PROVE  /\ i.n < ProvisionalMin \/ i.exp <= 0 => x = NoScore
           /\ i.n >= ProvisionalMin /\ i.exp > 0 => x \in 0..95
           /\ x # NoScore /\ x > LowBand => i.n >= MinSample /\ i.exp > 0 /\ i.dsrOk
  <1>. SUFFICES ASSUME NEW p, p = Penalties(i), NEW a, a = Adjusted(i),
                       NEW c, c = Capped(i)
                PROVE  /\ i.n < ProvisionalMin \/ i.exp <= 0 => x = NoScore
                       /\ i.n >= ProvisionalMin /\ i.exp > 0 => x \in 0..95
                       /\ x # NoScore /\ x > LowBand => i.n >= MinSample /\ i.exp > 0 /\ i.dsrOk
    OBVIOUS
  <1>1. p \in Int
    <2>1. /\ DrawdownPoints(i) \in Int /\ RecentPoints(i) \in Int
          /\ FactorPoints(i) \in Int /\ StreakPoints(i) \in Int /\ FoldPoints(i) \in Int
          /\ RobustPoints(i) \in Int /\ RegimePoints(i) \in Int
      BY DEF DrawdownPoints, RecentPoints, FactorPoints, StreakPoints, FoldPoints,
             RobustPoints, RegimePoints, Step
    <2>2. OosPoints(i) \in Int
      BY DEF OosPoints, Step
    <2>. QED BY <2>1, <2>2 DEF Penalties
  <1>2. a \in 0..95
    <2>1. Clamped(i.t12, 0, 45) \in Int
      BY DEF Clamped
    <2>2. a = Clamped(50 + Clamped(i.t12, 0, 45) - p, 0, 95)
      BY DEF Adjusted
    <2>. HIDE DEF Clamped
    <2>3. \A y \in Int : Clamped(y, 0, 95) \in 0..95
      BY DEF Clamped
    <2>. QED BY <1>1, <2>1, <2>2, <2>3
  <1>3. c \in 0..95
    BY <1>2 DEF Capped, HardCap
  <1>. QED BY <1>3 DEF ConfidenceOf, AtMostOf, ProvisionalMin, ProvisionalCap, MinSample, LowBand

\* The fields that the passes fill leave the rest of the figures alone.
LEMMA FilledIn ==
    ASSUME NEW stats, {"n", "exp", "t12", "dsrOk", "robust", "regime"} \subseteq DOMAIN stats,
           stats.n \in Nat, stats.exp \in Int, stats.t12 \in Int,
           NEW ok \in BOOLEAN, NEW i, i = [stats EXCEPT !.dsrOk = ok]
    PROVE  i.dsrOk = ok /\ i.n = stats.n /\ i.exp = stats.exp /\ i.t12 = stats.t12
  OBVIOUS

\* The scores of a configuration in the light search and in the deep dive.
LEMMA LightScoreMeans ==
    ASSUME NEW c \in Configs, NEW x, x = LightScore(c)
    PROVE  /\ c.stats.n >= ProvisionalMin /\ c.stats.exp > 0 => x \in 0..95
           /\ x = NoScore \/ x \in 0..95
           /\ x # NoScore /\ x > LowBand => Genuine(c, Trials(Light))
  <1>1. /\ c.stats.n \in Nat /\ c.stats.exp \in Int /\ c.stats.t12 \in Int
        /\ {"n", "exp", "t12", "dsrOk", "robust", "regime"} \subseteq DOMAIN c.stats
    BY ConfigAssumption
  <1>2. PassesDsr(c, Trials(Light)) \in BOOLEAN
    BY DEF PassesDsr
  <1>3. PICK ok \in BOOLEAN : ok = PassesDsr(c, Trials(Light))
    BY <1>2
  <1>4. LightInput(c) = [c.stats EXCEPT !.dsrOk = ok]
    BY <1>3, Zenon DEF LightInput
  <1>. SUFFICES ASSUME NEW i, i = LightInput(c)
                PROVE  /\ c.stats.n >= ProvisionalMin /\ c.stats.exp > 0 => x \in 0..95
                       /\ x = NoScore \/ x \in 0..95
                       /\ x # NoScore /\ x > LowBand => Genuine(c, Trials(Light))
    OBVIOUS
  <1>5. i.dsrOk = ok /\ i.n = c.stats.n /\ i.exp = c.stats.exp /\ i.t12 = c.stats.t12
    BY <1>1, <1>4, FilledIn
  <1>6. x = ConfidenceOf(i)
    BY DEF LightScore
  <1>7. /\ i.n < ProvisionalMin \/ i.exp <= 0 => x = NoScore
        /\ i.n >= ProvisionalMin /\ i.exp > 0 => x \in 0..95
        /\ x # NoScore /\ x > LowBand => i.n >= MinSample /\ i.exp > 0 /\ i.dsrOk
    BY <1>1, <1>5, <1>6, ScoreMeans
  <1>. QED BY <1>1, <1>3, <1>5, <1>7 DEF Genuine, ProvisionalMin

\* The same of the deep dive, whose trials are the configurations it tried.
LEMMA DeepScoreMeans ==
    ASSUME NEW k, tried[k] \in Configs, NEW x, x = DeepScore(k)
    PROVE  /\ x = NoScore \/ x \in 0..95
           /\ x # NoScore => tried[k].stats.exp > 0
           /\ tried[k].stats.n >= ProvisionalMin /\ tried[k].stats.exp > 0 => x \in 0..95
           /\ x # NoScore /\ x > LowBand => Genuine(tried[k], Trials(tried))
  <1>. DEFINE c == tried[k]
              robust == PositiveShare(Cardinality(Positive(Neighbours(k))),
                                      Cardinality(Neighbours(k)))
  <1>1. /\ c.stats.n \in Nat /\ c.stats.exp \in Int /\ c.stats.t12 \in Int
        /\ {"n", "exp", "t12", "dsrOk", "robust", "regime"} \subseteq DOMAIN c.stats
    BY ConfigAssumption
  <1>2. PassesDsr(c, Trials(tried)) \in BOOLEAN
    BY DEF PassesDsr
  <1>3. PICK ok \in BOOLEAN : ok = PassesDsr(c, Trials(tried))
    BY <1>2
  <1>4. DeepInput(k) = [c.stats EXCEPT !.dsrOk = ok, !.robust = robust, !.regime = c.regime]
    BY <1>3, Zenon DEF DeepInput
  <1>. SUFFICES ASSUME NEW i, i = DeepInput(k)
                PROVE  /\ x = NoScore \/ x \in 0..95
                       /\ x # NoScore => c.stats.exp > 0
                       /\ c.stats.n >= ProvisionalMin /\ c.stats.exp > 0 => x \in 0..95
                       /\ x # NoScore /\ x > LowBand => Genuine(c, Trials(tried))
    OBVIOUS
  <1>. HIDE DEF c, robust
  <1>5. i.dsrOk = ok /\ i.n = c.stats.n /\ i.exp = c.stats.exp /\ i.t12 = c.stats.t12
    BY <1>1, <1>4
  <1>6. x = ConfidenceOf(i)
    BY DEF DeepScore
  <1>7. /\ i.n < ProvisionalMin \/ i.exp <= 0 => x = NoScore
        /\ i.n >= ProvisionalMin /\ i.exp > 0 => x \in 0..95
        /\ x # NoScore /\ x > LowBand => i.n >= MinSample /\ i.exp > 0 /\ i.dsrOk
    BY <1>1, <1>5, <1>6, ScoreMeans
  <1>. QED BY <1>1, <1>3, <1>5, <1>7 DEF Genuine, ProvisionalMin

\* A block's card: when the strategy has a candidate, there is a best one, and it
\* ranks above every other.
LEMMA BestExists ==
    ASSUME tried \in Seq(Configs), NEW s, GroupOf(s) # {}
    PROVE  BestOf(GroupOf(s)) \in GroupOf(s)
           /\ \A a \in GroupOf(s) : RanksBelow(a, BestOf(GroupOf(s)))
  <1>. DEFINE n == Len(tried)
              Key(k) == IF DeepScore(k) = NoScore THEN -1 ELSE DeepScore(k)
              R == {p \in (1..n) \X (1..n) : RanksBelow(p[1], p[2])}
  <1>1. n \in Nat /\ DOMAIN tried = 1..n
    BY LenProperties
  <1>2. \A k \in 1..n : tried[k] \in Configs
    BY ElementOfSeq
  <1>3. ASSUME NEW k \in 1..n PROVE Key(k) \in Int /\ tried[k].stats.exp \in Int
    <2>1. PICK x : x = DeepScore(k)
      OBVIOUS
    <2>2. x = NoScore \/ x \in 0..95
      BY <1>2, <2>1, DeepScoreMeans
    <2>. QED BY <1>2, <2>1, <2>2, ConfigAssumption
  <1>4. \A a, b : RanksBelow(a, b) <=>
            \/ Key(a) < Key(b)
            \/ Key(a) = Key(b) /\ tried[a].stats.exp < tried[b].stats.exp
            \/ Key(a) = Key(b) /\ tried[a].stats.exp = tried[b].stats.exp /\ a <= b
    BY DEF RanksBelow
  <1>. HIDE DEF Key
  <1>5. \A a, b \in 1..n : RanksBelow(a, b) \/ RanksBelow(b, a)
    BY <1>3, <1>4
  <1>6. \A a, b, c \in 1..n : RanksBelow(a, b) /\ RanksBelow(b, c) => RanksBelow(a, c)
    BY <1>3, <1>4
  <1>7. \A a, b \in 1..n : <<a, b>> \in R <=> RanksBelow(a, b)
    OBVIOUS
  <1>8. GroupOf(s) \subseteq 1..n
    BY <1>1 DEF GroupOf
  <1>. HIDE DEF n, R
  <1>9. \A a, b \in 1..n : <<a, b>> \in R \/ <<b, a>> \in R
    BY <1>5, <1>7
  <1>10. \A a, b, c \in 1..n : <<a, b>> \in R /\ <<b, c>> \in R => <<a, c>> \in R
    BY <1>6, <1>7
  <1>11. \E b \in GroupOf(s) : \A a \in GroupOf(s) : <<a, b>> \in R
    <2>1. PICK group : group = GroupOf(s)
      OBVIOUS
    <2>2. group \subseteq 1..n /\ group # {} /\ n \in Nat
      BY <1>1, <1>8, <2>1
    <2>3. \E b \in group : \A a \in group : <<a, b>> \in R
      <3>1. Facts!Orders(R, n)
        BY <1>9, <1>10 DEF Facts!Orders
      <3>. QED BY ONLY <3>1, <2>2, Facts!GreatestBy
    <2>. QED BY <2>1, <2>3
  <1>12. \E b \in GroupOf(s) : \A a \in GroupOf(s) : RanksBelow(a, b)
    BY <1>7, <1>8, <1>11
  <1>. QED BY <1>12 DEF BestOf

\* What a block that claims an edge shows: a card with one, and a genuine one if its
\* verdict is to watch or to shortlist.
LEMMA BlockShows ==
    ASSUME tried \in Seq(Configs), NEW s, NEW block, block = Block(s)
    PROVE  /\ block.verdict # "no_edge" => tried[block.best].stats.exp > 0
           /\ block.verdict \in {"watch", "shortlist"}
                => Genuine(tried[block.best], Trials(tried))
  <1>1. CASE Positive(GroupOf(s)) = {}
    <2>1. block.verdict = "no_edge"
      BY <1>1 DEF Block
    <2>. QED BY <2>1
  <1>2. CASE Positive(GroupOf(s)) # {}
    <2>1. PICK pick : pick = BestOf(GroupOf(s))
      OBVIOUS
    <2>2. PICK score : score = DeepScore(pick)
      OBVIOUS
    <2>3. block.verdict = Verdict(score) /\ block.best = pick
      BY <1>2, <2>1, <2>2 DEF Block
    <2>4. PICK k \in GroupOf(s) : tried[k].stats.exp > 0
      BY <1>2 DEF Positive
    <2>5. pick \in GroupOf(s) /\ RanksBelow(k, pick)
      BY <2>1, <2>4, BestExists
    <2>6. \A j \in GroupOf(s) : tried[j] \in Configs /\ tried[j].stats.n >= ProvisionalMin
      BY LenProperties, ElementOfSeq DEF GroupOf
    <2>7. PICK own : own = DeepScore(k)
      OBVIOUS
    <2>8. own \in 0..95
      BY <2>4, <2>6, <2>7, DeepScoreMeans
    <2>9. /\ score = NoScore \/ score \in 0..95
          /\ score # NoScore => tried[pick].stats.exp > 0
          /\ score # NoScore /\ score > LowBand => Genuine(tried[pick], Trials(tried))
      BY <2>2, <2>5, <2>6, DeepScoreMeans
    <2>10. score # NoScore
      <3>. DEFINE Key(j) == IF DeepScore(j) = NoScore THEN -1 ELSE DeepScore(j)
      <3>1. Key(k) < Key(pick) \/ Key(k) = Key(pick)
        BY <2>5 DEF RanksBelow
      <3>2. Key(k) = own
        BY <2>7, <2>8, NoScoreAssumption
      <3>3. score = NoScore => Key(pick) = -1
        BY <2>2
      <3>. HIDE DEF Key
      <3>. QED BY <2>8, <3>1, <3>2, <3>3
    <2>11. score \in 0..95
      BY <2>9, <2>10
    <2>12. block.verdict \in {"watch", "shortlist"} => score > LowBand
      BY ONLY <2>3, <2>11 DEF Verdict, LowBand
    <2>. QED BY <2>3, <2>9, <2>10, <2>12
  <1>. QED BY <1>1, <1>2

-----------------------------------------------------------------------------
\* The candidates of a search are configurations with enough trades.
LEMMA CandidatesAre ==
    ASSUME tried \in Seq(Configs)
    PROVE  /\ Candidates(Light) \in Seq(Configs)
           /\ Len(Candidates(Light)) \in Nat
           /\ \A k \in 1..Len(Candidates(Light)) : Candidates(Light)[k] \in Configs
  <1>1. Light \in Seq(Configs \cap {c \in Configs : c.tf \in LightTfs})
    BY FilterIs, Facts!FilterElements DEF Light
  <1>2. Light \in Seq(Configs)
    BY <1>1, SeqDef
  <1>3. Candidates(Light) \in Seq(Configs \cap {c \in Configs : c.stats.n >= ProvisionalMin})
    BY <1>2, FilterIs, Facts!FilterElements DEF Candidates
  <1>4. Candidates(Light) \in Seq(Configs)
    BY <1>3, SeqDef
  <1>. QED BY <1>4, LenProperties, ElementOfSeq

\* A pick is empty or a scored configuration.
PickOK(pick) ==
    \/ pick.score = NoScore
    \/ pick.config \in Configs /\ pick.score = LightScore(pick.config)

\* A pick that c does not beat.
Holds(pick, c) ==
    /\ pick.score # NoScore
    /\ \/ pick.score > LightScore(c)
       \/ pick.score = LightScore(c) /\ pick.config.stats.exp >= c.stats.exp

\* Candidates of a pick's side (or of either) that clear the gate.
Contends(p, c) == p \in {Side(c), "FIT"} /\ LightScore(c) # NoScore /\ LightScore(c) >= Gate

\* The picks are the best of the candidates looked at so far.
FindIInv ==
    /\ tried \in Seq(Configs)
    /\ DOMAIN picked = Picks
    /\ \A p \in Picks : PickOK(picked[p])
    /\ next \in 1..Len(Candidates(Light)) + 1 \/ pass = "collect"
    /\ pass = "collect" => next = 1
    /\ \A k \in 1..next - 1, p \in Picks :
          Contends(p, Candidates(Light)[k]) => Holds(picked[p], Candidates(Light)[k])
    /\ pass = "done" => next = Len(Candidates(Light)) + 1
    /\ pass = "collect" => \A p \in Picks : picked[p].score = NoScore

\* One look: the pick stays well formed, holds against the candidate and gives up
\* nothing that it held against.
LEMMA KeptHolds ==
    ASSUME NEW pick, PickOK(pick), NEW c \in Configs, NEW new, new = Kept(pick, c)
    PROVE  /\ PickOK(new)
           /\ LightScore(c) # NoScore /\ LightScore(c) >= Gate => Holds(new, c)
           /\ \A d \in Configs : LightScore(d) # NoScore /\ Holds(pick, d) => Holds(new, d)
  <1>. SUFFICES ASSUME NEW x, x = LightScore(c)
                PROVE  /\ PickOK(new)
                       /\ x # NoScore /\ x >= Gate => Holds(new, c)
                       /\ \A d \in Configs : LightScore(d) # NoScore /\ Holds(pick, d) => Holds(new, d)
    OBVIOUS
  <1>1. \A d \in Configs : LightScore(d) = NoScore \/ LightScore(d) \in 0..95
    <2>. SUFFICES ASSUME NEW d \in Configs, NEW y, y = LightScore(d)
                  PROVE  y = NoScore \/ y \in 0..95
      OBVIOUS
    <2>. QED BY LightScoreMeans
  <1>2. \A d \in Configs : d.stats.exp \in Int
    BY ConfigAssumption
  <1>3. \/ pick.score = NoScore
        \/ pick.config \in Configs /\ pick.score \in 0..95 /\ pick.config.stats.exp \in Int
    BY <1>1, <1>2 DEF PickOK
  <1>4. CASE x # NoScore /\ x >= Gate /\ Beats(c, pick)
    <2>1. new.score = x /\ new.config = c
      BY <1>4 DEF Kept
    <2>2. x \in 0..95
      BY <1>1, <1>4
    <2>3. PickOK(new) /\ Holds(new, c)
      BY <1>2, <1>4, <2>1, <2>2 DEF PickOK, Holds
    <2>4. ASSUME NEW d \in Configs, LightScore(d) # NoScore, Holds(pick, d)
          PROVE  Holds(new, d)
      <3>1. LightScore(d) \in Int
        BY <1>1, <2>4
      <3>. QED BY <1>2, <1>3, <1>4, <2>1, <2>2, <2>4, <3>1 DEF Holds, Beats
    <2>. QED BY <2>3, <2>4
  <1>5. CASE ~(x # NoScore /\ x >= Gate /\ Beats(c, pick))
    <2>1. new = pick
      BY <1>5, Zenon DEF Kept
    <2>2. x # NoScore /\ x >= Gate => Holds(pick, c)
      <3>. SUFFICES ASSUME x # NoScore, x >= Gate PROVE Holds(pick, c)
        OBVIOUS
      <3>1. ~Beats(c, pick)
        BY <1>5
      <3>2. x \in 0..95 /\ pick.score # NoScore
        BY <1>1, <3>1 DEF Beats
      <3>. QED BY <1>2, <1>3, <3>1, <3>2 DEF Beats, Holds
    <2>. QED BY <2>1, <2>2
  <1>. QED BY <1>4, <1>5

\* Nothing looked at, nothing picked.
LEMMA FindInitOK == FindInit => FindIInv
  BY DEF FindInit, FindIInv, Nothing, PickOK

\* Collecting, and each look at a candidate, leaves each pick the best of those looked at.
LEMMA FindNextOK == FindIInv /\ [FindNext]_findVars => FindIInv'
  <1>. SUFFICES ASSUME FindIInv, [FindNext]_findVars PROVE FindIInv'
    OBVIOUS
  <1>. DEFINE cands == Candidates(Light)
  <1>1. CASE Collect
    <2>1. tried' \in Seq(Configs)
      BY <1>1, AppendProperties DEF Collect, FindIInv
    <2>2. pass' = "collect" /\ next' = 1 /\ picked' = picked
      BY <1>1 DEF Collect, FindIInv
    <2>3. \A p \in Picks : picked[p].score = NoScore
      BY <1>1 DEF Collect, FindIInv
    <2>4. 1..next' - 1 = {}
      BY <2>2
    <2>. QED BY <2>1, <2>2, <2>3, <2>4 DEF FindIInv, PickOK
  <1>2. ASSUME tried' = tried
        PROVE  /\ cands' = cands
               /\ \A c : LightScore(c)' = LightScore(c)
    BY <1>2 DEF Candidates, Light, LightScore, LightInput
  <1>3. tried \in Seq(Configs) /\ cands \in Seq(Configs) /\ Len(cands) \in Nat
        /\ \A k \in 1..Len(cands) : cands[k] \in Configs
    BY CandidatesAre DEF FindIInv
  <1>4. ASSUME tried' = tried, picked' = picked
        PROVE  /\ \A p \in Picks : PickOK(picked[p])'
               /\ \A c, p : Contends(p, c)' <=> Contends(p, c)
               /\ \A c, p : Holds(picked[p], c)' <=> Holds(picked[p], c)
    BY <1>2, <1>4 DEF FindIInv, PickOK, Contends, Holds, Side
  <1>5. CASE CollectDone
    <2>1. /\ tried' = tried /\ next' = next /\ picked' = picked
          /\ pass = "collect" /\ pass' = "score" /\ next = 1
      BY <1>5 DEF CollectDone, FindIInv
    <2>2. 1..next' - 1 = {} /\ next' \in 1..Len(cands) + 1
      BY <1>3, <2>1
    <2>. QED BY <1>2, <1>3, <1>4, <2>1, <2>2 DEF FindIInv
  <1>6. CASE ScoreDone
    <2>1. /\ tried' = tried /\ next' = next /\ picked' = picked
          /\ pass = "score" /\ pass' = "done" /\ next \notin DOMAIN cands
      BY <1>6 DEF ScoreDone
    <2>2. next \in 1..Len(cands) + 1 /\ DOMAIN cands = 1..Len(cands)
      BY <1>3, <2>1, LenProperties DEF FindIInv
    <2>3. next = Len(cands) + 1
      BY <1>3, <2>1, <2>2
    <2>. QED BY <1>2, <1>3, <1>4, <2>1, <2>2, <2>3 DEF FindIInv
  <1>7. CASE UNCHANGED findVars
    <2>1. tried' = tried /\ next' = next /\ picked' = picked /\ pass' = pass
      BY <1>7 DEF findVars
    <2>. QED BY <1>2, <1>3, <1>4, <2>1 DEF FindIInv
  <1>8. CASE ScoreOne
    <2>1. /\ tried' = tried /\ next' = next + 1 /\ pass = "score" /\ pass' = "score"
          /\ next \in 1..Len(cands)
      BY <1>3, <1>8, LenProperties DEF ScoreOne
    <2>2. PICK c \in Configs : c = cands[next]
      BY <1>3, <2>1
    <2>3. picked' = [p \in Picks |-> IF p \in {Side(c), "FIT"} THEN Kept(picked[p], c)
                                     ELSE picked[p]]
      BY <1>8, <2>2 DEF ScoreOne
    <2>. HIDE DEF cands
    <2>4. ASSUME NEW p \in Picks
          PROVE  /\ PickOK(picked[p])'
                 /\ \A k \in 1..next : Contends(p, cands[k]) => Holds(picked'[p], cands[k])
      <3>1. PickOK(picked[p])
            /\ \A k \in 1..next - 1 : Contends(p, cands[k]) => Holds(picked[p], cands[k])
        BY DEF FindIInv, cands
      <3>2. \A k \in 1..next : k \in 1..next - 1 \/ k = next
        BY <2>1
      <3>3. \A k \in 1..next : cands[k] \in Configs
        BY <1>3, <2>1
      <3>4. \A b : PickOK(b)' <=> PickOK(b)
        BY <1>2, <2>1 DEF PickOK
      <3>5. CASE p \in {Side(c), "FIT"}
        <4>1. PICK new : new = picked'[p]
          OBVIOUS
        <4>2. new = Kept(picked[p], c)
          BY <2>3, <3>5, <4>1
        <4>3. /\ PickOK(new)
              /\ LightScore(c) # NoScore /\ LightScore(c) >= Gate => Holds(new, c)
              /\ \A d \in Configs :
                    LightScore(d) # NoScore /\ Holds(picked[p], d) => Holds(new, d)
          BY <3>1, <4>2, KeptHolds
        <4>4. PickOK(picked[p])'
          BY <1>2, <2>1, <4>1, <4>3 DEF PickOK
        <4>5. \A k \in 1..next : Contends(p, cands[k]) => Holds(new, cands[k])
          BY <2>2, <3>1, <3>2, <3>3, <4>3 DEF Contends
        <4>. QED BY <4>1, <4>4, <4>5
      <3>6. CASE p \notin {Side(c), "FIT"}
        <4>1. picked'[p] = picked[p]
          BY <2>3, <3>6
        <4>2. ~Contends(p, cands[next])
          BY <2>2, <3>6 DEF Contends
        <4>3. PickOK(picked[p])'
          BY <1>2, <2>1, <3>1, <4>1 DEF PickOK
        <4>. QED BY <3>1, <3>2, <4>1, <4>2, <4>3
      <3>. QED BY <3>5, <3>6
    <2>5. \A k \in 1..next' - 1, p \in Picks :
              Contends(p, cands[k])' => Holds(picked[p], cands[k])'
      <3>1. 1..next' - 1 = 1..next
        BY <2>1
      <3>2. /\ \A p, k : Contends(p, cands[k])' <=> Contends(p, cands[k])
            /\ \A p, k : Holds(picked[p], cands[k])' <=> Holds(picked'[p], cands[k])
        BY <1>2, <2>1 DEF Contends, Holds, Side
      <3>. QED BY <2>4, <3>1, <3>2
    <2>6. /\ (tried \in Seq(Configs))' /\ DOMAIN picked' = Picks
          /\ next' \in 1..Len(cands') + 1
      BY <1>2, <1>3, <2>1, <2>3
    <2>. QED BY <2>1, <2>4, <2>5, <2>6 DEF FindIInv, cands
  <1>. QED BY <1>1, <1>5, <1>6, <1>7, <1>8 DEF FindNext

\* The invariant of the search.
THEOREM FindInvariant == FindSpec => []FindIInv
  BY FindInitOK, FindNextOK, PTL DEF FindSpec

\* A score of 60 or more that a page shows is backed by 50 trades, a positive
\* expectancy and a Sharpe ratio that beats luck (gate_and_pick, fit_symbol and
\* build_strategy_block), for every set of configurations.
THEOREM ShownIsGenuine == FindSpec => []GatedEverywhere
  <1>1. FindIInv => GatedEverywhere
    <2>. SUFFICES ASSUME FindIInv PROVE GatedEverywhere
      OBVIOUS
    <2>1. ASSUME NEW p \in Picks, NEW x, x = picked[p].score, x # NoScore, x > LowBand
          PROVE  Genuine(picked[p].config, Trials(Light))
      <3>1. PICK c \in Configs : c = picked[p].config /\ x = LightScore(c)
        BY <2>1 DEF FindIInv, PickOK
      <3>. QED BY <2>1, <3>1, LightScoreMeans
    <2>2. ASSUME NEW s \in Strategies, NEW block, block = Block(s),
                 block.verdict \in {"watch", "shortlist"}
          PROVE  Genuine(tried[block.best], Trials(tried))
      BY <2>2, BlockShows DEF FindIInv
    <2>. QED BY <2>1, <2>2 DEF GatedEverywhere
  <1>. QED BY <1>1, FindInvariant, PTL

\* The scanner's and the finder's picks are the best of what clears the gate, and a
\* block that claims an edge shows one, for every set of configurations.
THEOREM PicksAreBest == FindSpec => []PicksTheBest
  <1>1. FindIInv => PicksTheBest
    <2>. SUFFICES ASSUME FindIInv, pass = "done" PROVE PicksTheBest
      BY DEF PicksTheBest
    <2>. DEFINE cands == Candidates(Light)
    <2>1. Len(cands) \in Nat /\ DOMAIN cands = 1..Len(cands) /\ next = Len(cands) + 1
      BY CandidatesAre, LenProperties DEF FindIInv
    <2>2. 1..next - 1 = DOMAIN cands
      BY <2>1
    <2>3. \A k \in DOMAIN cands, p \in Picks :
              Contends(p, cands[k]) => Holds(picked[p], cands[k])
      BY <2>2 DEF FindIInv
    <2>4. ASSUME NEW s \in Strategies, NEW block, block = Block(s), block.verdict # "no_edge"
          PROVE  tried[block.best].stats.exp > 0
      BY <2>4, BlockShows DEF FindIInv
    <2>. QED BY <2>3, <2>4 DEF PicksTheBest, Contends, Holds
  <1>. QED BY <1>1, FindInvariant, PTL

-----------------------------------------------------------------------------
\* The folds of the figures are those FoldFacts speaks of.
LEMMA SumFold == \A base, s : FoldLeft(+, base, s) = Adding!Folded(base, s)
  BY DEF Adding!Folded, Adding!FoldLeft, FoldLeft, Adding!MapThenFoldSet, MapThenFoldSet,
         Adding!Max, Max

\* The drawdown's pass, likewise.
LEMMA FallFold == \A base, s : FoldLeft(Fallen, base, s) = Falling!Folded(base, s)
  BY DEF Falling!Folded, Falling!FoldLeft, FoldLeft, Falling!MapThenFoldSet, MapThenFoldSet,
         Falling!Max, Max

\* The streak's pass, likewise.
LEMMA LoseFold == \A base, s : FoldLeft(Lost, base, s) = Losing!Folded(base, s)
  BY DEF Losing!Folded, Losing!FoldLeft, FoldLeft, Losing!MapThenFoldSet, MapThenFoldSet,
         Losing!Max, Max

\* A sum grows with its sequence.
LEMMA SumsUp ==
    /\ SumOf(<<>>) = 0
    /\ \A s \in Seq(Int), x \in Int : SumOf(Append(s, x)) = SumOf(s) + x
  <1>1. \A s \in Seq(Int), x \in Int : Adding!Folded(0, Append(s, x)) = Adding!Folded(0, s) + x
    BY Adding!FoldAppend
  <1>2. Adding!Folded(0, <<>>) = 0
    <2>1. <<>> \in Seq(Int)
      BY EmptySeq
    <2>. QED BY <2>1, Adding!FoldAppend
  <1>. QED BY <1>1, <1>2, SumFold DEF SumOf

\* It is a number.
LEMMA SumInt == \A s \in Seq(Int) : SumOf(s) \in Int
  <1>. DEFINE G == {s \in Seq(Int) : SumOf(s) \in Int}
  <1>1. <<>> \in G
    BY SumsUp, EmptySeq
  <1>2. \A s \in Seq(Int), x \in Int : s \in G => Append(s, x) \in G
    BY SumsUp, AppendProperties
  <1>3. Seq(Int) \subseteq G
    <2>. HIDE DEF G
    <2>. QED BY <1>1, <1>2, Facts!SeqInduct
  <1>. QED BY <1>3

\* The equity after k of the trades.
After(s, k) == SumOf(SubSeq(s, 1, k))

\* t is s, of n trades, with x after it.
Grown(s, n, x, t) ==
    /\ t \in Seq(Int) /\ Len(t) = n + 1
    /\ \A k \in 0..n : After(t, k) = After(s, k)
    /\ After(s, n) = SumOf(s) /\ After(t, n + 1) = SumOf(s) + x
    /\ \A k \in 0..n : After(s, k) \in Int

\* One trade more leaves the equity before it as it was.
LEMMA AfterAppend ==
    ASSUME NEW s \in Seq(Int), NEW x \in Int, NEW n \in Nat, n = Len(s),
           NEW t, t = Append(s, x)
    PROVE  Grown(s, n, x, t)
  <1>1. t \in Seq(Int) /\ Len(t) = n + 1 /\ \A i \in 1..n : t[i] = s[i]
    BY AppendProperties
  <1>2. ASSUME NEW k \in 0..n PROVE SubSeq(t, 1, k) = SubSeq(s, 1, k) /\ SubSeq(s, 1, k) \in Seq(Int)
    <2>1. (\A i \in 1..k : t[i] \in Int) /\ (\A i \in 1..k : s[i] \in Int)
      BY <1>1, ElementOfSeq
    <2>2. /\ SubSeq(t, 1, k) \in Seq(Int) /\ SubSeq(s, 1, k) \in Seq(Int)
          /\ Len(SubSeq(t, 1, k)) = k /\ Len(SubSeq(s, 1, k)) = k
          /\ \A i \in 1..k : SubSeq(t, 1, k)[i] = t[i]
          /\ \A i \in 1..k : SubSeq(s, 1, k)[i] = s[i]
      BY <2>1, SubSeqProperties
    <2>. QED BY <1>1, <2>2, SeqEqual
  <1>3. SubSeq(s, 1, n) = s /\ SubSeq(t, 1, n + 1) = t
    BY <1>1, SubSeqFull
  <1>4. \A k \in 0..n : After(t, k) = After(s, k)
    BY <1>2 DEF After
  <1>5. \A k \in 0..n : After(s, k) \in Int
    BY <1>2, SumInt DEF After
  <1>6. After(s, n) = SumOf(s) /\ After(t, n + 1) = SumOf(s) + x
    BY <1>3, SumsUp DEF After
  <1>. QED BY <1>1, <1>4, <1>5, <1>6 DEF Grown

-----------------------------------------------------------------------------
\* p is the highest equity, and w the deepest fall from a point to a later one.
Highest(s, p) ==
    /\ \E k \in 0..Len(s) : p = After(s, k)
    /\ \A k \in 0..Len(s) : After(s, k) <= p
Deepest(s, w) ==
    /\ \E i, j \in 0..Len(s) : i <= j /\ w = After(s, i) - After(s, j)
    /\ \A i, j \in 0..Len(s) : i <= j => After(s, i) - After(s, j) <= w

\* Before any trade.
Flat == [cum |-> 0, peak |-> 0, worst |-> 0]
\* What the pass over the equity holds after s.
Measured(s, d) ==
    /\ d = [cum |-> d.cum, peak |-> d.peak, worst |-> d.worst]
    /\ d.cum = SumOf(s) /\ Highest(s, d.peak) /\ Deepest(s, d.worst)

\* Nothing traded, nothing fallen.
LEMMA FlatMeasured == Measured(<<>>, Flat)
  <1>1. <<>> \in Seq(Int) /\ Len(<<>>) = 0 /\ SubSeq(<<>>, 1, 0) = <<>>
    BY EmptySeq, SubSeqEmpty
  <1>2. After(<<>>, 0) = 0
    BY <1>1, SumsUp DEF After
  <1>3. \A k \in 0..Len(<<>>) : k = 0
    BY <1>1
  <1>. QED BY <1>1, <1>2, <1>3, SumsUp DEF Measured, Flat, Highest, Deepest

\* One pass keeps both.
LEMMA FallMeasured ==
    ASSUME NEW s \in Seq(Int), NEW x \in Int, NEW d, Measured(s, d)
    PROVE  Measured(Append(s, x), Fallen(d, x))
  <1>1. PICK n \in Nat : n = Len(s)
    BY LenProperties
  <1>2. PICK t : t = Append(s, x)
    OBVIOUS
  <1>3. /\ t \in Seq(Int) /\ Len(t) = n + 1
        /\ \A k \in 0..n : After(t, k) = After(s, k)
        /\ After(s, n) = SumOf(s) /\ After(t, n + 1) = SumOf(s) + x
        /\ \A k \in 0..n : After(s, k) \in Int
    <2>1. Grown(s, n, x, t)
      BY <1>1, <1>2, AfterAppend
    <2>. QED BY <2>1 DEF Grown
  <1>4. PICK e : e = Fallen(d, x)
    OBVIOUS
  <1>5. PICK m \in 0..n : d.peak = After(s, m)
    BY <1>1 DEF Measured, Highest
  <1>6. \A k \in 0..n : After(s, k) <= d.peak
    BY <1>1 DEF Measured, Highest
  <1>7. PICK a \in 0..n, b \in 0..n : a <= b /\ d.worst = After(s, a) - After(s, b)
    BY <1>1 DEF Measured, Deepest
  <1>8. \A i, j \in 0..n : i <= j => After(s, i) - After(s, j) <= d.worst
    BY <1>1 DEF Measured, Deepest
  <1>9. d.peak \in Int /\ d.worst \in Int /\ d.cum = SumOf(s) /\ d.cum \in Int
    BY <1>3, <1>5, <1>7, SumInt DEF Measured
  <1>10. /\ e = [cum |-> e.cum, peak |-> e.peak, worst |-> e.worst]
         /\ e.cum = SumOf(s) + x
         /\ e.peak = LargerOf(d.peak, e.cum)
         /\ e.worst = LargerOf(d.worst, e.peak - e.cum)
    BY <1>4, <1>9 DEF Fallen
  <1>11. e.cum = SumOf(t) /\ e.cum = After(t, n + 1) /\ e.cum \in Int
    <2>1. SumOf(t) = SumOf(s) + x
      BY <1>2, SumsUp, Zenon
    <2>. QED BY <1>3, <1>9, <1>10, <2>1
  <1>12. Highest(t, e.peak)
    <2>1. \E k \in 0..(n + 1) : e.peak = After(t, k)
      <3>1. CASE d.peak < e.cum
        <4>1. e.peak = After(t, n + 1) /\ n + 1 \in 0..(n + 1)
          BY <1>10, <1>11, <3>1 DEF LargerOf
        <4>. QED BY <4>1
      <3>2. CASE ~(d.peak < e.cum)
        <4>1. e.peak = After(t, m) /\ m \in 0..(n + 1)
          BY <1>3, <1>5, <1>10, <3>2 DEF LargerOf
        <4>. QED BY <4>1
      <3>. QED BY <3>1, <3>2
    <2>2. ASSUME NEW k \in 0..(n + 1) PROVE After(t, k) <= e.peak
      <3>1. CASE k = n + 1
        BY <1>9, <1>10, <1>11, <3>1 DEF LargerOf
      <3>2. CASE k \in 0..n
        <4>1. After(t, k) <= d.peak /\ After(t, k) \in Int
          BY <1>3, <1>6, <3>2
        <4>. QED BY <1>9, <1>10, <1>11, <4>1 DEF LargerOf
      <3>. QED BY <3>1, <3>2
    <2>. QED BY <1>3, <2>1, <2>2 DEF Highest
  <1>13. Deepest(t, e.worst)
    <2>1. PICK p \in 0..(n + 1) : e.peak = After(t, p)
      BY <1>3, <1>12 DEF Highest
    <2>2. \A k \in 0..(n + 1) : After(t, k) <= e.peak /\ After(t, k) \in Int
      <3>1. \A k \in 0..(n + 1) : After(t, k) <= e.peak
        BY <1>3, <1>12 DEF Highest
      <3>2. \A k \in 0..(n + 1) : k \in 0..n \/ k = n + 1
        OBVIOUS
      <3>. QED BY <1>3, <1>11, <3>1, <3>2
    <2>3. e.peak \in Int
      BY <2>1, <2>2
    <2>4. \E i, j \in 0..(n + 1) : i <= j /\ e.worst = After(t, i) - After(t, j)
      <3>1. CASE d.worst < e.peak - e.cum
        <4>1. e.worst = After(t, p) - After(t, n + 1) /\ p <= n + 1 /\ n + 1 \in 0..(n + 1)
          BY <1>10, <1>11, <2>1, <3>1 DEF LargerOf
        <4>. QED BY <4>1
      <3>2. CASE ~(d.worst < e.peak - e.cum)
        <4>1. e.worst = After(t, a) - After(t, b) /\ a \in 0..(n + 1) /\ b \in 0..(n + 1)
          BY <1>3, <1>7, <1>10, <3>2 DEF LargerOf
        <4>. QED BY <1>7, <4>1
      <3>. QED BY <3>1, <3>2
    <2>5. ASSUME NEW i \in 0..(n + 1), NEW j \in 0..(n + 1), i <= j
          PROVE  After(t, i) - After(t, j) <= e.worst
      <3>1. CASE j = n + 1
        <4>1. After(t, i) - After(t, j) <= e.peak - e.cum
          <5>1. After(t, i) <= e.peak /\ After(t, i) \in Int /\ After(t, j) = e.cum
            BY <1>11, <2>2, <3>1
          <5>. QED BY <1>11, <2>3, <5>1
        <4>2. After(t, i) - After(t, j) \in Int /\ e.peak - e.cum \in Int
          BY <1>11, <2>2, <2>3
        <4>3. e.worst \in Int /\ e.peak - e.cum <= e.worst
          BY <1>9, <1>10, <4>2 DEF LargerOf
        <4>. QED BY <4>1, <4>2, <4>3
      <3>2. CASE j \in 0..n
        <4>1. i \in 0..n
          BY <2>5, <3>2
        <4>2. After(t, i) - After(t, j) <= d.worst
          BY <1>3, <1>8, <2>5, <3>2, <4>1
        <4>3. After(t, i) - After(t, j) \in Int /\ e.peak - e.cum \in Int
          BY <1>11, <2>2, <2>3
        <4>4. e.worst \in Int /\ d.worst <= e.worst
          BY <1>9, <1>10, <4>3 DEF LargerOf
        <4>. QED BY <1>9, <4>2, <4>3, <4>4
      <3>. QED BY <3>1, <3>2
    <2>. QED BY <1>3, <2>4, <2>5 DEF Deepest
  <1>. QED BY <1>2, <1>4, <1>10, <1>11, <1>12, <1>13 DEF Measured

\* So the one-pass drawdown is the deepest fall of the curve.
LEMMA DrawdownIs ==
    ASSUME NEW s \in Seq(Int)
    PROVE  Deepest(s, DrawdownOf(s))
  <1>. DEFINE D(r) == FoldLeft(Fallen, Flat, r)
              G == {r \in Seq(Int) : Measured(r, D(r))}
  <1>1. D(<<>>) = Flat /\ \A r \in Seq(Int), x \in Int : D(Append(r, x)) = Fallen(D(r), x)
    <2>1. <<>> \in Seq(Int)
      BY EmptySeq
    <2>2. Falling!Folded(Flat, <<>>) = Flat
      BY <2>1, Falling!FoldAppend
    <2>3. \A r \in Seq(Int), x \in Int :
            Falling!Folded(Flat, Append(r, x)) = Fallen(Falling!Folded(Flat, r), x)
      BY Falling!FoldAppend
    <2>. QED BY <2>2, <2>3, FallFold
  <1>2. <<>> \in G
    BY <1>1, FlatMeasured, EmptySeq
  <1>3. ASSUME NEW r \in Seq(Int), NEW x \in Int, r \in G PROVE Append(r, x) \in G
    BY <1>1, <1>3, FallMeasured, AppendProperties
  <1>4. Seq(Int) \subseteq G
    <2>. HIDE DEF G
    <2>. QED BY <1>2, <1>3, Facts!SeqInduct
  <1>. QED BY <1>4 DEF DrawdownOf, Measured, Flat

\* The last n of the first m trades, none with a gain.
Barren(s, m, n) == \A k \in 1..Len(s) : m - n < k /\ k <= m => s[k] <= 0
\* Somewhere in s, n such trades follow each other.
Stretch(s, n) == \E m \in n..Len(s) : Barren(s, m, n)

\* What the pass over the losses holds: the stretch that reaches the end, and the longest.
Streaked(s, d) ==
    /\ d = [run |-> d.run, longest |-> d.longest]
    /\ d.run \in 0..Len(s) /\ Barren(s, Len(s), d.run)
    /\ \A n \in 0..Len(s) : Barren(s, Len(s), n) => n <= d.run
    /\ d.longest \in 0..Len(s) /\ Stretch(s, d.longest)
    /\ \A n \in 0..Len(s) : Stretch(s, n) => n <= d.longest

\* Before any trade.
Fresh == [run |-> 0, longest |-> 0]

\* Nothing traded, no stretch.
LEMMA FreshStreaked == Streaked(<<>>, Fresh)
  <1>1. Len(<<>>) = 0
    BY EmptySeq
  <1>2. \A m, n \in Int : Barren(<<>>, m, n)
    BY <1>1 DEF Barren
  <1>3. 0 \in 0..Len(<<>>) /\ \A n \in 0..Len(<<>>) : n = 0
    BY <1>1
  <1>. QED BY <1>1, <1>2, <1>3 DEF Streaked, Fresh, Stretch

\* One trade more.
LEMMA BarrenAppend ==
    ASSUME NEW s \in Seq(Int), NEW x \in Int, NEW l \in Nat, l = Len(s),
           NEW t, t = Append(s, x), NEW n \in Nat
    PROVE  /\ \A m \in 0..l : Barren(t, m, n) <=> Barren(s, m, n)
           /\ Barren(t, l + 1, n) <=> n = 0 \/ (x <= 0 /\ Barren(s, l, n - 1))
  <1>1. Len(t) = l + 1 /\ t[l + 1] = x /\ \A k \in 1..l : t[k] = s[k]
    BY AppendProperties
  <1>2. ASSUME NEW m \in 0..l PROVE Barren(t, m, n) <=> Barren(s, m, n)
    BY <1>1, ElementOfSeq DEF Barren
  <1>3. Barren(t, l + 1, n) <=> n = 0 \/ (x <= 0 /\ Barren(s, l, n - 1))
    <2>1. CASE n = 0
      BY <1>1, <2>1 DEF Barren
    <2>2. ASSUME n # 0, Barren(t, l + 1, n) PROVE x <= 0 /\ Barren(s, l, n - 1)
      BY <1>1, <2>2 DEF Barren
    <2>3. ASSUME n # 0, x <= 0, Barren(s, l, n - 1) PROVE Barren(t, l + 1, n)
      BY <1>1, <2>3 DEF Barren
    <2>. QED BY <2>1, <2>2, <2>3
  <1>. QED BY <1>2, <1>3

\* One pass keeps it.
LEMMA LoseStreaked ==
    ASSUME NEW s \in Seq(Int), NEW x \in Int, NEW d, Streaked(s, d)
    PROVE  Streaked(Append(s, x), Lost(d, x))
  <1>1. PICK l \in Nat : l = Len(s)
    BY LenProperties
  <1>2. PICK t : t = Append(s, x)
    OBVIOUS
  <1>3. PICK e : e = Lost(d, x)
    OBVIOUS
  <1>4. Len(t) = l + 1
    BY <1>1, <1>2, AppendProperties
  <1>5. \A n \in Nat : \A m \in 0..l : Barren(t, m, n) <=> Barren(s, m, n)
    BY <1>1, <1>2, BarrenAppend
  <1>6. \A n \in Nat : Barren(t, l + 1, n) <=> n = 0 \/ (x <= 0 /\ Barren(s, l, n - 1))
    BY <1>1, <1>2, BarrenAppend
  <1>7. /\ d.run \in 0..l /\ Barren(s, l, d.run)
        /\ \A n \in 0..l : Barren(s, l, n) => n <= d.run
        /\ d.longest \in 0..l
        /\ \A n \in 0..l : Stretch(s, n) => n <= d.longest
    BY <1>1 DEF Streaked
  <1>8. PICK p \in (d.longest)..l : Barren(s, p, d.longest)
    BY <1>1 DEF Streaked, Stretch
  <1>9. /\ e = [run |-> e.run, longest |-> e.longest]
        /\ e.run = IF x <= 0 THEN d.run + 1 ELSE 0
        /\ e.longest = LargerOf(d.longest, e.run)
    BY <1>3 DEF Lost
  <1>10. e.run \in 0..(l + 1) /\ Barren(t, l + 1, e.run)
    <2>1. CASE x <= 0
      <3>1. e.run = d.run + 1 /\ e.run \in Nat /\ e.run - 1 = d.run /\ e.run \in 0..(l + 1)
        BY <1>7, <1>9, <2>1
      <3>. QED BY <1>6, <1>7, <2>1, <3>1
    <2>2. CASE ~(x <= 0)
      BY <1>6, <1>9, <2>2
    <2>. QED BY <2>1, <2>2
  <1>11. ASSUME NEW n \in 0..(l + 1), Barren(t, l + 1, n) PROVE n <= e.run
    <2>1. CASE n = 0
      BY <1>10, <2>1
    <2>2. CASE n # 0
      <3>1. x <= 0 /\ Barren(s, l, n - 1) /\ n - 1 \in 0..l
        BY <1>6, <1>11, <2>2
      <3>. QED BY <1>7, <1>9, <3>1
    <2>. QED BY <2>1, <2>2
  <1>12. e.longest \in 0..(l + 1) /\ Stretch(t, e.longest)
    <2>1. CASE d.longest < e.run
      <3>1. e.longest = e.run /\ l + 1 \in (e.longest)..(l + 1)
        BY <1>9, <1>10, <2>1 DEF LargerOf
      <3>. QED BY <1>4, <1>10, <3>1 DEF Stretch
    <2>2. CASE ~(d.longest < e.run)
      <3>1. e.longest = d.longest
        BY <1>9, <2>2 DEF LargerOf
      <3>2. e.longest \in Nat /\ e.longest \in 0..(l + 1) /\ p \in 0..l /\ p \in (e.longest)..(l + 1)
        BY <1>7, <1>8, <3>1
      <3>3. Barren(t, p, e.longest)
        BY <1>5, <1>8, <3>1, <3>2
      <3>. QED BY <1>4, <3>2, <3>3 DEF Stretch
    <2>. QED BY <2>1, <2>2
  <1>13. ASSUME NEW n \in 0..(l + 1), Stretch(t, n) PROVE n <= e.longest
    <2>0. d.longest <= e.longest /\ e.run <= e.longest /\ e.run \in Int /\ d.longest \in Int /\ e.longest \in Int
      BY <1>7, <1>9, <1>10 DEF LargerOf
    <2>1. PICK m \in n..(l + 1) : Barren(t, m, n)
      BY <1>4, <1>13 DEF Stretch
    <2>2. CASE m = l + 1
      <3>1. n <= e.run
        BY <1>11, <2>1, <2>2
      <3>. QED BY <2>0, <3>1
    <2>3. CASE m # l + 1
      <3>1. m \in 0..l /\ n \in 0..l /\ m \in n..l /\ n \in Nat
        BY <2>1, <2>3
      <3>2. Stretch(s, n)
        BY <1>1, <1>5, <2>1, <3>1 DEF Stretch
      <3>3. n <= d.longest
        BY <1>7, <3>1, <3>2
      <3>. QED BY <2>0, <3>3
    <2>. QED BY <2>2, <2>3
  <1>. QED BY <1>2, <1>3, <1>4, <1>9, <1>10, <1>11, <1>12, <1>13 DEF Streaked

\* So the one-pass streak is the longest stretch.
LEMMA StreakIs ==
    ASSUME NEW s \in Seq(Int)
    PROVE  /\ StreakOf(s) \in 0..Len(s) /\ Stretch(s, StreakOf(s))
           /\ \A n \in 0..Len(s) : Stretch(s, n) => n <= StreakOf(s)
  <1>. DEFINE D(r) == FoldLeft(Lost, Fresh, r)
              G == {r \in Seq(Int) : Streaked(r, D(r))}
  <1>1. D(<<>>) = Fresh /\ \A r \in Seq(Int), x \in Int : D(Append(r, x)) = Lost(D(r), x)
    <2>1. <<>> \in Seq(Int)
      BY EmptySeq
    <2>2. Losing!Folded(Fresh, <<>>) = Fresh
      BY <2>1, Losing!FoldAppend
    <2>3. \A r \in Seq(Int), x \in Int :
            Losing!Folded(Fresh, Append(r, x)) = Lost(Losing!Folded(Fresh, r), x)
      BY Losing!FoldAppend
    <2>. QED BY <2>2, <2>3, LoseFold
  <1>2. <<>> \in G
    BY <1>1, FreshStreaked, EmptySeq
  <1>3. ASSUME NEW r \in Seq(Int), NEW x \in Int, r \in G PROVE Append(r, x) \in G
    BY <1>1, <1>3, LoseStreaked, AppendProperties
  <1>4. Seq(Int) \subseteq G
    <2>. HIDE DEF G
    <2>. QED BY <1>2, <1>3, Facts!SeqInduct
  <1>. QED BY <1>4 DEF StreakOf, Streaked, Fresh

-----------------------------------------------------------------------------
\* What won and what lost make up the whole.
Wins == {r \in Int : r > 0}
Misses == {r \in Int : r <= 0}
Apart(s) ==
    /\ Filter(s, Wins) \in Seq(Int) /\ Filter(s, Misses) \in Seq(Int)
    /\ Len(s) = Len(Filter(s, Wins)) + Len(Filter(s, Misses))
    /\ SumOf(s) = SumOf(Filter(s, Wins)) + SumOf(Filter(s, Misses))

\* Every trade either won or did not.
LEMMA WinsAndMisses == \A s \in Seq(Int) : Apart(s)
  <1>. DEFINE G == {s \in Seq(Int) : Apart(s)}
  <1>0. \A s \in Seq(Int) : Filter(s, Wins) \in Seq(Int) /\ Filter(s, Misses) \in Seq(Int)
    <2>1. Int \cap Wins \subseteq Int /\ Int \cap Misses \subseteq Int
      OBVIOUS
    <2>2. \A s \in Seq(Int) : /\ Filter(s, Wins) \in Seq(Int \cap Wins)
                              /\ Filter(s, Misses) \in Seq(Int \cap Misses)
      BY FilterIs, Facts!FilterElements
    <2>3. \A A, B : A \subseteq B => Seq(A) \subseteq Seq(B)
      BY SeqDef
    <2>. QED BY <2>1, <2>2, <2>3
  <1>1. <<>> \in G
    <2>1. <<>> \in Seq(Int) /\ <<>> \in Seq({})
      BY EmptySeq
    <2>2. ASSUME NEW S PROVE Filter(<<>>, S) = <<>>
      <3>1. {} \cap S = {}
        OBVIOUS
      <3>2. Facts!Filter(<<>>, S) = <<>>
        BY <2>1, <3>1, Facts!FilterNone
      <3>. QED BY <3>2, FilterIs
    <2>3. Len(<<>>) = 0 /\ SumOf(<<>>) = 0
      BY SumsUp, EmptySeq
    <2>4. Filter(<<>>, Wins) = <<>> /\ Filter(<<>>, Misses) = <<>>
      BY <2>2
    <2>5. ASSUME NEW e, e = <<>> PROVE Apart(e)
      <3>1. e \in Seq(Int) /\ Len(e) = 0 /\ SumOf(e) = 0
        BY <2>1, <2>3, <2>5
      <3>2. Filter(e, Wins) = e /\ Filter(e, Misses) = e
        BY <2>4, <2>5
      <3>. QED BY ONLY <3>1, <3>2 DEF Apart
    <2>. QED BY <2>1, <2>5
  <1>2. ASSUME NEW s \in Seq(Int), NEW x \in Int, s \in G PROVE Append(s, x) \in G
    <2>1. PICK t : t = Append(s, x)
      OBVIOUS
    <2>2. PICK w \in Seq(Int), m \in Seq(Int) : w = Filter(s, Wins) /\ m = Filter(s, Misses)
      BY <1>0
    <2>3. /\ t \in Seq(Int) /\ Len(t) = Len(s) + 1 /\ SumOf(t) = SumOf(s) + x
          /\ Len(Append(w, x)) = Len(w) + 1 /\ SumOf(Append(w, x)) = SumOf(w) + x
          /\ Len(Append(m, x)) = Len(m) + 1 /\ SumOf(Append(m, x)) = SumOf(m) + x
      BY <2>1, SumsUp, AppendProperties
    <2>4. /\ Filter(t, Wins) = IF x \in Wins THEN Append(w, x) ELSE w
          /\ Filter(t, Misses) = IF x \in Misses THEN Append(m, x) ELSE m
      BY <2>1, <2>2, FilterIs, Facts!FilterAppend
    <2>5. /\ Len(s) \in Nat /\ Len(w) \in Nat /\ Len(m) \in Nat
          /\ SumOf(s) \in Int /\ SumOf(w) \in Int /\ SumOf(m) \in Int
          /\ Len(s) = Len(w) + Len(m) /\ SumOf(s) = SumOf(w) + SumOf(m)
      BY <1>2, <2>2, SumInt, LenProperties DEF Apart
    <2>6. Filter(t, Wins) \in Seq(Int) /\ Filter(t, Misses) \in Seq(Int)
      BY <1>0, <2>3
    <2>7. CASE x > 0
      <3>1. Filter(t, Wins) = Append(w, x) /\ Filter(t, Misses) = m
        BY <2>4, <2>7 DEF Wins, Misses
      <3>2. Apart(t)
        BY <2>3, <2>5, <2>6, <3>1 DEF Apart
      <3>. QED BY <2>1, <2>3, <3>2
    <2>8. CASE ~(x > 0)
      <3>1. Filter(t, Wins) = w /\ Filter(t, Misses) = Append(m, x)
        BY <2>4, <2>8 DEF Wins, Misses
      <3>2. Apart(t)
        BY <2>3, <2>5, <2>6, <3>1 DEF Apart
      <3>. QED BY <2>1, <2>3, <3>2
    <2>. QED BY <2>7, <2>8
  <1>3. Seq(Int) \subseteq G
    <2>. HIDE DEF G
    <2>. QED BY <1>1, <1>2, Facts!SeqInduct
  <1>. QED BY <1>3

\* Rounded down, a mean times the length falls short by less than the length.
LEMMA MeanShort ==
    ASSUME NEW s \in Seq(Int)
    PROVE  MeanOf(s) \in Int /\ SumOf(s) - Len(s) * MeanOf(s) \in 0..Len(s)
  <1>1. SumOf(s) \in Int /\ Len(s) \in Nat /\ (Len(s) = 0 <=> s = <<>>)
    BY SumInt, LenProperties, EmptySeq
  <1>2. CASE s = <<>>
    BY <1>1, <1>2, SumsUp DEF MeanOf
  <1>3. CASE s # <<>>
    <2>1. \A a \in Int, b \in Nat \ {0} : a \div b \in Int /\ a - b * (a \div b) \in 0..b
      OBVIOUS
    <2>2. MeanOf(s) = SumOf(s) \div Len(s) /\ Len(s) \in Nat \ {0}
      BY <1>1, <1>3 DEF MeanOf
    <2>. QED BY <1>1, <2>1, <2>2
  <1>. QED BY <1>2, <1>3

\* The greatest of a set.
Greatest(m, S) == m \in S /\ \A n \in S : n <= m

\* Max finds the greatest.
LEMMA MaxOfAll ==
    ASSUME NEW S, S \subseteq Int, NEW m, Greatest(m, S)
    PROVE  Max(S) = m
  <1>1. \E x \in S : \A y \in S : x >= y
    BY DEF Greatest
  <1>2. Max(S) \in S /\ \A y \in S : Max(S) >= y
    BY <1>1 DEF Max
  <1>3. m \in Int /\ Max(S) \in Int /\ m <= Max(S) /\ Max(S) <= m
    <2>1. m \in S /\ Max(S) <= m /\ Max(S) >= m
      BY <1>2 DEF Greatest
    <2>. QED BY <1>2, <2>1
  <1>. QED BY <1>3

\* Gains add up to a gain.
LEMMA GainsAddUp ==
    ASSUME NEW s \in Seq(Int), s # <<>>, \A k \in 1..Len(s) : s[k] > 0
    PROVE  SumOf(s) > 0
  <1>. DEFINE G == {r \in Seq(Int) : (\A k \in 1..Len(r) : r[k] > 0) => SumOf(r) >= Len(r)}
  <1>1. <<>> \in G
    <2>1. <<>> \in Seq(Int) /\ SumOf(<<>>) = 0 /\ Len(<<>>) = 0
      BY SumsUp, EmptySeq
    <2>. QED BY <2>1
  <1>2. ASSUME NEW r \in Seq(Int), NEW x \in Int, r \in G PROVE Append(r, x) \in G
    <2>1. PICK t : t = Append(r, x)
      OBVIOUS
    <2>2. /\ t \in Seq(Int) /\ Len(t) = Len(r) + 1 /\ t[Len(r) + 1] = x
          /\ \A k \in 1..Len(r) : t[k] = r[k]
      BY <2>1, AppendProperties
    <2>3. SumOf(t) = SumOf(r) + x /\ SumOf(r) \in Int /\ Len(r) \in Nat
      BY <2>1, SumsUp, SumInt, LenProperties
    <2>4. ASSUME \A k \in 1..Len(t) : t[k] > 0 PROVE SumOf(t) >= Len(t)
      <3>0. Len(r) + 1 \in 1..Len(t) /\ \A k \in 1..Len(r) : k \in 1..Len(t)
        BY <2>2, <2>3
      <3>1. \A k \in 1..Len(r) : r[k] > 0
        BY <2>2, <2>4, <3>0
      <3>2. SumOf(r) >= Len(r)
        BY <1>2, <3>1
      <3>3. x > 0
        BY <2>2, <2>4, <3>0
      <3>. QED BY <2>2, <2>3, <3>2, <3>3
    <2>. QED BY <2>1, <2>2, <2>4
  <1>3. Seq(Int) \subseteq G
    <2>. HIDE DEF G
    <2>. QED BY <1>1, <1>2, Facts!SeqInduct
  <1>4. SumOf(s) >= Len(s)
    BY <1>3
  <1>5. SumOf(s) \in Int /\ Len(s) \in Nat /\ Len(s) # 0
    BY SumInt, LenProperties, EmptySeq
  <1>. QED BY <1>4, <1>5

\* The results of a list of trades.
LEMMA RsTyped ==
    ASSUME NEW list \in Seq(Trade)
    PROVE  /\ Rs(list) \in Seq(Int) /\ Len(Rs(list)) = Len(list)
           /\ \A k \in 1..Len(list) : Rs(list)[k] = list[k].r /\ list[k].r \in Int
  <1>1. Len(list) \in Nat /\ DOMAIN list = 1..Len(list)
    BY LenProperties
  <1>2. ASSUME NEW k \in 1..Len(list) PROVE list[k].r \in Int
    <2>1. list[k] \in Trade
      BY ElementOfSeq
    <2>. QED BY <2>1, StatsAssumption DEF Trade
  <1>3. Rs(list) = [k \in 1..Len(list) |-> list[k].r]
    BY <1>1 DEF Rs
  <1>4. Rs(list) \in Seq(Int)
    BY <1>1, <1>2, <1>3, SeqDef
  <1>5. Len(Rs(list)) = Len(list)
    BY <1>1, <1>3, <1>4, LenProperties
  <1>. QED BY <1>2, <1>3, <1>4, <1>5

\* Any part of the trades of a list without a loss earned something.
LEMMA PartsEarn ==
    ASSUME NEW list \in Seq(Trade), \A k \in 1..Len(list) : list[k].r > 0, NEW S,
           Len(Rs(Filter(list, S))) # 0
    PROVE  SumOf(Rs(Filter(list, S))) > 0
  <1>1. PICK f : f = Facts!Filter(list, S) /\ f = Filter(list, S)
    BY FilterIs
  <1>2. f \in Seq(Trade \cap S) /\ Facts!Sifts(f, list, S)
    BY <1>1, Facts!FilterElements
  <1>3. f \in Seq(Trade)
    <2>1. Trade \cap S \subseteq Trade /\ \A A, B : A \subseteq B => Seq(A) \subseteq Seq(B)
      BY SeqDef
    <2>. QED BY <1>2, <2>1
  <1>4. \A j \in 1..Len(f) : f[j].r > 0
    BY <1>2 DEF Facts!Sifts
  <1>5. Rs(f) \in Seq(Int) /\ Len(Rs(f)) = Len(f) /\ \A k \in 1..Len(f) : Rs(f)[k] = f[k].r
    BY <1>3, RsTyped
  <1>6. Rs(f) # <<>> /\ \A k \in 1..Len(Rs(f)) : Rs(f)[k] > 0
    BY <1>1, <1>4, <1>5, EmptySeq
  <1>. QED BY <1>1, <1>5, <1>6, GainsAddUp

\* So such a list is consistent.
LEMMA GainsAreConsistent ==
    ASSUME NEW list \in Seq(Trade), \A k \in 1..Len(list) : list[k].r > 0
    PROVE  FoldsPositive(list) = 100 /\ RegimeOf(list) # "no"
  <1>. DEFINE filled == {f \in 0..(FoldCount - 1) : InFold(list, f) # <<>>}
              good == {f \in filled : SumOf(Rs(InFold(list, f))) > 0}
  <1>1. ASSUME NEW S, Filter(list, S) # <<>> PROVE Len(Rs(Filter(list, S))) # 0
    <2>1. PICK f : f = Facts!Filter(list, S) /\ f = Filter(list, S)
      BY FilterIs
    <2>2. f \in Seq(Trade \cap S)
      BY <2>1, Facts!FilterElements
    <2>3. f \in Seq(Trade)
      <3>1. Trade \cap S \subseteq Trade /\ \A A, B : A \subseteq B => Seq(A) \subseteq Seq(B)
        BY SeqDef
      <3>. QED BY <2>2, <3>1
    <2>4. Len(Rs(f)) = Len(f) /\ Len(f) # 0
      BY <1>1, <2>1, <2>3, RsTyped, EmptySeq
    <2>. QED BY <2>1, <2>4
  <1>2. ASSUME NEW f \in filled PROVE SumOf(Rs(InFold(list, f))) > 0
    BY <1>1, PartsEarn DEF InFold
  <1>3. good = filled
    BY <1>2
  <1>4. FoldsPositive(list) = 100
    <2>1. FoldCount \in Nat \ {0}
      BY StatsAssumption
    <2>2. IsFiniteSet(filled)
      <3>1. IsFiniteSet(0..(FoldCount - 1))
        BY <2>1, FS_Interval
      <3>. QED BY <3>1, FS_Subset
    <2>3. PICK c \in Nat : c = Cardinality(filled)
      BY <2>2, FS_CardinalityType
    <2>4. PercentOf(c, c) = 100 \/ c = 0
      <3>1. \A n \in Nat \ {0} : (100 * n) \div n = 100
        OBVIOUS
      <3>. QED BY <3>1 DEF PercentOf
    <2>5. FoldsPositive(list) = IF FoldCount <= 1 \/ c < 2 THEN 100 ELSE PercentOf(c, c)
      <3>1. FoldsPositive(list) = IF FoldCount <= 1 \/ Cardinality(filled) < 2 THEN 100
                                    ELSE PercentOf(Cardinality(good), Cardinality(filled))
        BY DEF FoldsPositive
      <3>. QED BY <1>3, <2>3, <3>1
    <2>. QED BY <2>1, <2>3, <2>4, <2>5
  <1>5. RegimeOf(list) # "no"
    <2>. DEFINE side(up) == Rs(Filter(list, {t \in Trade : t.up = up}))
    <2>1. ASSUME NEW up, Len(side(up)) >= RegimeMin PROVE SumOf(side(up)) > 0
      <3>1. RegimeMin \in Nat \ {0}
        BY StatsAssumption
      <3>2. Len(side(up)) # 0
        BY <2>1, <3>1
      <3>. QED BY <3>2, PartsEarn
    <2>. HIDE DEF side
    <2>2. RegimeOf(list) =
            IF Len(side("up")) >= RegimeMin /\ Len(side("down")) >= RegimeMin
            THEN IF SumOf(side("up")) > 0 /\ SumOf(side("down")) > 0 THEN "yes" ELSE "no"
            ELSE IF \E up \in {"up", "down"} :
                       Len(side(up)) >= RegimeMin /\ ~(SumOf(side(up)) > 0)
                 THEN "no" ELSE "unknown"
      BY DEF RegimeOf, side
    <2>. QED BY <2>1, <2>2
  <1>. QED BY <1>4, <1>5

\* A configuration's result over blocks is a sum of FoldFacts.
LEMMA OverIs == \A row, S : Over(row, S) = Facts!Total(row, S)
  BY SumTotal DEF Over

\* Four blocks.
LEMMA FourBlocks == IsFiniteSet(1..4) /\ Cardinality(1..4) = 4
  <1>1. 1 \in Int /\ 4 \in Int
    OBVIOUS
  <1>2. IsFiniteSet(1..4) /\ Cardinality(1..4) = IF 1 > 4 THEN 0 ELSE 4 - 1 + 1
    BY ONLY <1>1, FS_Interval
  <1>. QED BY <1>2

\* A row that is one less in every block adds up to as many less as there are blocks.
LEMMA OneLessEach ==
    ASSUME NEW f, NEW g, NEW B, IsFiniteSet(B),
           \A b \in B : f[b] \in Int /\ g[b] = f[b] - 1
    PROVE  /\ Over(f, B) \in Int /\ Over(g, B) \in Int
           /\ B # {} => Over(g, B) < Over(f, B)
  <1>1. ASSUME NEW S \in SUBSET B
        PROVE  /\ Facts!Numbers(f, S) /\ Facts!Numbers(g, S) /\ Cardinality(S) \in Nat
               /\ Over(f, S) \in Int /\ Over(g, S) \in Int
    <2>1. IsFiniteSet(S) /\ Cardinality(S) \in Nat
      BY FS_Subset, FS_CardinalityType
    <2>2. Facts!Numbers(f, S) /\ Facts!Numbers(g, S)
      BY <2>1, FiniteIs DEF Facts!Numbers
    <2>3. Facts!Total(f, S) \in Int /\ Facts!Total(g, S) \in Int
      BY <2>2, Facts!SumAdd
    <2>. QED BY <2>1, <2>2, <2>3, OverIs
  <1>. DEFINE G == {m \in Nat : \A S \in SUBSET B : Cardinality(S) = m => Over(f, S) = Over(g, S) + m}
  <1>2. 0 \in G
    <2>. SUFFICES ASSUME NEW S \in SUBSET B, Cardinality(S) = 0 PROVE Over(f, S) = Over(g, S) + 0
      OBVIOUS
    <2>1. S = {}
      BY FS_Subset, FS_EmptySet
    <2>2. Facts!Numbers(f, S) /\ Facts!Numbers(g, S)
      BY <1>1
    <2>3. Facts!Total(f, S) = 0 /\ Facts!Total(g, S) = 0
      BY <2>1, <2>2, Facts!SumAdd
    <2>. QED BY <2>3, OverIs
  <1>3. ASSUME NEW m \in Nat, m \in G, NEW S \in SUBSET B, Cardinality(S) = m + 1
        PROVE  Over(f, S) = Over(g, S) + (m + 1)
    <2>1. S # {} /\ \A x \in S : S \ {x} \in SUBSET B /\ Cardinality(S \ {x}) = m
      <3>1. IsFiniteSet(S) /\ Cardinality(S) # 0
        BY <1>3, FS_Subset
      <3>2. S # {}
        BY <3>1, FS_EmptySet
      <3>3. ASSUME NEW x \in S PROVE Cardinality(S \ {x}) = m
        <4>1. Cardinality(S \ {x}) = Cardinality(S) - 1
          BY <3>1, FS_RemoveElement
        <4>. QED BY <1>3, <4>1
      <3>. QED BY <3>2, <3>3
    <2>2. PICK x \in S : TRUE
      BY <2>1
    <2>3. Over(f, S \ {x}) = Over(g, S \ {x}) + m
      BY <1>3, <2>1, <2>2
    <2>4. Facts!Numbers(f, S) /\ Facts!Numbers(g, S)
      BY <1>1
    <2>5. /\ Facts!Total(f, S) = f[x] + Facts!Total(f, S \ {x})
          /\ Facts!Total(g, S) = g[x] + Facts!Total(g, S \ {x})
      BY <2>2, <2>4, Facts!SumAdd
    <2>6. Over(f, S) = f[x] + Over(f, S \ {x}) /\ Over(g, S) = g[x] + Over(g, S \ {x})
      BY <2>5, OverIs
    <2>7. f[x] \in Int /\ g[x] = f[x] - 1 /\ Over(g, S \ {x}) \in Int
      BY <1>1, <2>1, <2>2
    <2>. QED BY <2>3, <2>6, <2>7
  <1>4. Nat \subseteq G
    <2>1. \A m \in Nat : m \in G => m + 1 \in G
      BY <1>3
    <2>. HIDE DEF G
    <2>. QED BY <1>2, <2>1, Facts!NatInduct
  <1>5. Cardinality(B) \in Nat /\ (B # {} => Cardinality(B) # 0)
    BY FS_CardinalityType, FS_EmptySet
  <1>6. Over(f, B) = Over(g, B) + Cardinality(B)
    BY <1>4, <1>5
  <1>. QED BY <1>1, <1>5, <1>6

\* Configurations of which each is worse by one in every block than the one before it.
Rows(f) == [c \in 1..MinConfigs |-> [b \in 1..4 |-> f[b] + 1 - c]]

\* Summed over any blocks, the first of them is above all others.
LEMMA FirstIsAbove ==
    ASSUME NEW f \in [1..4 -> Int], NEW B \in SUBSET (1..4), B # {}, NEW d \in 2..8
    PROVE  /\ Over(Rows(f)[1], B) \in Int /\ Over(Rows(f)[d], B) \in Int
           /\ Over(Rows(f)[d], B) < Over(Rows(f)[1], B)
  <1>. DEFINE m == Rows(f)
              D == {k \in Nat : k \in 2..8 => /\ Over(m[1], B) \in Int /\ Over(m[k], B) \in Int
                                            /\ Over(m[k], B) < Over(m[1], B)}
  <1>1. IsFiniteSet(B)
    BY FourBlocks, FS_Subset
  <1>2. ASSUME NEW c \in 1..7
        PROVE  /\ Over(m[c], B) \in Int /\ Over(m[c + 1], B) \in Int
               /\ Over(m[c + 1], B) < Over(m[c], B)
    <2>1. c \in 1..8 /\ c + 1 \in 1..8 /\ MinConfigs = 8
      BY DEF MinConfigs
    <2>2. m[c] = [b \in 1..4 |-> f[b] + 1 - c] /\ m[c + 1] = [b \in 1..4 |-> f[b] + 1 - (c + 1)]
      BY <2>1 DEF Rows
    <2>3. ASSUME NEW b \in B PROVE m[c][b] \in Int /\ m[c + 1][b] = m[c][b] - 1
      <3>1. m[c][b] = f[b] + 1 - c /\ m[c + 1][b] = f[b] + 1 - (c + 1)
        BY <2>2
      <3>2. f[b] \in Int /\ c \in Int
        OBVIOUS
      <3>. HIDE DEF m
      <3>. QED BY <3>1, <3>2
    <2>. HIDE DEF m
    <2>. QED BY <1>1, <2>3, OneLessEach
  <1>3. 0 \in D
    OBVIOUS
  <1>4. ASSUME NEW k \in Nat, k \in D PROVE k + 1 \in D
    <2>. HIDE DEF m
    <2>. SUFFICES ASSUME k + 1 \in 2..8
                  PROVE  /\ Over(m[1], B) \in Int /\ Over(m[k + 1], B) \in Int
                         /\ Over(m[k + 1], B) < Over(m[1], B)
      OBVIOUS
    <2>1. k \in 1..7
      OBVIOUS
    <2>2. /\ Over(m[k], B) \in Int /\ Over(m[k + 1], B) \in Int
          /\ Over(m[k + 1], B) < Over(m[k], B)
      BY <1>2, <2>1
    <2>3. Over(m[1], B) \in Int
      BY <1>2
    <2>4. CASE k = 1
      BY <2>2, <2>4
    <2>5. CASE k # 1
      <3>1. k \in 2..8
        BY <2>1, <2>5
      <3>2. Over(m[k], B) < Over(m[1], B)
        BY <1>4, <3>1
      <3>. QED BY <2>2, <2>3, <3>2
    <2>. QED BY <2>4, <2>5
  <1>5. Nat \subseteq D
    <2>. HIDE DEF D
    <2>. QED BY <1>3, <1>4, Facts!NatInduct
  <1>. QED BY <1>5

\* So it is the best in any blocks, and ranks first in any.
LEMMA FirstRanksFirst ==
    ASSUME NEW f \in [1..4 -> Int], NEW B \in SUBSET (1..4), B # {}
    PROVE  BestIn(Rows(f), B) = 1 /\ MidRank2(Rows(f), B, 1) = 16
  <1>. DEFINE m == Rows(f)
  <1>1. DOMAIN m = 1..8
    BY DEF Rows, MinConfigs
  <1>2. \A d \in 2..8 : /\ Over(m[1], B) \in Int /\ Over(m[d], B) \in Int
                         /\ Over(m[d], B) < Over(m[1], B)
    BY FirstIsAbove
  <1>. HIDE DEF m
  <1>3. 2 \in 2..8 /\ Over(m[1], B) \in Int
    BY <1>2
  <1>4. \A d \in 1..8 : d = 1 \/ d \in 2..8
    OBVIOUS
  <1>5. BestIn(m, B) = 1
    <2>. DEFINE Best(c) == /\ \A d \in DOMAIN m : Over(m[d], B) <= Over(m[c], B)
                           /\ \A d \in 1..(c - 1) : Over(m[d], B) < Over(m[c], B)
    <2>1. Best(1)
      <3>1. 1..(1 - 1) = {}
        OBVIOUS
      <3>2. ASSUME NEW d \in 1..8 PROVE Over(m[d], B) <= Over(m[1], B)
        <4>1. CASE d = 1
          BY <1>3, <4>1
        <4>2. CASE d \in 2..8
          BY <1>2, <4>2
        <4>. QED BY <1>4, <4>1, <4>2
      <3>. QED BY <1>1, <3>1, <3>2
    <2>2. \A c \in DOMAIN m : Best(c) => c = 1
      <3>. SUFFICES ASSUME NEW c \in 2..8 PROVE ~Best(c)
        BY <1>1, <1>4
      <3>1. 1 \in DOMAIN m /\ ~(Over(m[1], B) <= Over(m[c], B))
        BY <1>1, <1>2
      <3>. QED BY <3>1
    <2>3. BestIn(m, B) = CHOOSE c \in DOMAIN m : Best(c)
      BY DEF BestIn
    <2>. HIDE DEF Best
    <2>. QED BY <1>1, <2>1, <2>2, <2>3
  <1>6. MidRank2(m, B, 1) = 16
    <2>1. {d \in DOMAIN m : Over(m[d], B) < Over(m[1], B)} = 2..8
      BY <1>1, <1>2, <1>3, <1>4
    <2>2. {d \in DOMAIN m : Over(m[d], B) = Over(m[1], B)} = {1}
      BY <1>1, <1>2, <1>4
    <2>3. Cardinality({1}) = 1 /\ Cardinality(2..8) = 7
      <3>1. 2 \in Int /\ 8 \in Int
        OBVIOUS
      <3>2. Cardinality(2..8) = IF 2 > 8 THEN 0 ELSE 8 - 2 + 1
        BY ONLY <3>1, FS_Interval
      <3>3. Cardinality(2..8) = 7
        BY ONLY <3>2
      <3>4. Cardinality({1}) = 1
        BY FS_Singleton
      <3>. QED BY <3>3, <3>4
    <2>4. MidRank2(m, B, 1) = 2 * Cardinality(2..8) + Cardinality({1}) + 1
      BY <2>1, <2>2 DEF MidRank2
    <2>. QED BY <2>3, <2>4
  <1>. QED BY <1>5, <1>6 DEF m

\* So the first is not called overfit.
LEMMA FirstIsNotOverfit ==
    ASSUME NEW f \in [1..4 -> Int]
    PROVE  OverfitPct(Rows(f), 4) = 0
  <1>. DEFINE halves == kSubset(4 \div 2, 1..4)
              Fails(h) == MidRank2(Rows(f), (1..4) \ h, BestIn(Rows(f), h)) <= Len(Rows(f)) + 1
  <1>1. halves = {h \in SUBSET (1..4) : Cardinality(h) = 2}
    <2>1. 4 \div 2 = 2
      OBVIOUS
    <2>. QED BY <2>1 DEF kSubset
  <1>2. Len(Rows(f)) = 8
    BY DEF Rows, MinConfigs
  <1>3. ASSUME NEW h \in halves PROVE ~Fails(h)
    <2>1. h \in SUBSET (1..4) /\ Cardinality(h) = 2
      BY <1>1
    <2>2. h # {}
      <3>1. Cardinality(h) # 0
        BY <2>1
      <3>. QED BY <3>1, FS_EmptySet
    <2>3. (1..4) \ h # {}
      <3>1. Cardinality(1..4) = 4
        BY FourBlocks
      <3>2. h # 1..4
        BY <2>1, <3>1
      <3>. QED BY <2>1, <3>2
    <2>4. BestIn(Rows(f), h) = 1 /\ MidRank2(Rows(f), (1..4) \ h, 1) = 16
      BY <2>1, <2>2, <2>3, FirstRanksFirst
    <2>. QED BY <1>2, <2>4
  <1>. HIDE DEF Fails, halves
  <1>4. {h \in halves : Fails(h)} = {}
    BY <1>3
  <1>5. OverfitPct(Rows(f), 4) = PercentOf(Cardinality({h \in halves : Fails(h)}), Cardinality(halves))
    <2>1. ~(Len(Rows(f)) < MinConfigs \/ 4 < 4 \/ 4 % 2 # 0)
      BY <1>2 DEF MinConfigs
    <2>. QED BY <2>1 DEF OverfitPct, halves, Fails
  <1>6. Cardinality({}) = 0 /\ Cardinality(halves) \in Nat
    <2>1. IsFiniteSet(1..4)
      BY FourBlocks
    <2>2. IsFiniteSet(halves)
      BY <1>1, <2>1, FS_SUBSET, FS_Subset
    <2>. QED BY <2>2, FS_EmptySet, FS_CardinalityType
  <1>7. \A n \in Nat : PercentOf(0, n) = 0
    <2>1. \A n \in Nat \ {0} : (100 * 0) \div n = 0
      OBVIOUS
    <2>. QED BY <2>1 DEF PercentOf
  <1>. QED BY <1>4, <1>5, <1>6, <1>7

\* What is booked are trades.
TradesTyped == history \in Seq(Trade)

\* Always, whatever the backtest books.
LEMMA HistoryTyped == HistorySpec => []TradesTyped
  <1>1. HistoryInit => TradesTyped
    BY EmptySeq DEF HistoryInit, TradesTyped
  <1>2. TradesTyped /\ [HistoryNext]_history => TradesTyped'
    <2>. SUFFICES ASSUME TradesTyped, [HistoryNext]_history PROVE TradesTyped'
      OBVIOUS
    <2>1. CASE BookTrade
      <3>1. PICK bar \in 0..(Bars - 1), r \in Gains, up \in DayKinds :
              history' = Append(history, [bar |-> bar, r |-> r, up |-> up])
        BY <2>1 DEF BookTrade
      <3>2. [bar |-> bar, r |-> r, up |-> up] \in Trade
        BY DEF Trade
      <3>. QED BY <3>1, <3>2, AppendProperties DEF TradesTyped
    <2>2. CASE UNCHANGED history
      BY <2>2 DEF TradesTyped
    <2>. QED BY <2>1, <2>2 DEF HistoryNext
  <1>. QED BY <1>1, <1>2, PTL DEF HistorySpec

\* And of any list of trades the figures are what they say.
LEMMA FiguresOfTrades == TradesTyped => FiguresMeanWhatTheySay
  <1>. SUFFICES ASSUME TradesTyped PROVE FiguresMeanWhatTheySay
    OBVIOUS
  <1>. DEFINE rs == Rs(history)
              At(k) == SumOf(SubSeq(rs, 1, k))
              Fall(x) == \E i, j \in 0..Len(rs) : i <= j /\ x = At(i) - At(j)
              falls == {At(i) - At(j) : i \in 0..Len(rs), j \in 0..Len(rs)}
              stretches == {n \in 0..Len(rs) :
                              \E i \in 0..(Len(rs) - n) : \A k \in (i + 1)..(i + n) : rs[k] <= 0}
              kept == MetricsOf(rs)
              won == Len(Winners(rs))
              means == BlockMeans(history, 4)
  <1>1. /\ history \in Seq(Trade) /\ rs \in Seq(Int) /\ Len(rs) = Len(history) /\ Len(rs) \in Nat
        /\ \A k \in 1..Len(history) : rs[k] = history[k].r
    BY RsTyped, LenProperties DEF TradesTyped
  <1>2. kept.maxDd = Max({x \in falls : Fall(x)})
    <2>1. Deepest(rs, DrawdownOf(rs))
      BY <1>1, DrawdownIs
    <2>2. \A k \in 0..Len(rs) : After(rs, k) = At(k) /\ At(k) \in Int
      <3>1. ASSUME NEW k \in 0..Len(rs) PROVE SubSeq(rs, 1, k) \in Seq(Int)
        <4>1. \A i \in 1..k : rs[i] \in Int
          BY <1>1, ElementOfSeq
        <4>. QED BY <1>1, <4>1, SubSeqProperties
      <3>. QED BY <3>1, SumInt DEF After
    <2>. DEFINE S == {x \in falls : Fall(x)}
    <2>3. S \subseteq Int /\ Greatest(DrawdownOf(rs), S)
      BY <2>1, <2>2 DEF Deepest, Greatest
    <2>4. Max(S) = DrawdownOf(rs)
      <3>. HIDE DEF S
      <3>. QED BY <2>3, MaxOfAll
    <2>. QED BY <2>4 DEF MetricsOf
  <1>3. StreakOf(rs) = Max(stretches)
    <2>. DEFINE l == Len(rs)
                Has(n) == \E i \in 0..(l - n) : \A k \in (i + 1)..(i + n) : rs[k] <= 0
    <2>1. ASSUME NEW n \in 0..l PROVE Stretch(rs, n) <=> Has(n)
      <3>1. ASSUME NEW m \in n..l, Barren(rs, m, n) PROVE Has(n)
        <4>1. m - n \in 0..(l - n)
          BY <1>1
        <4>2. \A k \in ((m - n) + 1)..((m - n) + n) : k \in 1..l /\ m - n < k /\ k <= m
          BY <1>1
        <4>3. \A k \in ((m - n) + 1)..((m - n) + n) : rs[k] <= 0
          BY <3>1, <4>2 DEF Barren
        <4>. QED BY <4>1, <4>3
      <3>2. ASSUME NEW i \in 0..(l - n), \A k \in (i + 1)..(i + n) : rs[k] <= 0 PROVE Stretch(rs, n)
        <4>1. i + n \in n..l /\ \A k \in 1..l : (i + n) - n < k /\ k <= i + n => k \in (i + 1)..(i + n)
          BY <1>1
        <4>2. Barren(rs, i + n, n)
          BY <3>2, <4>1 DEF Barren
        <4>. QED BY <4>1, <4>2 DEF Stretch
      <3>. QED BY <3>1, <3>2 DEF Stretch
    <2>2. /\ StreakOf(rs) \in 0..l /\ Stretch(rs, StreakOf(rs))
          /\ \A n \in 0..l : Stretch(rs, n) => n <= StreakOf(rs)
      BY <1>1, StreakIs
    <2>3. stretches = {n \in 0..l : Has(n)}
      OBVIOUS
    <2>. HIDE DEF l, Has, stretches
    <2>4. stretches \subseteq Int /\ Greatest(StreakOf(rs), stretches)
      BY <2>1, <2>2, <2>3 DEF Greatest
    <2>. QED BY <2>4, MaxOfAll
  <1>4. SumOf(rs) - (won * kept.avgWin + (kept.n - won) * kept.avgLoss) \in 0..kept.n
    <2>1. PICK w \in Seq(Int), m \in Seq(Int) : /\ w = Filter(rs, Wins) /\ m = Filter(rs, Misses)
                          /\ Len(rs) = Len(w) + Len(m)
                          /\ SumOf(rs) = SumOf(w) + SumOf(m)
      BY <1>1, WinsAndMisses DEF Apart
    <2>2. /\ won = Len(w) /\ kept.n = Len(rs)
          /\ kept.avgWin = MeanOf(w) /\ kept.avgLoss = MeanOf(m)
      BY <2>1 DEF MetricsOf, Winners, Wins, Misses
    <2>3. /\ MeanOf(w) \in Int /\ SumOf(w) - Len(w) * MeanOf(w) \in 0..Len(w)
          /\ MeanOf(m) \in Int /\ SumOf(m) - Len(m) * MeanOf(m) \in 0..Len(m)
      BY MeanShort
    <2>4. Len(w) \in Nat /\ Len(m) \in Nat /\ SumOf(w) \in Int /\ SumOf(m) \in Int
      BY SumInt, LenProperties
    <2>5. Len(w) * MeanOf(w) \in Int /\ Len(m) * MeanOf(m) \in Int
      BY <2>3, <2>4
    <2>6. kept.n - won = Len(m)
      BY <2>1, <2>2, <2>4
    <2>7. SumOf(rs) - (Len(w) * MeanOf(w) + Len(m) * MeanOf(m)) \in 0..Len(rs)
      <3>1. PICK p \in Int, q \in Int : p = Len(w) * MeanOf(w) /\ q = Len(m) * MeanOf(m)
        BY <2>5
      <3>2. SumOf(w) - p \in 0..Len(w) /\ SumOf(m) - q \in 0..Len(m)
        BY <2>3, <3>1
      <3>3. (SumOf(w) + SumOf(m)) - (p + q) \in 0..(Len(w) + Len(m))
        BY ONLY <2>4, <3>2, p \in Int, q \in Int
      <3>. QED BY <2>1, <3>1, <3>3
    <2>. QED BY <2>2, <2>6, <2>7
  <1>5. (\A k \in DOMAIN rs : rs[k] > 0) => FoldsPositive(history) = 100 /\ RegimeOf(history) # "no"
    <2>1. DOMAIN rs = 1..Len(rs)
      BY <1>1, LenProperties
    <2>. QED BY <1>1, <2>1, GainsAreConsistent
  <1>6. OverfitPct([c \in 1..MinConfigs |-> [b \in 1..4 |-> means[b] + 1 - c]], 4) = 0
    <2>1. means \in [1..4 -> Int]
      <3>1. ASSUME NEW S PROVE MeanOf(Rs(Filter(history, S))) \in Int
        <4>1. PICK f : f = Facts!Filter(history, S) /\ f = Filter(history, S)
          BY FilterIs
        <4>2. f \in Seq(Trade \cap S)
          BY <1>1, <4>1, Facts!FilterElements
        <4>3. f \in Seq(Trade)
          <5>1. Trade \cap S \subseteq Trade /\ \A A, B : A \subseteq B => Seq(A) \subseteq Seq(B)
            BY SeqDef
          <5>. QED BY <4>2, <5>1
        <4>. QED BY <4>1, <4>3, RsTyped, MeanShort
      <3>. QED BY <3>1 DEF BlockMeans
    <2>. QED BY <2>1, FirstIsNotOverfit DEF Rows
  <1>. QED BY <1>2, <1>3, <1>4, <1>5, <1>6 DEF FiguresMeanWhatTheySay

\* Of every list of trades the backtest can book, the drawdown, the streak, the
\* averages, the consistency and the overfit probability that build_config_stat
\* computes in one pass are the ones defined over the whole curve.
THEOREM FiguresHold == HistorySpec => []FiguresMeanWhatTheySay
  BY HistoryTyped, FiguresOfTrades, PTL
=============================================================================
