------------------------------ MODULE Planner ------------------------------
(***************************************************************************)
(* The capital planner (src/capital_planner.rs): a screen of the daily     *)
(* archive for a horizon of years, and a capital split over the picks in   *)
(* whole shares. The archive grows a trading day at a time, a stock may    *)
(* miss days; `asked` is the plan last asked for.                          *)
(*                                                                         *)
(* Ratios are percents rounded down, weights thousandths. Growth is the    *)
(* window's return, which has the sign and the order of its annual rate.   *)
(***************************************************************************)
EXTENDS SeqFilter, FiniteSetsExt, SequencesExt, Functions

CONSTANTS
    Shortlist,       \* stocks of the archive
    MetaOf,          \* stock -> [cap, sector], market cap in crores
    Seat,            \* stock -> its place when the hash map of the archive is iterated
    Opening,         \* stock -> first close
    Steps,           \* percents of the close before that a day's close may be
    TurnoverOf,      \* stock -> crores a day
    IndexCloses,     \* NIFTY50 closes
    Backed,          \* stocks with a long edge
    Td,              \* bars of a year, 252
    Month,           \* bars between two looks back over a year, 21
    Slack, Stale,    \* 5 bars, 30 days
    Average,         \* 200 bars
    PickCount, PerSector, MaxWeight,  \* TOP_N, MAX_PER_SECTOR, 250
    Capital, Asked,  \* capitals and years asked for
    MaxDays          \* bound

\* Prices and capitals are positive, spans and bounds are numbers.
ASSUME PlannerAssumption ==
    /\ IsFiniteSet(Shortlist)
    /\ \A s \in Shortlist : Opening[s] \in Nat \ {0} /\ MetaOf[s].cap \in Nat /\ Seat[s] \in Nat
    /\ \A s, t \in Shortlist : Seat[s] = Seat[t] => s = t
    /\ IndexCloses \in Seq(Nat \ {0})
    /\ Steps \subseteq Nat /\ Capital \subseteq Nat
    /\ {Td, Month, Slack, Average} \subseteq Nat \ {0}
    /\ {PickCount, PerSector, MaxWeight} \subseteq Nat

VARIABLES tapeOf, session, asked
planVars == <<tapeOf, session, asked>>

ValidYears(y) == IF y \in {1, 2, 3, 5, 10} THEN y ELSE 5

PlannerInit ==
    /\ tapeOf = [s \in Shortlist |-> [closes |-> <<Opening[s]>>, day |-> 1]]
    /\ session = 1
    /\ asked = [years |-> 5, capital |-> 0]

\* A close stays a price: load_universe reads no others.
Moved(close, step) == Max({1, (close * step) \div 100})
TradingDay ==
    /\ session < MaxDays
    /\ session' = session + 1
    /\ \E step \in [Shortlist -> Steps \cup {0}] :
          tapeOf' = [s \in Shortlist |->
              IF step[s] = 0 THEN tapeOf[s]
              ELSE [closes |-> Append(tapeOf[s].closes, Moved(Last(tapeOf[s].closes), step[s])),
                    day |-> session']]
    /\ UNCHANGED asked

AskPlan ==
    /\ \E y \in Asked, c \in Capital : asked' = [years |-> ValidYears(y), capital |-> c]
    /\ UNCHANGED <<tapeOf, session>>

PlannerNext == TradingDay \/ AskPlan
PlannerSpec == PlannerInit /\ [][PlannerNext]_planVars

-----------------------------------------------------------------------------
\* Floors of a horizon: size, turnover, and percent of rolling years that rose.
CapFloor(y) == CASE y <= 2 -> 3000 [] y = 3 -> 5000 [] y = 5 -> 10000 [] OTHER -> 20000
TurnoverFloor(y) == IF y <= 3 THEN 5 ELSE 3
ConsistencyFloor(y) == CASE y <= 2 -> 45 [] y = 3 -> 50 [] y = 5 -> 55 [] OTHER -> 60

Closes(s) == tapeOf[s].closes
Price(s) == Last(Closes(s))
LastN(c, n) == SubSeq(c, Len(c) - Min({n, Len(c)}) + 1, Len(c))
Over100(x, base) == (100 * (x - base)) \div base
Growth(c, n) == Over100(Last(c), c[Len(c) - n])
AboveAverage(c) ==
    LET w == LastN(c, Average) IN (100 * Last(c) * Len(w)) \div SumFunction(w) - 100

\* Of the years that end on a sampled day, the percent that rose.
Rose(c) ==
    LET ends == {i \in (Td + 1)..Len(c) : (i - Td - 1) % Month = 0}
        rose == {i \in ends : c[i] > c[i - Td]}
    IN  IF ends = {} THEN 0 ELSE (100 * Cardinality(rose)) \div Cardinality(ends)

\* Deepest fall from a high of the window, and the spread of the daily moves.
DeepestFall(c, n) ==
    LET w == LastN(c, n)
    IN  Min({Over100(w[p[2]], w[p[1]]) :
               p \in {q \in (DOMAIN w) \X (DOMAIN w) : q[1] <= q[2]}})
Root(x) == CHOOSE r \in 0..x : r * r <= x /\ (r + 1) * (r + 1) > x
MeanFn(f) == SumFunction(f) \div Cardinality(DOMAIN f)
Deviation2(f) == Root(MeanFn([x \in DOMAIN f |-> (f[x] - MeanFn(f)) * (f[x] - MeanFn(f))]))
Volatility(c, n) ==
    LET w == LastN(c, n + 1)
        moves == [i \in 1..(Len(w) - 1) |-> Over100(w[i + 1], w[i])]
    IN  IF Len(moves) < 2 THEN 0 ELSE Deviation2(moves)

\* The gates of build: a fresh tape, enough of it, rising over the horizon and above
\* its average, large, traded and steady.
Eligible(y) ==
    {s \in Shortlist :
        LET c == Closes(s)
        IN  /\ Max({tapeOf[t].day : t \in Shortlist}) - tapeOf[s].day <= Stale
            /\ Len(c) >= Max({y, 2}) * Td + Slack
            /\ Price(s) > c[Len(c) - y * Td] /\ AboveAverage(c) > 0
            /\ MetaOf[s].cap >= CapFloor(y)
            /\ TurnoverOf[s] >= TurnoverFloor(y)
            /\ Rose(c) >= ConsistencyFloor(y)}

\* z, in hundredths: all zero when nothing sets the stocks apart.
Z(f) == [s \in DOMAIN f |->
            IF Deviation2(f) = 0 THEN 0 ELSE (100 * (f[s] - MeanFn(f))) \div Deviation2(f)]
Magnitude(x) == Cardinality({k \in 1..30 : 2^k <= x + 1})

\* weights_for: growth, relative strength, trend, drawdown, consistency, size.
Weights(y) ==
    CASE y = 1 -> <<20, 35, 25, 5, 5, 10>> [] y = 2 -> <<25, 30, 20, 5, 10, 10>>
      [] y = 3 -> <<30, 20, 15, 10, 15, 10>> [] y = 5 -> <<30, 10, 5, 20, 20, 15>>
      [] OTHER -> <<28, 5, 2, 25, 20, 20>>

Factors(y, S) ==
    LET n == y * Td
        nifty == IF Len(IndexCloses) > n THEN Growth(IndexCloses, n) ELSE 0
    IN  <<[s \in S |-> Min({60 * y, Growth(Closes(s), n)})],
          [s \in S |-> IF Len(IndexCloses) > n THEN Growth(Closes(s), n) - nifty ELSE 0],
          [s \in S |-> AboveAverage(Closes(s))],
          [s \in S |-> DeepestFall(Closes(s), n)],
          [s \in S |-> Rose(Closes(s))],
          [s \in S |-> Magnitude(MetaOf[s].cap)]>>
Blend(y, S) ==
    LET f == Factors(y, S)
        z == [k \in 1..6 |-> Z(f[k])]
    IN  [s \in S |-> (IF s \in Backed THEN 2500 ELSE 0)
                        + SumFunction([k \in 1..6 |-> Weights(y)[k] * z[k][s]])]

\* The best blends, equals as the map yields them, not too many of a sector.
Ahead(S, blend) ==
    {p \in S \X S : \/ blend[p[1]] > blend[p[2]]
                    \/ blend[p[1]] = blend[p[2]] /\ Seat[p[1]] < Seat[p[2]]}
OfSector(chosen, s) == {i \in DOMAIN chosen : MetaOf[chosen[i]].sector = MetaOf[s].sector}
Picked(chosen, s) ==
    IF Len(chosen) >= PickCount \/ Cardinality(OfSector(chosen, s)) >= PerSector
    THEN chosen ELSE Append(chosen, s)
Choose(y) ==
    LET S == Eligible(y) IN FoldLeft(Picked, <<>>, Sorted(S, Ahead(S, Blend(y, S))))

\* Water-filling of inverse volatilities: who exceeds the cap is frozen at it and the
\* rest is shared out again, until nobody does.
CapOf3(n) == Max({MaxWeight, 1000 \div n})
FreezeRound(w, inv, cap) ==
    LET free == DOMAIN inv \ w.frozen
        left == Max({0, 1000 - cap * Cardinality(w.frozen)})
        all == SumFunction([j \in free |-> inv[j]])
        Share(k) == (left * inv[k]) \div all
        over == {k \in free : Share(k) > cap}
    IN  [of |-> [k \in DOMAIN inv |-> IF k \in w.frozen \cup over THEN cap ELSE Share(k)],
         frozen |-> w.frozen \cup over]
Fill(inv, cap) ==
    LET fill[n \in 0..Len(inv)] ==
            IF n = 0 THEN [of |-> [k \in DOMAIN inv |-> 0], frozen |-> {}]
            ELSE IF fill[n - 1].frozen = DOMAIN inv THEN fill[n - 1]
            ELSE FreezeRound(fill[n - 1], inv, cap)
    IN  fill[Len(inv)].of
\* One over the volatility, which is above 0 in the code however large that is.
Inverse100(vol) == Max({1, 10000 \div Max({5, vol})})
Filled(chosen, y) ==
    Fill([k \in DOMAIN chosen |-> Inverse100(Volatility(Closes(chosen[k]), y * Td))],
         CapOf3(Len(chosen)))

\* Whole shares of each slice; then, share by share, the rest goes to the affordable
\* name furthest below its slice.
CashLeft(n, price, capital) == capital - SumFunction([k \in DOMAIN n |-> n[k] * price[k]])
Short(n, w, price, capital, k) == capital * w[k] - 1000 * n[k] * price[k]
TopUp(n, w, price, capital) ==
    LET cash == CashLeft(n, price, capital)
        worst == {k \in DOMAIN n :
                    /\ price[k] <= cash
                    /\ \A j \in DOMAIN n : price[j] <= cash =>
                          Short(n, w, price, capital, j) <= Short(n, w, price, capital, k)}
    IN  IF worst = {} THEN n ELSE [n EXCEPT ![Min(worst)] = @ + 1]
Buy(slices, w, price, capital) ==
    LET most == CashLeft(slices, price, capital) \div Min(Range(price))
        buy[i \in 0..most] == IF i = 0 THEN slices ELSE TopUp(buy[i - 1], w, price, capital)
    IN  buy[most]
Slices(w, price, capital) == [k \in DOMAIN w |-> (capital * w[k]) \div (1000 * price[k])]
Split(w, price, capital) == Buy(Slices(w, price, capital), w, price, capital)
SharesFor(chosen, y, capital) ==
    Split(Filled(chosen, y), [k \in DOMAIN chosen |-> Price(chosen[k])], capital)

PlanOf(chosen) ==
    [picks |-> chosen,
     shares |-> IF chosen = <<>> THEN <<>> ELSE SharesFor(chosen, asked.years, asked.capital)]
Plan == PlanOf(Choose(asked.years))
Deployed(p) == SumFunction([k \in DOMAIN p.picks |-> p.shares[k] * Price(p.picks[k])])

-----------------------------------------------------------------------------
AddsUp(p, w) ==
    LET n == Len(p.picks)
        left == asked.capital - Deployed(p)
    IN  n > 0 =>
        /\ left >= 0 /\ \A k \in DOMAIN p.picks : left < Price(p.picks[k])
        /\ Cardinality(Range(p.picks)) = n /\ n <= PickCount
        /\ \A k \in DOMAIN p.picks :
              Cardinality({j \in DOMAIN p.picks :
                  MetaOf[p.picks[j]].sector = MetaOf[p.picks[k]].sector}) <= PerSector
        /\ \A k \in DOMAIN w : w[k] <= CapOf3(n)
        /\ SumFunction(w) \in (1000 - 2 * n)..1000
PlanHolds(p) == AddsUp(p, Filled(p.picks, asked.years))

\* A plan spends the capital it was asked for and no more, until not one share more of
\* any pick can be bought; it holds no stock twice and no sector too often; and the
\* slices it aims at share the capital out, each within the cap.
PlanAddsUp == PlanHolds(Plan)

NamesCapped(p) ==
    \A k \in DOMAIN p.picks :
        1000 * (p.shares[k] - 1) * Price(p.picks[k]) <= CapOf3(Len(p.picks)) * asked.capital

\* The methodology shown with a plan says of its allocation "capped at 25% per name":
\* but for one share, no name is given more of the capital than the cap.
CapHolds == NamesCapped(Plan)
=============================================================================
