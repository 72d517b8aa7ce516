------------------------------ MODULE Holdings ------------------------------
(***************************************************************************)
(* The portfolio page: a broker statement becomes one position per stock,  *)
(* the book's risk picture (src/holdings_analytics.rs) and an illustrative *)
(* rotation (src/portfolio_rotation.rs). All of it is recomputed from the  *)
(* statement as it is uploaded; `statement` grows line by line and the     *)
(* archive is what it happens to be.                                       *)
(*                                                                         *)
(* A cell that is empty or unreadable is 0, a name that is missing NoName. *)
(* A lot keeps what was paid for it, quantity times average cost; weights  *)
(* and returns are compared without dividing where that is possible.       *)
(***************************************************************************)
EXTENDS SeqFilter, FiniteSetsExt, SequencesExt, Functions

CONSTANTS
    Lines,        \* what a line may be: [head, stock, qty, avg, paid, broker, sector, mark]
    MaxLines,     \* bound: lines of a statement
    Archives,     \* possible archives: stock -> bars [day, close], oldest first
    Benchmark,    \* closes of NIFTY50
    NoName,
    Edged,        \* stocks with an eligible edge
    LongEdged,    \* those of them whose edge is long
    EdgeSeat,     \* stock -> its place when the edge map is iterated
    Demerged,     \* stocks whose trend a demerger distorts
    MinSessions,  \* CORR_MIN_SESSIONS
    Linkage,      \* CORR_CLUSTER_THRESHOLD, percent
    MinHistory,   \* 60 bars
    Sma50, Sma200, Quarter, HalfYear, OneYear,  \* bars: 50, 200, 63, 126, 252
    TaxExempt,    \* LTCG_EXEMPTION
    Redeploy      \* REDEPLOY_NAMES

\* Cells are numbers and a header's columns finitely many, as a line has.
ASSUME HoldingAssumption ==
    /\ \A l \in Lines : /\ l.qty \in Int /\ l.avg \in Int /\ l.paid \in Int /\ l.mark \in Int
                        /\ IsFiniteSet(l.head)
    /\ \A a \in Archives, s \in LongEdged \cup {l.stock : l \in {m \in Lines : m.qty > 0}} :
          a[s] \in Seq([day : Int, close : Int])
    /\ Benchmark \in Seq(Int)
    /\ IsFiniteSet(LongEdged)
    /\ \A s \in LongEdged : EdgeSeat[s] \in Nat
    /\ \A s, t \in LongEdged : EdgeSeat[s] = EdgeSeat[t] => s = t
    /\ {MinHistory, Quarter, HalfYear, OneYear, Redeploy} \subseteq Nat
    /\ TaxExempt \in Int

VARIABLES statement, archive
holdingVars == <<statement, archive>>

HoldingInit == statement = <<>> /\ archive \in Archives

AppendLine ==
    /\ Len(statement) < MaxLines
    /\ \E l \in Lines : statement' = Append(statement, l)
    /\ UNCHANGED archive

HoldingNext == AppendLine
HoldingSpec == HoldingInit /\ [][HoldingNext]_holdingVars

-----------------------------------------------------------------------------
\* Reading the statement.

\* header_map: a line is a header when it names a price column; the one that resolves
\* most columns is taken, the earliest of those.
HeaderAt(f) ==
    LET heads == {i \in DOMAIN f : f[i].head \cap {"avg", "paid"} # {}}
        most == {i \in heads : \A j \in heads : Cardinality(f[j].head) <= Cardinality(f[i].head)}
    IN  IF heads = {} THEN 0 ELSE Min(most)

\* Without one, the first line must look like data: symbol, quantity, average, broker,
\* sector.
LooksLikeData(f) == f # <<>> /\ f[1].qty # 0 /\ f[1].avg # 0
Columns(f) ==
    IF HeaderAt(f) # 0 THEN f[HeaderAt(f)].head
    ELSE IF LooksLikeData(f) THEN {"avg", "broker", "sector"} ELSE {}
DataLines(f) == IF Columns(f) = {} THEN {} ELSE (HeaderAt(f) + 1)..Len(f)

\* parse_row: the total paid is preferred to the printed average.
Paid(l, cols) ==
    IF l.qty <= 0 THEN 0
    ELSE IF "paid" \in cols /\ l.paid > 0 THEN l.paid
    ELSE IF "avg" \in cols /\ l.avg > 0 THEN l.qty * l.avg ELSE 0

ReadLot(l, cols) ==
    [stock |-> l.stock, qty |-> l.qty, cost |-> Paid(l, cols),
     brokers |-> IF "broker" \in cols /\ l.broker # NoName THEN {l.broker} ELSE {"Unknown"},
     sector |-> IF "sector" \in cols THEN l.sector ELSE NoName,
     mark |-> IF "last" \in cols /\ l.mark > 0 THEN l.mark ELSE 0]

Readable(f) == {i \in DataLines(f) : f[i].stock # NoName /\ Paid(f[i], Columns(f)) > 0}
Lots(f) ==
    LET at == Sorted(Readable(f), {p \in Readable(f) \X Readable(f) : p[1] < p[2]})
    IN  [k \in DOMAIN at |-> ReadLot(f[at[k]], Columns(f))]
Skipped(f) == {i \in DataLines(f) : f[i].stock # NoName} \ Readable(f)

-----------------------------------------------------------------------------
\* Mutant: the average cost of the first lot stands for all.
JoinUnweighted(p, l) ==
    [p EXCEPT !.qty = @ + l.qty, !.cost = ((p.qty + l.qty) * @) \div p.qty,
              !.brokers = @ \cup l.brokers,
              !.sector = IF @ = NoName THEN l.sector ELSE @,
              !.mark = IF @ = 0 THEN l.mark ELSE @]

\* Quantities and costs sum; the first sector and the first mark are kept.
Join(p, l) ==
    [p EXCEPT !.qty = @ + l.qty, !.cost = @ + l.cost, !.brokers = @ \cup l.brokers,
              !.sector = IF @ = NoName THEN l.sector ELSE @,
              !.mark = IF @ = 0 THEN l.mark ELSE @]

\* merge_holdings: one position per stock, in order of first appearance.
Merged(book, l) ==
    LET at == {k \in DOMAIN book : book[k].stock = l.stock}
    IN  IF at = {} THEN Append(book, l) ELSE [book EXCEPT ![Min(at)] = Join(@, l)]
MergeHoldings(lots) == FoldLeft(Merged, <<>>, lots)

\* A position is marked by its statement, else by the archive's last close, else at cost.
LastClose(bars) == IF bars = <<>> THEN 0 ELSE Last(bars).close
Marked(p) ==
    LET mark == IF p.mark > 0 THEN p.mark ELSE LastClose(archive[p.stock])
    IN  [stock |-> p.stock, qty |-> p.qty, cost |-> p.cost, brokers |-> p.brokers,
         sector |-> p.sector, mark |-> mark, live |-> mark > 0,
         value |-> IF mark > 0 THEN p.qty * mark ELSE p.cost]
Positions(f) ==
    LET book == MergeHoldings(Lots(f)) IN [k \in DOMAIN book |-> Marked(book[k])]

ValueOf(ps, at) == SumFunction([k \in at |-> ps[k].value])
CostOf(ps, at) == SumFunction([k \in at |-> ps[k].cost])
Whole(ps) == ValueOf(ps, DOMAIN ps)
\* Weighs at least pct percent of the book.
Heavy(ps, value, pct) == 100 * value >= pct * Whole(ps)

-----------------------------------------------------------------------------
\* analyze: exposures, flags and concentration.

SectorLabel(p) == IF p.sector = NoName THEN "Unknown" ELSE p.sector
InSector(ps, s) == {k \in DOMAIN ps : SectorLabel(ps[k]) = s}
InBrokers(ps, b) == {k \in DOMAIN ps : ps[k].brokers = b}
ExposureRow(ps, at) ==
    [names |-> Cardinality(at), value |-> ValueOf(ps, at),
     pnl |-> ValueOf(ps, at) - CostOf(ps, at),
     heat |-> IF Heavy(ps, ValueOf(ps, at), 40) THEN "high"
              ELSE IF Heavy(ps, ValueOf(ps, at), 20) THEN "elevated" ELSE "normal"]
BySector(ps) == [s \in {SectorLabel(ps[k]) : k \in DOMAIN ps} |-> ExposureRow(ps, InSector(ps, s))]
ByBroker(ps) == [b \in {ps[k].brokers : k \in DOMAIN ps} |-> ExposureRow(ps, InBrokers(ps, b))]

\* A deep loss comes before concentration, that before the sector, that before no edge.
Flag(ps, k) ==
    IF 100 * (ps[k].value - ps[k].cost) <= -(25 * ps[k].cost) THEN "deep_loss"
    ELSE IF Heavy(ps, ps[k].value, 25) THEN "concentration"
    ELSE IF Heavy(ps, BySector(ps)[SectorLabel(ps[k])].value, 40) THEN "sector_overweight"
    ELSE IF ps[k].stock \notin Edged THEN "no_edge" ELSE ""

\* The sum of squared weights against 1500 and 2500 of 10000.
Concentration(ps) ==
    LET squares == SumFunction([k \in DOMAIN ps |-> ps[k].value * ps[k].value])
        whole == Whole(ps) * Whole(ps)
    IN  IF 10000 * squares < 1500 * whole THEN "diversified"
        ELSE IF 10000 * squares < 2500 * whole THEN "moderate" ELSE "concentrated"

SectorClusters(ps) ==
    {InSector(ps, s) : s \in {t \in DOMAIN BySector(ps) :
        t # "Unknown" /\ BySector(ps)[t].names >= 2 /\ Heavy(ps, BySector(ps)[t].value, 25)}}

-----------------------------------------------------------------------------
\* Correlation of daily returns over the days all names with enough bars share.

DaysOf(bars) == {bars[i].day : i \in DOMAIN bars}
CloseOn(bars, d) == (CHOOSE i \in DOMAIN bars : bars[i].day = d)
Used(ps) == {k \in DOMAIN ps : Len(archive[ps[k].stock]) >= MinSessions + 1}
Dropped(ps) == DOMAIN ps \ Used(ps)
CommonDays(ps) ==
    SetToSortSeq({d \in UNION {DaysOf(archive[ps[k].stock]) : k \in Used(ps)} :
                    \A k \in Used(ps) : d \in DaysOf(archive[ps[k].stock])}, <)
Correlated(ps) == Cardinality(Used(ps)) >= 2 /\ Len(CommonDays(ps)) >= MinSessions + 1

\* Returns in basis points, between days that follow each other in the common set.
Returns(ps, k) ==
    LET days == CommonDays(ps)
        bars == archive[ps[k].stock]
        C(i) == bars[CloseOn(bars, days[i])].close
    IN  [i \in 1..(Len(days) - 1) |-> (10000 * (C(i + 1) - C(i))) \div C(i)]
Spread(r) == LET mean == SumFunction(r) \div Len(r) IN [i \in DOMAIN r |-> r[i] - mean]
Covariance(r, t) ==
    SumFunction([i \in DOMAIN r |-> (Spread(r)[i] * Spread(t)[i]) \div 100])
\* rho at or above the threshold; a flat series correlates with nothing.
Together(cov, vj, vk) ==
    /\ cov > 0 /\ vj > 0 /\ vk > 0
    /\ (cov * 100) \div vj >= (Linkage * ((Linkage * vk) \div cov)) \div 100
Correlate(r, t) == Together(Covariance(r, t), Covariance(r, r), Covariance(t, t))
Linked(ps, j, k) == Correlate(Returns(ps, j), Returns(ps, k))

\* Single linkage: whatever is reached link by link.
Touching(ps, i, j) == i # j /\ Linked(ps, Min({i, j}), Max({i, j}))
Reached(ps, k) ==
    LET grow[n \in 0..Len(ps)] ==
            IF n = 0 THEN {k}
            ELSE grow[n - 1] \cup {j \in Used(ps) : \E i \in grow[n - 1] : Touching(ps, i, j)}
    IN  grow[Len(ps)]

\* attach_correlation replaces the sectors' clusters.
Clusters(ps) ==
    IF Correlated(ps)
    THEN {c \in {Reached(ps, k) : k \in Used(ps)} : Cardinality(c) >= 2}
    ELSE SectorClusters(ps)

-----------------------------------------------------------------------------
\* Rotation. Signals come of the closes; a quotient is in percent.

ClosesOf(bars) == [i \in DOMAIN bars |-> bars[i].close]
NoReturn == <<>>
ReturnOver(c, n) ==
    IF Len(c) > n /\ c[Len(c) - n] > 0
    THEN <<(100 * (Last(c) - c[Len(c) - n])) \div c[Len(c) - n]>> ELSE NoReturn
OrZero(r) == IF r = NoReturn THEN 0 ELSE r[1]
Latest(c, n) == SubSeq(c, Len(c) - Min({n, Len(c)}) + 1, Len(c))
\* Above (below, on) the mean of the last n closes: the sign of vs50 and vs200.
Versus(c, n) == Last(c) * Len(Latest(c, n)) - SumFunction(Latest(c, n))
Relative(c, n) ==
    IF NoReturn \in {ReturnOver(c, n), ReturnOver(Benchmark, n)} THEN NoReturn
    ELSE <<ReturnOver(c, n)[1] - ReturnOver(Benchmark, n)[1]>>
OffHigh(c) == LET high == Max(Range(Latest(c, OneYear))) IN (100 * (Last(c) - high)) \div high

\* signal_from and trend_label.
HasSignal(c) == c # <<>> /\ Len(c) >= MinHistory /\ Last(c) > 0
TrendLabel(c) ==
    LET vs200 == Versus(c, Sma200)
        mom3 == OrZero(ReturnOver(c, Quarter))
    IN  IF vs200 > 0 /\ mom3 > 0 THEN "Uptrend"
        ELSE IF vs200 < 0 /\ OrZero(ReturnOver(c, OneYear)) < 0 /\ mom3 < 0 THEN "Downtrend"
        ELSE "Sideways"

\* classify: a distorted trend and a missing one come first.
ActionOf(ps, k) ==
    LET c == ClosesOf(archive[ps[k].stock])
        rs == Relative(c, OneYear)
    IN  IF ps[k].stock \in Demerged THEN "Hold*"
        ELSE IF ~HasSignal(c) THEN "Hold"
        ELSE IF TrendLabel(c) = "Downtrend" /\ OrZero(rs) < -15 THEN "Rotate out"
        ELSE IF TrendLabel(c) = "Uptrend" /\ (rs = NoReturn \/ OrZero(rs) > 0) THEN "Leader"
        ELSE IF Heavy(ps, ps[k].value, 12) /\ Versus(c, Sma200) < 0 /\ OrZero(rs) < 0 THEN "Trim"
        ELSE "Hold"

\* screen_buy_candidates: long edges not held, above both averages, ahead of the market
\* over both spans and near the high; the strongest first, equals as the map yields them.
Strength(s) ==
    LET c == ClosesOf(archive[s]) IN OrZero(Relative(c, HalfYear)) + OrZero(Relative(c, OneYear))
Stronger(S) ==
    {p \in S \X S : \/ Strength(p[1]) > Strength(p[2])
                    \/ Strength(p[1]) = Strength(p[2]) /\ EdgeSeat[p[1]] < EdgeSeat[p[2]]}
BuyCandidates(ps) ==
    LET held == {ps[k].stock : k \in DOMAIN ps}
        Screened(s) ==
            LET c == ClosesOf(archive[s])
            IN  /\ HasSignal(c)
                /\ Versus(c, Sma50) > 0 /\ Versus(c, Sma200) > 0
                /\ OrZero(Relative(c, HalfYear)) > 0 /\ OrZero(Relative(c, OneYear)) > 0
                /\ OffHigh(c) >= -18
        found == {s \in LongEdged \ held : Screened(s)}
    IN  Sorted(found, Stronger(found))

\* Tenths of a position sold, and x tenths rounded.
Tenths(action) == IF action = "Rotate out" THEN 10 ELSE IF action = "Trim" THEN 6 ELSE 0
InTenths(x, tenths) ==
    IF x >= 0 THEN (x * tenths + 5) \div 10 ELSE -((5 - x * tenths) \div 10)

\* build_plan: money in thousandths where the tax makes it fractional.
Sells(ps) == {k \in DOMAIN ps : Tenths(ActionOf(ps, k)) > 0}
SellRow(ps, k) ==
    LET part == Tenths(ActionOf(ps, k))
    IN  [shares |-> InTenths(ps[k].qty, part), cash |-> InTenths(ps[k].value, part),
         gain |-> InTenths(ps[k].value - ps[k].cost, part)]
CashRaised(ps) == SumFunction([k \in Sells(ps) |-> SellRow(ps, k).cash])
Gain(ps) == SumFunction([k \in Sells(ps) |-> SellRow(ps, k).gain])
Tax(gain) == 125 * Max({0, gain - TaxExempt})
ToRedeploy(ps) == Max({0, 1000 * CashRaised(ps) - Tax(Gain(ps))})
BuyRows(names, n, money) ==
    [i \in 1..n |-> [stock |-> names[i],
                     shares |-> IF LastClose(archive[names[i]]) > 0
                                THEN money \div (1000 * n * LastClose(archive[names[i]])) ELSE 0]]
Redeployed(names, money) == BuyRows(names, Min({Redeploy, Len(names)}), money)
Buys(ps) ==
    IF Sells(ps) = {} \/ ToRedeploy(ps) = 0 THEN <<>>
    ELSE Redeployed(BuyCandidates(ps), ToRedeploy(ps))
\* What is kept of a position, in tenths of money.
KeptTenths(ps, k) == (10 - Tenths(ActionOf(ps, k))) * ps[k].value

-----------------------------------------------------------------------------
\* Nothing is lost or counted twice on the way from the statement to the page: the
\* positions hold and cost what the readable lines do, and every line under the header
\* is read, warned of or nameless; sectors and brokers each add up to the book, and
\* clusters do not overlap.
BookAddsUp ==
    LET f == statement
        ps == Positions(f)
        all == Readable(f)
    IN  /\ SumFunction([k \in DOMAIN ps |-> ps[k].qty]) = SumFunction([i \in all |-> f[i].qty])
        /\ CostOf(ps, DOMAIN ps) = SumFunction([i \in all |-> Paid(f[i], Columns(f))])
        /\ \A i \in DataLines(f) :
              (\E k \in DOMAIN ps : ps[k].stock = f[i].stock) \/ i \in Skipped(f)
              \/ f[i].stock = NoName
        /\ SumFunction([s \in DOMAIN BySector(ps) |-> BySector(ps)[s].value]) = Whole(ps)
        /\ SumFunction([b \in DOMAIN ByBroker(ps) |-> ByBroker(ps)[b].value]) = Whole(ps)
        /\ \A c, d \in Clusters(ps) : c = d \/ c \cap d = {}

RotationHolds(ps, sells, buys, cash, spend) ==
    LET kept == SumFunction([k \in DOMAIN ps |-> KeptTenths(ps, k)])
        off == 10 * cash + kept - 10 * Whole(ps)
    IN  /\ off <= 5 * Cardinality(sells) /\ -off <= 5 * Cardinality(sells)
        /\ \A k \in sells : SellRow(ps, k).shares <= ps[k].qty
        /\ 1000 * SumFunction([i \in DOMAIN buys |->
                                  buys[i].shares * LastClose(archive[buys[i].stock])]) <= spend
        /\ spend <= 1000 * cash
        /\ \A i \in DOMAIN buys, k \in DOMAIN ps : buys[i].stock # ps[k].stock
RotationOf(ps) == RotationHolds(ps, Sells(ps), Buys(ps), CashRaised(ps), ToRedeploy(ps))

\* The rotation moves money and makes none: what is sold and what is kept are the
\* book, to a rounded unit per sale, no more shares are sold than are held, the buys
\* cost no more than was raised, and nothing sold or held is bought.
RotationAddsUp == RotationOf(Positions(statement))
=============================================================================
