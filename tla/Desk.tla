-------------------------------- MODULE Desk --------------------------------
(***************************************************************************)
(* From the fit universe to an order on the desk: sizing                   *)
(* (suggestion_engine::find_capital_fit), the picks page (picks.rs), the   *)
(* staging console (execution_staging.rs, staging_handler) and the exit    *)
(* guard (exit_guard.rs), with charges and cost floor (costs.rs,           *)
(* cost_floor.rs). The pages read the same ranked rows and the tradability *)
(* index of the moment. The rows come from the slot of the asked budget's  *)
(* bucket (cache.rs), sized for whichever budget of it was asked first.    *)
(*                                                                         *)
(* Money and prices are whole numbers, a bracket's geometry is in percent  *)
(* of the ATR, R in hundredths, charges in basis points, risk in tenths of *)
(* a basis point.                                                          *)
(***************************************************************************)
EXTENDS Tradability, SeqFilter

CONSTANTS
    Fits,          \* FitBest records a scan may find: [sym, dir, entry, atr, slPct, rr,
                   \* conf, exp, winRate, n]
    Dialled,       \* budgets typed on the finder or the picks page: [capital, risk]
    Tiers,         \* budgets of the staging console: the pool at each risk tier
    CapitalRange,  \* <<50000, 7500000>>: what the picks page takes
    RiskRange,     \* <<250, 7000>>
    MaxLeverage,   \* 5
    PerSide,       \* 5
    LimitPct,      \* 10: STAGING_LIMIT_ATR_MULT
    FallbackPct,   \* <<150, 200>>: SL_ATR_MULT and DEFAULT_RR
    CostBps,       \* backtest_roundtrip_pct
    Rates,         \* [brokerage, cap, stt, turnover, gst, stamp, slip]: basis points,
                   \* gst percent
    ShareCap,      \* LIQUIDITY_PARTICIPATION_CAP, percent
    Bands          \* circuit bands a live quote shows: <<lower, upper>>, or NoQuote
NoQuote == <<>>
Budgets == [capital : Nat, risk : Nat]

\* A tier sits in the middle of its bucket: the pool is in whole thousands, a tier in
\* whole basis points. RR_CONFIGS has no stop within a fiftieth of the ATR and no reward below the risk;
\* so no row's own bracket rounds to nothing.
ASSUME DeskAssumption ==
    /\ Dialled \subseteq Budgets /\ Tiers \subseteq Budgets
    /\ \A b \in Tiers : b.capital % 1000 = 0 /\ b.risk % 10 = 0
    /\ \A range \in {CapitalRange, RiskRange} :
          range \in Nat \X Nat /\ range[1] <= range[2]
    /\ {PerSide, MaxLeverage, LimitPct} \subseteq Nat
    /\ \A b \in Fits :
          /\ b.dir \in {"BUY", "SELL"} /\ {b.entry, b.atr} \subseteq Nat
          /\ b.slPct \in Nat /\ b.slPct >= 2 /\ b.rr \in Nat /\ b.rr >= 100

VARIABLES
    fits,  \* the fit universe: one FitBest per name at most
    ask,   \* the budget a page was last asked for
    filled \* the budget its rows were sized for

deskVars == <<tradVars, fits, ask, filled>>

Abs(x) == IF x < 0 THEN -x ELSE x
Least(x, y) == IF x < y THEN x ELSE y
SideOf(dir) == IF dir = "SELL" THEN -1 ELSE 1

-----------------------------------------------------------------------------
\* costs.rs: charges of a round trip and the profit they leave.
Brokerage(leg) == Least((Rates.brokerage * leg) \div 10000, Rates.cap)

RoundTrip(buy, sell) ==
    LET brokerage == Brokerage(buy) + Brokerage(sell)
        turnover == (Rates.turnover * (buy + sell)) \div 10000
    IN  brokerage + turnover + (Rates.gst * (brokerage + turnover)) \div 100
        + (Rates.stt * sell) \div 10000 + (Rates.stamp * buy) \div 10000
        + (Rates.slip * (buy + sell)) \div 10000

NetPnl(qty, entry, exit, dir) ==
    LET in == qty * entry
        out == qty * exit
    IN  IF dir = "BUY" THEN out - in - RoundTrip(in, out) ELSE in - out - RoundTrip(out, in)

\* cost_floor::assess: the edge is smaller than the cost of one round trip, both
\* in R; nothing stands aside without a risk distance.
StandAside(entry, stop, exp) ==
    LET risk == Abs(entry - stop)
    IN  IF risk = 0 \/ entry <= 0 THEN exp < 0 ELSE 100 * exp * risk < CostBps * entry

-----------------------------------------------------------------------------
\* find_capital_fit.
StopDist(b) == (b.slPct * b.atr) \div 100
ByRisk(b) == (filled.capital * filled.risk) \div (100000 * StopDist(b))
Affordable(b) == (filled.capital * MaxLeverage) \div b.entry
Shares(b) == Least(ByRisk(b), Affordable(b))

Sized(b) ==
    LET stop == b.entry - SideOf(b.dir) * StopDist(b)
        target == b.entry + SideOf(b.dir) * ((b.rr * StopDist(b)) \div 100)
    IN  [sym |-> b.sym, dir |-> b.dir, entry |-> b.entry, atr |-> b.atr, stop |-> stop,
         target |-> target, shares |-> Shares(b), byRisk |-> ByRisk(b),
         fit |-> IF ByRisk(b) <= Affordable(b) THEN "ideal" ELSE "leverage_bound",
         profit |-> NetPnl(Shares(b), b.entry, target, b.dir),
         loss |-> NetPnl(Shares(b), b.entry, stop, b.dir),
         conf |-> b.conf, exp |-> b.exp, winRate |-> b.winRate, n |-> b.n]

\* Confidence times the share of the wanted size that buying power allows.
FitAbove(r, s) == r.conf * r.shares * s.byRisk > s.conf * s.shares * r.byRisk

\* A stable sort puts a row behind those that are no worse.
Placed(rows, r) ==
    InsertAt(rows, Cardinality({k \in DOMAIN rows : ~FitAbove(r, rows[k])}) + 1, r)

\* By fit score, the names of which one share can be had.
Ranked ==
    LET usable == Filter(fits, {b \in Range(fits) : StopDist(b) > 0 /\ b.entry > 0})
        sized == [k \in DOMAIN usable |-> Sized(usable[k])]
    IN  FoldLeft(Placed, <<>>, Filter(sized, {r \in Range(sized) : r.shares >= 1}))

-----------------------------------------------------------------------------
VerdictOf(s) == IF s \in DOMAIN index THEN index[s].verdict ELSE "unverified"

\* The line under a row.
NoteOf(s) == IF VerdictOf(s) \in {"high_risk", "caution", "unverified"} THEN VerdictOf(s) ELSE "none"

FirstOf(rows, n) == SubSeq(rows, 1, Least(n, Len(rows)))

\* The names seen so far are skipped.
FirstOfName(rows, r) ==
    IF \E k \in DOMAIN rows : rows[k].sym = r.sym THEN rows ELSE Append(rows, r)

\* picks::top_side: of one side, what can be traded and pays for itself, one row
\* per name.
TopSide(dir) ==
    LET usable == Filter(Ranked, {r \in Range(Ranked) :
                      /\ r.dir = dir /\ VerdictOf(r.sym) # "blocked"
                      /\ r.exp > 0 /\ r.shares > 0 /\ ~StandAside(r.entry, r.stop, r.exp)})
    IN  FirstOf(FoldLeft(FirstOfName, <<>>, usable), PerSide)

\* build: the target readout grows with the median edge of what is shown; a
\* multiple up to 1.5 is reasonable, up to 3 aggressive.
TargetRealism(from, to) ==
    LET shown == TopSide("BUY") \o TopSide("SELL")
        growth == ask.risk * MedianOf([k \in DOMAIN shown |-> shown[k].exp])
    IN  IF from <= 0 \/ to <= from THEN "none"
        ELSE IF growth <= 0 THEN "unrealistic"
        ELSE IF 2 * to <= 3 * from THEN "reasonable"
        ELSE IF to <= 3 * from THEN "aggressive" ELSE "unrealistic"

-----------------------------------------------------------------------------
\* Mutant: every row is staged with the global bracket.
RowBracketGlobal(r) == FallbackPct

\* row_bracket_mults: stop and target of the row in percent of its ATR.
RowBracket(r) ==
    LET stopPct == (100 * Abs(r.entry - r.stop)) \div r.atr
        targetPct == (100 * Abs(r.target - r.entry)) \div r.atr
    IN  IF r.atr > 0 /\ r.entry > 0 /\ stopPct > 0 /\ targetPct > 0
        THEN <<stopPct, targetPct>> ELSE FallbackPct

\* stage_bracket: a passive limit a little inside the last price, stop and target
\* measured from it.
Bracket(r) ==
    LET pct == RowBracket(r)
        limit == r.entry - SideOf(r.dir) * ((LimitPct * r.atr) \div 100)
    IN  [sym |-> r.sym, dir |-> r.dir, qty |-> r.shares, limit |-> limit,
         stop |-> limit - SideOf(r.dir) * ((pct[1] * r.atr) \div 100),
         target |-> limit + SideOf(r.dir) * ((pct[2] * r.atr) \div 100),
         note |-> NoteOf(r.sym)]

\* Mutant: the console forgets the cost floor.
StagesBelowCost(r) == VerdictOf(r.sym) # "blocked" /\ r.exp > 0 /\ r.shares > 0

\* The console drops what the picks drop: blocked names, no edge, no share, an
\* edge below its cost.
Stages(r) ==
    /\ VerdictOf(r.sym) # "blocked" /\ r.exp > 0 /\ r.shares > 0
    /\ ~StandAside(r.entry, r.stop, r.exp)

\* staging_handler: one pass over the rows until both sides are full.
Console(dir) ==
    LET rows == Filter(Ranked, {r \in Range(Ranked) : r.dir = dir /\ Stages(r)})
    IN  FirstOf([k \in DOMAIN rows |-> Bracket(rows[k])], PerSide)

-----------------------------------------------------------------------------
\* assess_exit as exit_guard_handler calls it: what the index or the quote does
\* not know is missing. The band that matters is the one against the position.
Guard(s, dir, entry, stop, notional, band) ==
    LET picture == IF s \in DOMAIN index THEN index[s] ELSE [verdict |-> "none", turn |-> 0]
        adverse == IF band = NoQuote THEN 0 ELSE IF dir = "SELL" THEN band[2] ELSE band[1]
        known == adverse > 0 /\ entry > 0
    IN  IF picture.verdict = "blocked" THEN "blocked"
        ELSE IF known /\ SideOf(dir) * (stop - adverse) <= 0 THEN "unreachable_stop"
        ELSE IF picture.turn > 0 /\ 100 * notional > ShareCap * picture.turn THEN "caution"
        ELSE IF picture.verdict \in {"high_risk", "caution"} THEN "caution"
        ELSE IF ~known THEN "unknown" ELSE "ok"

-----------------------------------------------------------------------------
\* CapRiskKey: to the nearest thousand, to the nearest basis point, halves up.
CapRiskKey(b) == [cap |-> (b.capital + 500) \div 1000, risk |-> (b.risk + 5) \div 10]

Clamp(v, range) == IF v < range[1] THEN range[1] ELSE IF v > range[2] THEN range[2] ELSE v
OnPicks(b) ==
    [capital |-> Clamp(b.capital, CapitalRange), risk |-> Clamp(b.risk, RiskRange)]

\* Who fills a slot: the finder, which takes what is typed, picks and staging.
Fillers == Dialled \cup Tiers \cup {OnPicks(b) : b \in Dialled}
SharingSlot(b) == {c \in Fillers : CapRiskKey(c) = CapRiskKey(b)}

\* The first request for picks or staging.
DeskInit ==
    /\ TradInit
    /\ fits = <<>>
    /\ ask \in Tiers \cup {OnPicks(b) : b \in Dialled}
    /\ filled \in SharingSlot(ask)

\* picks_handler and staging_handler: a request is served from its bucket's slot.
Request(b) ==
    /\ ask' = b
    /\ filled' \in SharingSlot(b)
    /\ UNCHANGED <<tradVars, fits>>
AskPicks == \E b \in Dialled : Request(OnPicks(b))
AskStaging == \E b \in Tiers : Request(b)

\* The scan finds the next name's best edge; names come in a fixed order.
FitNext ==
    /\ \E b \in Fits :
        /\ \A k \in DOMAIN fits : fits[k].sym # b.sym
        /\ fits' = Append(fits, b)
    /\ UNCHANGED <<tradVars, ask, filled>>

DeskNext ==
    FitNext \/ AskPicks \/ AskStaging \/ (TradNext /\ UNCHANGED <<fits, ask, filled>>)
DeskSpec == DeskInit /\ [][DeskNext]_deskVars

-----------------------------------------------------------------------------
\* "Same exclusions the /picks card applies": from the same rows and index the
\* two pages show the same names in the same order, with the same size and the
\* same warning, and the exit guard clears no order they warn of, whatever the
\* quote shows.
PagesAgree ==
    \A dir \in {"BUY", "SELL"} :
        /\ Len(TopSide(dir)) = Len(Console(dir))
        /\ \A k \in DOMAIN Console(dir) :
              /\ Console(dir)[k].sym = TopSide(dir)[k].sym
              /\ Console(dir)[k].qty = TopSide(dir)[k].shares
              /\ Console(dir)[k].note = NoteOf(TopSide(dir)[k].sym)
              /\ LET o == Console(dir)[k] IN
                 \A band \in Bands :
                    Guard(o.sym, dir, o.limit, o.stop, o.qty * o.limit, band) = "ok"
                        => o.note \in {"none", "unverified"}

\* A staged order exceeds the tier it was asked for by no more than the rounding of
\* its bucket, half a thousand of capital and half a basis point of risk, although
\* its rows may have been sized for what another page asked, and its bracket hangs on
\* another price than the row was sized at; a bought one needs no more buying power.
StagedWithinRisk ==
    ask \in Tiers =>
        \A dir \in {"BUY", "SELL"} : \A k \in DOMAIN Console(dir) :
            LET o == Console(dir)[k] IN
            /\ 100000 * o.qty * Abs(o.limit - o.stop) < (ask.capital + 500) * (ask.risk + 5)
            /\ dir = "BUY" => o.qty * o.limit <= MaxLeverage * (ask.capital + 500)

\* exit_guard.rs:14-17, "the caller supplies `None` for any live value it couldn't
\* fetch, and the guard degrades to an honest "verify" rather than a false
\* all-clear": a name that is not in the index is not cleared.
UnknownNotCleared ==
    \A s \in Names \ DOMAIN index : \A band \in Bands : \A k \in DOMAIN Ranked :
        LET r == Ranked[k] IN
        r.sym = s => Guard(s, r.dir, r.entry, r.stop, r.shares * r.entry, band) # "ok"
=============================================================================
