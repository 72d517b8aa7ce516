--------------------------- MODULE BacktestFill ----------------------------
(***************************************************************************)
(* `run_fill` (src/strategy_engine.rs): the simulator behind every edge.   *)
(* It walks the signals of one direction over one symbol's bars, opens at  *)
(* the close of the signal's bar, and holds the trade bar by bar until the *)
(* stop, the target or the day's last bar ends it.                         *)
(*                                                                         *)
(* The model is the policy every caller uses (SimConfig::legacy): a bar    *)
(* that spans stop and target counts as stopped. Profit is kept as a price *)
(* difference; dividing by the risk and subtracting the round-trip cost    *)
(* change no comparison made here. Which bars carry a signal, and what the *)
(* ATR was, is data.                                                       *)
(***************************************************************************)
EXTENDS Integers, Sequences, FiniteSets, FiniteSetsExt

CONSTANTS
    Series,        \* the bar series a symbol may have
    Atrs,          \* k x ATR at a signal's bar; 0 stands for NaN or <= 0
    RewardRisk     \* rr: the target's distance in risks

Bar == [day : Nat, low : Int, high : Int, close : Int]

\* Archived bars are sorted by time and well formed.
ASSUME SeriesAssumption ==
    \A b \in Series :
        /\ b \in Seq(Bar)
        /\ \A k \in DOMAIN b : b[k].low <= b[k].close /\ b[k].close <= b[k].high
        /\ \A k, l \in DOMAIN b : k <= l => b[k].day <= b[l].day
ASSUME AtrAssumption == Atrs \subseteq Nat /\ RewardRisk \in Nat \ {0}

VARIABLES
    bars, dir,     \* the series and the direction being simulated
    looked,        \* the last bar whose signal the walk has looked at
    freeFrom,      \* free_from: the first bar a new trade may start on
    open,          \* the trade being held, or NoTrade
    at,            \* j: the bar the held trade looks at next
    trades         \* trades booked, oldest first

fillVars == <<bars, dir, looked, freeFrom, open, at, trades>>

Directions == {"Long", "Short"}
Sign == IF dir = "Long" THEN 1 ELSE -1
NoTrade == [idx |-> 0, entry |-> 0, risk |-> 0, worst |-> 0]
Held == [idx : Nat \ {0}, entry : Int, risk : Nat \ {0}, worst : Nat]
Booked == [idx : Nat \ {0}, exit : Nat \ {0}, entry : Int, risk : Nat \ {0},
           gain : Int, worst : Nat]

Stop(t) == t.entry - Sign * t.risk
Target(t) == t.entry + Sign * (RewardRisk * t.risk)
HitStop(t, b) == IF dir = "Long" THEN b.low <= Stop(t) ELSE b.high >= Stop(t)
HitTarget(t, b) == IF dir = "Long" THEN b.high >= Target(t) ELSE b.low <= Target(t)
Adverse(t, b) == IF dir = "Long" THEN t.entry - b.low ELSE b.high - t.entry

-----------------------------------------------------------------------------
FillInit ==
    /\ bars \in Series
    /\ dir \in Directions
    /\ looked = 0
    /\ freeFrom = 1
    /\ open = NoTrade
    /\ at = 0
    /\ trades = <<>>

\* Mutant: a signal inside a trade already booked may open another.
UsableOverlapping(i, risk) ==
    /\ i + 1 <= Len(bars)
    /\ risk # 0
    /\ bars[i + 1].day = bars[i].day
Usable(i, risk) ==
    /\ i >= freeFrom /\ i + 1 <= Len(bars)
    /\ risk # 0
    /\ bars[i + 1].day = bars[i].day     \* else no room to manage it intraday

SkipSignal(i) ==
    /\ open = NoTrade /\ i > looked
    /\ \E risk \in Atrs : ~Usable(i, risk)
    /\ looked' = i
    /\ UNCHANGED <<bars, dir, freeFrom, open, at, trades>>

OpenTrade(i) ==
    /\ open = NoTrade /\ i > looked
    /\ \E risk \in Atrs :
         /\ Usable(i, risk)
         /\ open' = [idx |-> i, entry |-> bars[i].close, risk |-> risk, worst |-> 0]
    /\ looked' = i
    /\ at' = i + 1
    /\ UNCHANGED <<bars, dir, freeFrom, trades>>

\* The while loop's condition: `at` is a bar of the trade's day.
OnDay == at <= Len(bars) /\ bars[at].day = bars[open.idx].day

\* The trade with the heat of bar b counted, before its exit is decided.
WithHeat(t, b) ==
    [t EXCEPT !.worst = IF Adverse(t, b) > t.worst THEN Adverse(t, b) ELSE t.worst]

Outcome(t, bar, price) ==
    [idx |-> t.idx, exit |-> bar, entry |-> t.entry, risk |-> t.risk,
     gain |-> Sign * (price - t.entry), worst |-> t.worst]

Book(t, bar, price) ==
    /\ trades' = Append(trades, Outcome(t, bar, price))
    /\ freeFrom' = bar + 1
    /\ open' = NoTrade
    /\ at' = 0
    /\ UNCHANGED <<bars, dir, looked>>

\* A bar that spans both is stopped too.
StopOut ==
    /\ open # NoTrade /\ OnDay
    /\ HitStop(open, bars[at])
    /\ Book(WithHeat(open, bars[at]), at, Stop(open))

\* Mutant: a bar that spans both counts as won.
TakeProfitFirst ==
    /\ open # NoTrade /\ OnDay
    /\ HitTarget(open, bars[at])
    /\ Book(WithHeat(open, bars[at]), at, Target(open))
TakeProfit ==
    /\ open # NoTrade /\ OnDay
    /\ ~HitStop(open, bars[at]) /\ HitTarget(open, bars[at])
    /\ Book(WithHeat(open, bars[at]), at, Target(open))

Hold ==
    /\ open # NoTrade /\ OnDay
    /\ ~HitStop(open, bars[at]) /\ ~HitTarget(open, bars[at])
    /\ open' = WithHeat(open, bars[at])
    /\ at' = at + 1
    /\ UNCHANGED <<bars, dir, looked, freeFrom, trades>>

\* Neither level was touched: out at the close of the day's last bar.
SquareOff ==
    /\ open # NoTrade /\ ~OnDay
    /\ Book(open, at - 1, bars[at - 1].close)

FillNext ==
    \/ \E i \in DOMAIN bars : SkipSignal(i) \/ OpenTrade(i)
    \/ StopOut \/ TakeProfit \/ Hold \/ SquareOff

FillSpec == FillInit /\ [][FillNext]_fillVars

-----------------------------------------------------------------------------
FillTypeOK ==
    /\ dir \in Directions
    /\ looked \in 0..Len(bars)
    /\ freeFrom \in Nat
    /\ open \in Held \cup {NoTrade}
    /\ at \in 0..(Len(bars) + 1)
    /\ trades \in Seq(Booked)

\* One position at a time, each opened and closed on one day: a trade ends on
\* a later bar of its day, and before the next one starts.
OneTradeAtATime ==
    /\ \A k \in DOMAIN trades :
         /\ trades[k].idx < trades[k].exit /\ trades[k].exit <= Len(bars)
         /\ bars[trades[k].idx].day = bars[trades[k].exit].day
    /\ \A k, l \in DOMAIN trades : k < l => trades[k].exit < trades[l].idx

\* No trade gains more than its target or loses more than its stop, and the
\* heat it took tells which: the stop's distance was reached exactly when the
\* trade was booked as stopped. So a spanning bar is never booked as won.
StopsAreHonest ==
    \A k \in DOMAIN trades :
        LET t == trades[k] IN
        /\ -t.risk <= t.gain /\ t.gain <= RewardRisk * t.risk
        /\ t.worst >= t.risk <=> t.gain = -t.risk

\* What the walk computes, stated over the whole day at once: the first bar
\* that touches a level decides, the stop before the target; else the close of
\* the last bar.
Day(t) == {k \in DOMAIN bars : k > t.idx /\ bars[k].day = bars[t.idx].day}
Touches(t) == {k \in Day(t) : HitStop(t, bars[k]) \/ HitTarget(t, bars[k])}
ExitBar(t) == IF Touches(t) = {} THEN Max(Day(t)) ELSE Min(Touches(t))
ExitPrice(t) ==
    IF Touches(t) = {} THEN bars[ExitBar(t)].close
    ELSE IF HitStop(t, bars[ExitBar(t)]) THEN Stop(t) ELSE Target(t)
FirstTouchDecides ==
    \A k \in DOMAIN trades :
        LET t == trades[k] IN
        t.exit = ExitBar(t) /\ t.gain = Sign * (ExitPrice(t) - t.entry)
=============================================================================
