------------------------------ MODULE MCRules ------------------------------
(***************************************************************************)
(* Model-checking instance of the rules that turn bars into a plan: the    *)
(* strategies' entries, the backtest's fills, the statistics of its        *)
(* trades, the search over them and the trade plan. They share no state,   *)
(* so each behaviour exercises one of them and the others rest where       *)
(* nothing of theirs can happen.                                           *)
(***************************************************************************)
EXTENDS TradePlan, BacktestFill, MCFinder, TradeStats, Signals, TLC

CONSTANTS a, b, unlisted, bank, NBars

MCSectorOf == (a :> bank) @@ (b :> bank) @@ (unlisted :> NoSector)
MCPrices == {[entry |-> 100, dist |-> 4], [entry |-> 400, dist |-> 2],
             [entry |-> 100, dist |-> 0]}
MCRawSettings == {[budget |-> 5, risk |-> 3], [budget |-> 10, risk |-> 9]}

\* Quiet, rising, falling and spanning bars, over days that follow each other.
Shapes == {<<2, 2, 2>>, <<2, 4, 4>>, <<0, 1, 1>>, <<1, 2, 2>>, <<0, 4, 2>>}
MCSeries ==
    {<<>>} \cup
    {[k \in 1..NBars |-> [day |-> d[k], low |-> s[k][1], high |-> s[k][2],
                          close |-> s[k][3]]] :
        s \in [1..NBars -> Shapes],
        d \in {e \in [1..NBars -> 1..2] :
                 \A k \in 2..NBars : e[k] >= e[k - 1]}}

MCGains == {-100, 0, 150}
MCTScore(rs) == 0

\* A quiet bar, a breakout and a fall through the range, with their volumes.
CandleOf(o, h, l, cl, v) == [open |-> o, high |-> h, low |-> l, close |-> cl, vol |-> v]
MCCandles == {CandleOf(100, 102, 98, 101, 10), CandleOf(104, 112, 103, 111, 40),
              CandleOf(97, 99, 88, 89, 20)}

VARIABLE part
rulesVars == <<part, vars, fillVars, findVars, history, chart>>

RulesInit ==
    /\ part \in {"plan", "fill", "find", "stats", "chart"}
    /\ FillInit /\ (bars = <<>> <=> part # "fill") /\ (part # "fill" => dir = "Long")
    /\ Init /\ (part # "plan" => settings.risk = RiskMax)
    /\ FindInit /\ HistoryInit /\ ChartInit
RulesNext ==
    /\ UNCHANGED part
    /\ \/ part = "plan" /\ Next /\ UNCHANGED <<fillVars, findVars, history, chart>>
       \/ part = "fill" /\ FillNext /\ UNCHANGED <<vars, findVars, history, chart>>
       \/ part = "find" /\ FindNext /\ UNCHANGED <<vars, fillVars, history, chart>>
       \/ part = "stats" /\ HistoryNext /\ UNCHANGED <<vars, fillVars, findVars, chart>>
       \/ part = "chart" /\ ChartNext /\ UNCHANGED <<vars, fillVars, findVars, history>>
RulesSpec == RulesInit /\ [][RulesNext]_rulesVars
=============================================================================
