------------------------------- MODULE MCPages -------------------------------
EXTENDS Desk

CONSTANTS x, y

Day(d, close, turn) == [date |-> d, close |-> close, turn |-> turn]
MCDailyOf == (x :> {Day(3, 0, 0), Day(1, 400, 90000), Day(2, 400, 30000), Day(4, 400, 90000)})
          @@ (y :> {Day(1, 100, 1000), Day(2, 100, 900)})
MCCapOf == (x :> 1000) @@ (y :> 0)
Listed(s, suf) == <<s, suf>>
MCDumps == {{Listed(x, ""), Listed(y, ""), Listed(y, "BE")}, {Listed(x, ""), Listed(y, "")}}
MCWatched == {{}, {x}}
FitOf(s, dir, entry, sl, rr, exp) ==
    [sym |-> s, dir |-> dir, entry |-> entry, atr |-> 20, slPct |-> sl, rr |-> rr,
     conf |-> IF exp > 20 THEN 70 ELSE 50, exp |-> exp, winRate |-> 60, n |-> 60]
\* A wide and a tight stop, an edge below its cost, a name dearer than the risk allows.
MCFits == {FitOf(x, "BUY", 400, 75, 200, 30), FitOf(x, "SELL", 400, 125, 200, 20),
           FitOf(x, "SELL", 400, 100, 150, 2), FitOf(y, "BUY", 100, 100, 300, 30),
           FitOf(y, "SELL", 100, 125, 200, 40), FitOf(y, "BUY", 100, 75, 200, -5)}
MCRates == [brokerage |-> 3, cap |-> 20, stt |-> 3, turnover |-> 3, gst |-> 18, stamp |-> 1,
            slip |-> 3]
\* A tier, a budget of the tier's bucket, and one the picks page lifts to its least
\* capital and lowers to its largest risk.
Budget(c, r) == [capital |-> c, risk |-> r]
MCTiers == {Budget(20000, 5000)}
MCDialled == {Budget(20499, 5004), Budget(500, 9000)}
MCCapitalRange == <<1000, 30000>>
MCRiskRange == <<250, 7000>>
MCFallback == <<150, 200>>
MCBands == {NoQuote, <<380, 420>>, <<90, 420>>, <<50, 150>>}
=============================================================================
