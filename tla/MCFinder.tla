------------------------------ MODULE MCFinder ------------------------------
EXTENDS Finder
CONSTANTS vwap, orb

\* A strong, a losing, a small and a thin sample.
Strong == ConfInput(120, 60, 20, 180, 3, 24, 60, 58, 20, 3, 45, TRUE, 75, 100, "unknown")
Losing == ConfInput(60, 40, -10, 80, 8, -6, 40, 30, -5, 9, 0, TRUE, 50, 100, "unknown")
Small  == ConfInput(30, 60, 30, 180, 2, 9, 60, NoOos, 0, 2, 45, TRUE, 100, 100, "unknown")
Thin   == ConfInput(12, 60, 30, 180, 2, 9, 60, NoOos, 0, 2, 45, TRUE, 100, 100, "unknown")
Samples == {<<Strong, 30, 62>>, <<[Strong EXCEPT !.exp = 40], 18, 62>>,
           <<Losing, -10, 30>>, <<Small, 40, 45>>, <<Thin, 60, 30>>}
\* Places of the sweep: interval by interval, strategy by strategy, side by side.
Swept == {<<1, vwap, "5m", "Long">>, <<2, vwap, "15m", "Long">>, <<3, vwap, "15m", "Short">>,
          <<4, orb, "15m", "Long">>}
MCConfigs ==
    {[at |-> w[1], strat |-> w[2], tf |-> w[3], dir |-> w[4], stats |-> x[1], sharpe |-> x[2],
      floor |-> x[3], regime |-> IF x[2] = 18 THEN "no" ELSE "unknown"] : w \in Swept, x \in Samples}
MCExpectedMax(trials) ==
    LET vals == {trials[k] : k \in DOMAIN trials}
        hi == CHOOSE v \in vals : \A w \in vals : w <= v
        lo == CHOOSE v \in vals : \A w \in vals : v <= w
    IN  ((hi - lo) * (Len(trials) - 1)) \div Len(trials)
=============================================================================
