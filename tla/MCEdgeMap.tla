----------------------------- MODULE MCEdgeMap -----------------------------
\* Values for EdgeMap: both stocks have signals at first, neither after a second
\* download.
EXTENDS EdgeMap

CONSTANTS s1, s2

StocksDef == {s1, s2}
SignalsDef == {<<s1, 1>>, <<s2, 1>>}
=============================================================================
