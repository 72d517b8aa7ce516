---------------------------- MODULE MCPortfolio ----------------------------
(***************************************************************************)
(* Model-checking instance of the portfolio page and the capital planner:  *)
(* statements of two headers and four rows, archives with stocks that      *)
(* move together, lag, recover and were never downloaded.                  *)
(***************************************************************************)
EXTENDS Portfolio, MCPlanner

CONSTANTS title, st1, st2, st3

LineOf(head, s, q, a, pd, b, sec, m) ==
    [head |-> head, stock |-> s, qty |-> q, avg |-> a, paid |-> pd, broker |-> b,
     sector |-> sec, mark |-> m]
MCLines == {LineOf({"avg", "last"}, title, 0, 0, 0, NoName, NoName, 0),
            LineOf({"paid", "broker", "sector"}, title, 0, 0, 0, NoName, NoName, 0),
            LineOf({}, st1, 5, 100, 300, "Zerodha", "IT", 60),
            LineOf({}, st1, 4, 120, 0, "Groww", NoName, 0),
            LineOf({}, st2, 10, 100, 1010, "Zerodha", "IT", 150),
            LineOf({}, st2, 0, 100, 0, "Zerodha", "IT", 150)}
Daily(c) == [i \in DOMAIN c |-> [day |-> i, close |-> c[i]]]
MCArchives ==
    {(st1 :> Daily(<<100, 90, 80, 60>>)) @@ (st2 :> Daily(<<100, 110, 120, 140>>))
        @@ (st3 :> Daily(<<100, 110, 130, 150>>)),
     (st1 :> Daily(<<100, 110, 100, 120>>)) @@ (st2 :> Daily(<<100, 120, 100, 130>>))
        @@ (st3 :> <<>>),
     (st1 :> Daily(<<120, 100, 70, 80>>)) @@ (st2 :> Daily(<<150, 120, 110>>))
        @@ (st3 :> Daily(<<100, 110, 130, 150>>))}
MCBenchmark == <<100, 100, 105, 110>>

MCEdgeSeat == (st1 :> 2) @@ (st2 :> 1) @@ (st3 :> 3)
=============================================================================
