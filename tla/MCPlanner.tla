----------------------------- MODULE MCPlanner -----------------------------
(***************************************************************************)
(* Model-checking instance of the capital planner: a dear stock and two    *)
(* cheap ones, two of them of one sector, days on which each may rise,     *)
(* fall or not trade.                                                      *)
(***************************************************************************)
EXTENDS Planner, TLC

CONSTANTS e1, e2, e3

MCMetaOf == (e1 :> [cap |-> 30000, sector |-> "IT"]) @@ (e2 :> [cap |-> 4000, sector |-> "IT"])
            @@ (e3 :> [cap |-> 4000, sector |-> "Auto"])
MCOpening == (e1 :> 500) @@ (e2 :> 60) @@ (e3 :> 40)
MCTurnoverOf == (e1 :> 50) @@ (e2 :> 6) @@ (e3 :> 5)
MCSeat == (e1 :> 3) @@ (e2 :> 1) @@ (e3 :> 2)
MCIndexCloses == <<100, 105>>
=============================================================================
