---------------------------- MODULE MCProcesses ----------------------------
(***************************************************************************)
(* Model-checking instance of the processes beside the server: the feed's  *)
(* threads, the data refresh, the analytics thread's fold of a live tape,  *)
(* and the fold of a replay. They share no state, so each behaviour        *)
(* exercises one of them and the others rest where nothing of theirs can   *)
(* happen: the feed has ended, no refresh was asked for, no tape is told.  *)
(***************************************************************************)
EXTENDS LiveFeed, DataRefresh, Replay

CONSTANTS a, b

MCEdgesOf == [s \in Tracked |-> <<[dir |-> "Long", exp |-> 30, n |-> 60],
                                  [dir |-> "Short", exp |-> 20, n |-> 30]>>]
MCBooks == {[bid |-> 99, ask |-> 101, bidQty |-> 3, askQty |-> 1]}

\* Histories of different lengths and days, one with an idle bar.
Bar(d, v, c) == [day |-> d, vol |-> v, open |-> 100, close |-> c]
Histories == {<<>>, <<Bar(0, 2, 101), Bar(1, 3, 99), Bar(1, 1, 100)>>,
              <<Bar(0, 1, 100), Bar(0, 4, 99), Bar(2, 0, 102), Bar(3, 6, 100), Bar(3, 1, 101)>>}
MCArchives == [Tracked -> Histories]

VARIABLE part
procVars == <<part, vars, refreshVars, foldVars, replayVars>>

RestingFeed ==
    /\ up = TRUE /\ quiet = FALSE /\ session = FALSE /\ stop = TRUE
    /\ feed = [pc |-> "ended", backoff |-> Initial, waited |-> 0]
    /\ live = {} /\ main = "ended"
RestingReplay ==
    /\ series = <<>> /\ slot = 1 /\ place = 1 /\ ended = TRUE /\ halt = TRUE
    /\ cum = [s \in Tracked |-> [vol |-> 0, day |-> NoDay]]
RestingTape ==
    /\ tape = [s \in Tracked |-> Untold(0)]
    /\ states = [s \in Tracked |-> LiveState0]

ProcInit ==
    /\ part \in {"feed", "refresh", "tape", "replay"}
    /\ IF part = "feed" THEN Init ELSE RestingFeed
    /\ RefreshInit /\ (part # "refresh" => blocked)
    /\ CASE part = "tape" -> FoldInit /\ RestingReplay
         [] part = "replay" -> ReplayInit
         [] OTHER -> RestingTape /\ RestingReplay

ProcNext ==
    /\ UNCHANGED part
    /\ \/ part = "feed" /\ Next /\ UNCHANGED <<refreshVars, foldVars, replayVars>>
       \/ part = "refresh" /\ RefreshNext /\ UNCHANGED <<vars, foldVars, replayVars>>
       \/ part = "tape" /\ FoldNext /\ UNCHANGED <<vars, refreshVars, replayVars>>
       \/ part = "replay" /\ ReplayNext /\ UNCHANGED <<vars, refreshVars>>

ProcSpec == ProcInit /\ [][ProcNext]_procVars /\ Fairness /\ RefreshFairness
=============================================================================
