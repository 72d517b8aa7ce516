---------------------------- MODULE DataRefresh ----------------------------
(***************************************************************************)
(* The guarded manual data refresh (src/data_refresh.rs): request handlers *)
(* that start the Python pipeline as a subprocess, the reaper thread of    *)
(* each, and the dashboard being restarted under them. The pipeline runs   *)
(* in a process group of its own and survives the dashboard; its wrapper   *)
(* restarts the dashboard itself.                                          *)
(***************************************************************************)
EXTENDS Integers, FiniteSets

CONSTANTS
    Requests,  \* concurrent POST /api/data/refresh
    MaxRuns    \* bound: refreshes claimed, named by their log files 1..MaxRuns

ASSUME RunsAssumption == MaxRuns \in Nat

VARIABLES
    blocked,    \* block_reason(): session window, or a live process
    st,         \* Mutex<RefreshState>
    req,        \* per request: where start_refresh is, and its log file
    pipelines,  \* log files of the pipelines running
    reapers,    \* log files of the reaper threads of this dashboard process
    runs        \* auxiliary: log files used so far

refreshVars == <<blocked, st, req, pipelines, reapers, runs>>

Logs == 1..MaxRuns
NoLog == 0

\* `wedged` is auxiliary, named by properties only: this state was claimed by a
\* request that then could not open its log file.
RefreshState == [running : BOOLEAN, finished : BOOLEAN, log : Logs \cup {NoLog},
                 wedged : BOOLEAN]

\* RefreshState::default
Fresh == [running |-> FALSE, finished |-> FALSE, log |-> NoLog, wedged |-> FALSE]

Idle == [pc |-> "idle", log |-> NoLog]

RefreshTypeOK ==
    /\ blocked \in BOOLEAN
    /\ st \in RefreshState
    /\ req \in [Requests -> [pc : {"idle", "checked", "claimed", "opened"},
                             log : Logs \cup {NoLog}]]
    /\ pipelines \subseteq 1..runs /\ reapers \subseteq 1..runs
    /\ runs \in 0..MaxRuns
    /\ st.finished => ~st.running /\ st.log # NoLog

RefreshInit ==
    /\ blocked \in BOOLEAN
    /\ st = Fresh
    /\ req = [r \in Requests |-> Idle]
    /\ pipelines = {} /\ reapers = {}
    /\ runs = 0

-----------------------------------------------------------------------------
\* The session opens or closes, or a live process starts or ends.
SessionChanges ==
    /\ blocked' = ~blocked
    /\ UNCHANGED <<st, req, pipelines, reapers, runs>>

\* start_refresh, first part: not blocked, wrapper found, log directory made. A
\* request that fails here changes nothing.
Check(r) ==
    /\ req[r].pc = "idle"
    /\ ~blocked
    /\ req' = [req EXCEPT ![r].pc = "checked"]
    /\ UNCHANGED <<blocked, st, pipelines, reapers, runs>>

Claimed(log) == [running |-> TRUE, finished |-> FALSE, log |-> log, wedged |-> FALSE]

\* Mutant: `running` is not looked at again under the lock.
ClaimUnchecked(r) ==
    /\ req[r].pc = "checked"
    /\ runs < MaxRuns
    /\ runs' = runs + 1
    /\ st' = Claimed(runs')
    /\ req' = [req EXCEPT ![r] = [pc |-> "claimed", log |-> runs']]
    /\ UNCHANGED <<blocked, pipelines, reapers>>

\* Under the state lock: 409 when a refresh is running, otherwise claim it.
Claim(r) ==
    /\ req[r].pc = "checked"
    /\ IF st.running
       THEN req' = [req EXCEPT ![r] = Idle] /\ UNCHANGED <<st, runs>>
       ELSE /\ runs < MaxRuns
            /\ runs' = runs + 1
            /\ st' = Claimed(runs')
            /\ req' = [req EXCEPT ![r] = [pc |-> "claimed", log |-> runs']]
    /\ UNCHANGED <<blocked, pipelines, reapers>>

\* Create the log file and clone its handle. On an error the request returns
\* with `running` still set.
OpenLog(r) ==
    /\ req[r].pc = "claimed"
    /\ \/ req' = [req EXCEPT ![r].pc = "opened"] /\ UNCHANGED st
       \/ req' = [req EXCEPT ![r] = Idle] /\ st' = [st EXCEPT !.wedged = TRUE]
    /\ UNCHANGED <<blocked, pipelines, reapers, runs>>

\* Mutant: a failed spawn leaves `running` set.
SpawnKeepsRunning(r) ==
    /\ req[r].pc = "opened"
    /\ req' = [req EXCEPT ![r] = Idle]
    /\ \/ /\ pipelines' = pipelines \cup {req[r].log}
          /\ reapers' = reapers \cup {req[r].log}
       \/ UNCHANGED <<pipelines, reapers>>
    /\ UNCHANGED <<blocked, st, runs>>

\* Spawn the pipeline and its reaper; a failed spawn resets `running`.
Spawn(r) ==
    /\ req[r].pc = "opened"
    /\ req' = [req EXCEPT ![r] = Idle]
    /\ \/ /\ pipelines' = pipelines \cup {req[r].log}
          /\ reapers' = reapers \cup {req[r].log}
          /\ UNCHANGED st
       \/ /\ st' = [st EXCEPT !.running = FALSE]
          /\ UNCHANGED <<pipelines, reapers>>
    /\ UNCHANGED <<blocked, runs>>

\* The pipeline ends, whatever its exit code.
PipelineEnds(p) ==
    /\ p \in pipelines
    /\ pipelines' = pipelines \ {p}
    /\ UNCHANGED <<blocked, st, req, reapers, runs>>

\* child.wait() has returned: record the end.
Reap(p) ==
    /\ p \in reapers \ pipelines
    /\ st' = [st EXCEPT !.running = FALSE, !.finished = TRUE]
    /\ reapers' = reapers \ {p}
    /\ UNCHANGED <<blocked, req, pipelines, runs>>

\* The dashboard is restarted, by the pipeline's wrapper or by hand: the state
\* and every thread start anew, pipelines go on.
Restart ==
    /\ st' = Fresh
    /\ req' = [r \in Requests |-> Idle]
    /\ reapers' = {}
    /\ UNCHANGED <<blocked, pipelines, runs>>

-----------------------------------------------------------------------------
Handle(r) == Claim(r) \/ OpenLog(r) \/ Spawn(r)

RefreshNext ==
    \/ SessionChanges \/ Restart
    \/ \E r \in Requests : Check(r) \/ Handle(r)
    \/ \E p \in Logs : PipelineEnds(p) \/ Reap(p)

RefreshSpec == RefreshInit /\ [][RefreshNext]_refreshVars

\* Handlers and reapers are threads that run; a pipeline ends (it is a bounded
\* download that does not wait for the dashboard).
RefreshFairness ==
    /\ \A r \in Requests : WF_refreshVars(Handle(r))
    /\ \A p \in Logs : WF_refreshVars(PipelineEnds(p)) /\ WF_refreshVars(Reap(p))

RefreshFairSpec == RefreshSpec /\ RefreshFairness

-----------------------------------------------------------------------------
Holders == {r \in Requests : req[r].pc \in {"claimed", "opened"}}

\* Within one life of the dashboard at most one request or reaper owns the
\* refresh, and `running` is set while one does: checks made before the lock, a
\* failed spawn and a late reaper never let a second pipeline in.
OneOwner ==
    /\ Cardinality(Holders) + Cardinality(reapers) <= 1
    /\ Holders \cup reapers # {} => st.running


\* A refresh shown as running ends, or its log file could not be opened: from
\* then on every refresh is refused until the dashboard is restarted.
RunningEnds == st.running ~> ~st.running \/ st.wedged
=============================================================================
