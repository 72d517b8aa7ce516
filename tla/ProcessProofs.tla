---------------------------- MODULE ProcessProofs ---------------------------
(***************************************************************************)
(* The processes that gather prices, for every instance.                   *)
(*                                                                         *)
(* DataRefresh, for any number of requests and refreshes: within one life  *)
(* of the dashboard one request or one reaper owns the refresh.            *)
(*                                                                         *)
(* TickFold, for any symbols and frames: the volumes of the bars add up to *)
(* what the exchange counted since the base, and the anchor is a volume it *)
(* really showed. Replay, for any archives: the counter a symbol has been  *)
(* sent is the volume of the session up to the last bar that was sent.     *)
(***************************************************************************)
EXTENDS DataRefresh, Replay, SequenceTheorems, FiniteSetTheorems, TLAPS

\* Everyone who acts for a refresh claimed in this life of the dashboard.
Busy(r) == req[r].pc \in {"claimed", "opened"}

\* OneOwner without its count: nobody is busy beside a reaper, no two requests
\* are busy, no two reapers wait, and whoever owns the refresh shows as running.
Alone == \A r, s \in Requests : Busy(r) /\ Busy(s) => r = s
NoneBeside == \A r \in Requests : Busy(r) => reapers = {}
OneReaper == \A p, q \in reapers : p = q
ShownRunning == (\E r \in Requests : Busy(r)) \/ reapers # {} => st.running

\* A refresh that shows as running has a log file to show.
Named == st.running => st.log # NoLog

\* A request that may still spawn holds a log file of this run of the server.
Opened == \A r \in Requests : Busy(r) => req[r].log \in 1..runs

RefreshInv ==
    /\ RefreshTypeOK /\ Opened /\ Named
    /\ Alone /\ NoneBeside /\ OneReaper /\ ShownRunning

ReqStates == [pc : {"idle", "checked", "claimed", "opened"}, log : Logs \cup {NoLog}]

\* The record a request is reset to is one of its states and is not busy.
LEMMA IdleState == Idle \in ReqStates /\ Idle.pc = "idle"
  BY DEF Idle, ReqStates

\* A new dashboard owns nothing.
LEMMA RefreshInitHolds == RefreshInit => RefreshInv
  <1> SUFFICES ASSUME RefreshInit PROVE RefreshInv
    OBVIOUS
  <1>1. \A r \in Requests : req[r].pc = "idle"
    BY IdleState DEF RefreshInit
  <1>2. RefreshTypeOK
    BY IdleState, RunsAssumption
       DEF RefreshInit, RefreshTypeOK, RefreshState, Fresh, NoLog, ReqStates
  <1> QED BY <1>1, <1>2
       DEF RefreshInit, RefreshInv, Opened, Named, Alone, NoneBeside, OneReaper, ShownRunning, Busy, Named, Fresh

\* A check changes nothing that ownership is about.
LEMMA CheckKeeps ==
  ASSUME RefreshInv, NEW r \in Requests, Check(r)
  PROVE  RefreshInv'
  <1>1. RefreshTypeOK'
    BY DEF RefreshInv, RefreshTypeOK, Check, NoLog
  <1>2. \A s \in Requests : req'[s].log = req[s].log /\ (Busy(s)' <=> Busy(s))
    BY DEF RefreshInv, RefreshTypeOK, Check, Busy
  <1> QED BY <1>1, <1>2
       DEF RefreshInv, Check, Opened, Named, Alone, NoneBeside, OneReaper, ShownRunning

\* A claim is made only when nothing runs, and then nobody owns the refresh.
LEMMA ClaimKeeps ==
  ASSUME RefreshInv, NEW r \in Requests, Claim(r)
  PROVE  RefreshInv'
  <1>1. CASE st.running
    <2>1. req' = [req EXCEPT ![r] = Idle] /\ UNCHANGED <<blocked, st, pipelines, reapers, runs>>
      BY <1>1 DEF Claim
    <2>2. RefreshTypeOK'
      BY <2>1, IdleState DEF RefreshInv, RefreshTypeOK, ReqStates
    <2>3. \A s \in Requests : Busy(s)' => Busy(s) /\ req'[s] = req[s]
      BY <2>1, IdleState DEF RefreshInv, RefreshTypeOK, Busy
    <2> QED BY <1>1, <2>1, <2>2, <2>3
         DEF RefreshInv, Opened, Named, Alone, NoneBeside, OneReaper, ShownRunning
  <1>2. CASE ~st.running
    <2>1. /\ runs < MaxRuns /\ runs' = runs + 1 /\ st' = Claimed(runs')
          /\ req' = [req EXCEPT ![r] = [pc |-> "claimed", log |-> runs']]
          /\ UNCHANGED <<blocked, pipelines, reapers>>
      BY <1>2 DEF Claim
    <2>2. reapers = {} /\ \A s \in Requests : ~Busy(s)
      BY <1>2 DEF RefreshInv, ShownRunning
    <2>3. runs \in 0..MaxRuns /\ runs' \in 1..MaxRuns
      BY <2>1, RunsAssumption DEF RefreshInv, RefreshTypeOK
    <2>4. RefreshTypeOK'
      <3>1. st' \in RefreshState /\ ~st'.finished
        BY <2>1, <2>3 DEF Claimed, RefreshState, Logs
      <3>2. req' \in [Requests -> ReqStates]
        BY <2>1, <2>3 DEF RefreshInv, RefreshTypeOK, ReqStates, Logs
      <3> QED BY <2>1, <2>2, <2>3, <3>1, <3>2 DEF RefreshInv, RefreshTypeOK, ReqStates
    <2>5. req'[r].log = runs' /\ \A s \in Requests : Busy(s)' => s = r
      BY <2>1, <2>2 DEF RefreshInv, RefreshTypeOK, Busy
    <2>6. st'.running /\ st'.log # NoLog
      BY <2>1, <2>3 DEF Claimed, NoLog
    <2> QED BY <2>1, <2>2, <2>3, <2>4, <2>5, <2>6
         DEF RefreshInv, Opened, Named, Alone, NoneBeside, OneReaper, ShownRunning
  <1> QED BY <1>1, <1>2

\* Opening the log keeps the owner; failing leaves nobody, with `running` set.
LEMMA OpenLogKeeps ==
  ASSUME RefreshInv, NEW r \in Requests, OpenLog(r)
  PROVE  RefreshInv'
  <1>1. CASE req' = [req EXCEPT ![r].pc = "opened"] /\ UNCHANGED st
    <2>1. RefreshTypeOK'
      BY <1>1 DEF RefreshInv, RefreshTypeOK, OpenLog, NoLog
    <2>2. \A s \in Requests : req'[s].log = req[s].log /\ (Busy(s)' <=> Busy(s))
      BY <1>1 DEF RefreshInv, RefreshTypeOK, OpenLog, Busy
    <2> QED BY <1>1, <2>1, <2>2
         DEF RefreshInv, OpenLog, Opened, Named, Alone, NoneBeside, OneReaper, ShownRunning
  <1>2. CASE req' = [req EXCEPT ![r] = Idle] /\ st' = [st EXCEPT !.wedged = TRUE]
    <2>1. st' \in RefreshState /\ st'.running = st.running /\ st'.finished = st.finished
          /\ st'.log = st.log
      BY <1>2 DEF RefreshInv, RefreshTypeOK, RefreshState
    <2>2. RefreshTypeOK'
      BY <1>2, <2>1, IdleState DEF RefreshInv, RefreshTypeOK, OpenLog, ReqStates
    <2>3. \A s \in Requests : Busy(s)' => Busy(s) /\ req'[s] = req[s]
      BY <1>2, IdleState DEF RefreshInv, RefreshTypeOK, Busy
    <2> QED BY <1>2, <2>1, <2>2, <2>3
         DEF RefreshInv, OpenLog, Opened, Named, Alone, NoneBeside, OneReaper, ShownRunning
  <1> QED BY <1>1, <1>2 DEF OpenLog

\* Spawning hands the refresh from the request to its reaper, or gives it up.
LEMMA SpawnKeeps ==
  ASSUME RefreshInv, NEW r \in Requests, Spawn(r)
  PROVE  RefreshInv'
  <1>1. Busy(r) /\ reapers = {} /\ st.running /\ req[r].log \in 1..runs
    BY DEF RefreshInv, Spawn, NoneBeside, ShownRunning, Opened, Busy
  <1>2. \A s \in Requests : ~Busy(s)'
    BY <1>1, IdleState DEF RefreshInv, RefreshTypeOK, Alone, Spawn, Busy
  <1>3. req' \in [Requests -> ReqStates]
    BY IdleState DEF RefreshInv, RefreshTypeOK, Spawn, ReqStates
  <1>4. CASE /\ pipelines' = pipelines \cup {req[r].log}
             /\ reapers' = reapers \cup {req[r].log}
             /\ UNCHANGED st
    BY <1>1, <1>2, <1>3, <1>4
       DEF RefreshInv, RefreshTypeOK, Spawn, ReqStates, Opened, Named, Alone, NoneBeside, OneReaper,
           ShownRunning
  <1>5. CASE st' = [st EXCEPT !.running = FALSE] /\ UNCHANGED <<pipelines, reapers>>
    <2>1. st' \in RefreshState /\ ~st'.running /\ st'.log = st.log /\ st'.finished = st.finished
      BY <1>5 DEF RefreshInv, RefreshTypeOK, RefreshState
    <2> QED BY <1>1, <1>2, <1>3, <1>5, <2>1
         DEF RefreshInv, RefreshTypeOK, Spawn, ReqStates, Opened, Named, Alone, NoneBeside, OneReaper,
             ShownRunning
  <1> QED BY <1>4, <1>5 DEF Spawn

\* The reaper that ends was the only owner.
LEMMA ReapKeeps ==
  ASSUME RefreshInv, NEW p \in Logs, Reap(p)
  PROVE  RefreshInv'
  <1>1. p \in reapers /\ reapers' = {} /\ \A s \in Requests : ~Busy(s)
    BY DEF RefreshInv, Reap, OneReaper, NoneBeside
  <1>2. UNCHANGED <<blocked, req, pipelines, runs>>
    BY DEF Reap
  <1>3. st' \in RefreshState /\ ~st'.running /\ st'.log = st.log
    BY DEF RefreshInv, RefreshTypeOK, RefreshState, Reap
  <1>4. st.log # NoLog
    BY <1>1 DEF RefreshInv, ShownRunning, Named
  <1> QED BY <1>1, <1>2, <1>3, <1>4
       DEF RefreshInv, RefreshTypeOK, Opened, Named, Alone, NoneBeside, OneReaper, ShownRunning, Busy

\* A pipeline ends by itself.
LEMMA PipelineEndsKeeps ==
  ASSUME RefreshInv, NEW p \in Logs, PipelineEnds(p)
  PROVE  RefreshInv'
  BY DEF PipelineEnds, RefreshInv, RefreshTypeOK, Opened, Named, Alone, NoneBeside, OneReaper,
     ShownRunning, Busy

\* A new life of the dashboard owns nothing, whatever pipelines go on.
LEMMA RestartKeeps ==
  ASSUME RefreshInv, Restart
  PROVE  RefreshInv'
  <1>1. req' = [s \in Requests |-> Idle] /\ st' = Fresh /\ reapers' = {}
        /\ UNCHANGED <<blocked, pipelines, runs>>
    BY DEF Restart
  <1>2. \A s \in Requests : ~Busy(s)'
    BY <1>1, IdleState DEF Busy
  <1>3. Fresh \in RefreshState /\ ~Fresh.running /\ ~Fresh.finished
    BY DEF Fresh, RefreshState
  <1> QED BY <1>1, <1>2, <1>3, IdleState
       DEF RefreshInv, RefreshTypeOK, ReqStates, Opened, Named, Alone, NoneBeside, OneReaper,
           ShownRunning

\* Every step keeps the invariant.
LEMMA RefreshStep == RefreshInv /\ [RefreshNext]_refreshVars => RefreshInv'
  <1> SUFFICES ASSUME RefreshInv, [RefreshNext]_refreshVars PROVE RefreshInv'
    OBVIOUS
  <1>1. CASE SessionChanges
    BY <1>1 DEF SessionChanges, RefreshInv, RefreshTypeOK, Opened, Named, Alone, NoneBeside,
       OneReaper, ShownRunning, Busy
  <1>2. CASE Restart
    BY <1>2, RestartKeeps
  <1>3. CASE \E r \in Requests : Check(r) \/ Handle(r)
    BY <1>3, CheckKeeps, ClaimKeeps, OpenLogKeeps, SpawnKeeps DEF Handle
  <1>4. CASE \E p \in Logs : PipelineEnds(p) \/ Reap(p)
    BY <1>4, PipelineEndsKeeps, ReapKeeps
  <1>5. CASE UNCHANGED refreshVars
    BY <1>5 DEF refreshVars, RefreshInv, RefreshTypeOK, Opened, Named, Alone, NoneBeside,
       OneReaper, ShownRunning, Busy
  <1> QED BY <1>1, <1>2, <1>3, <1>4, <1>5 DEF RefreshNext

\* At most one of a set whose members are all equal.
LEMMA CountOfOne ==
  ASSUME NEW S, \A x, y \in S : x = y
  PROVE  Cardinality(S) <= 1 /\ Cardinality(S) \in Nat /\ (S = {} => Cardinality(S) = 0)
  <1>1. CASE S = {}
    BY <1>1, FS_EmptySet
  <1>2. CASE S # {}
    <2>1. PICK x \in S : TRUE
      BY <1>2
    <2>2. S = {x}
      BY <2>1
    <2>3. Cardinality({x}) = 1
      BY FS_Singleton
    <2>4. Cardinality(S) = 1
      BY <2>2, <2>3
    <2> QED BY <2>4, <1>2
  <1> QED BY <1>1, <1>2

\* Counted out, the invariant is OneOwner.
LEMMA AloneCounts == RefreshInv => OneOwner
  <1> SUFFICES ASSUME RefreshInv PROVE OneOwner
    OBVIOUS
  <1>1. \A x, y \in Holders : x = y
    BY DEF RefreshInv, Alone, Holders, Busy
  <1>2. \A x, y \in reapers : x = y
    BY DEF RefreshInv, OneReaper
  <1>3. Holders = {} \/ reapers = {}
    BY DEF RefreshInv, NoneBeside, Holders, Busy
  <1>4. Cardinality(Holders) <= 1 /\ Cardinality(Holders) \in Nat
        /\ (Holders = {} => Cardinality(Holders) = 0)
    BY <1>1, CountOfOne
  <1>5. Cardinality(reapers) <= 1 /\ Cardinality(reapers) \in Nat
        /\ (reapers = {} => Cardinality(reapers) = 0)
    BY <1>2, CountOfOne
  <1>6. Cardinality(Holders) + Cardinality(reapers) <= 1
    BY <1>3, <1>4, <1>5
  <1>7. Holders \cup reapers # {} => st.running
    BY DEF RefreshInv, ShownRunning, Holders, Busy
  <1> QED BY <1>6, <1>7 DEF OneOwner

\* The invariant holds in every reachable state.
LEMMA RefreshInvariant == RefreshSpec => []RefreshInv
  BY RefreshInitHolds, RefreshStep, PTL DEF RefreshSpec

\* The state a poller is shown has its type; in particular a refresh is never
\* finished and running at once, and a finished one names its log
\* (RefreshState, data_refresh.rs).
THEOREM RefreshTypeCorrect == RefreshSpec => []RefreshTypeOK
  <1>1. RefreshInv => RefreshTypeOK
    BY DEF RefreshInv
  <1> QED BY <1>1, RefreshInvariant, PTL

\* One life of the dashboard never has two owners of the refresh, however many
\* requests pass the checks before the lock (start_refresh and its reaper).
THEOREM OneOwnerHolds == RefreshSpec => []OneOwner
  BY AloneCounts, RefreshInvariant, PTL

-----------------------------------------------------------------------------
Ticks == INSTANCE FoldFacts WITH Op <- Folded

\* Flattening packets into ticks is what FoldFacts says of it.
LEMMA FlattenIs == \A s : FlattenSeq(s) = Ticks!FlattenSeq(s)
  BY DEF FlattenSeq, Ticks!FlattenSeq

\* Folding ticks into the states, likewise.
LEMMA FoldIs == \A base, s : FoldLeft(Folded, base, s) = Ticks!Folded(base, s)
  BY DEF Ticks!Folded, Ticks!FoldLeft, FoldLeft, Ticks!MapThenFoldSet, MapThenFoldSet,
         Ticks!Max, Max

-----------------------------------------------------------------------------
\* A word falls back by whole turns: two volumes are never further apart signed
\* than they are.
LEMMA SignedApart ==
    ASSUME NEW x \in Nat, NEW y \in Nat, x <= y
    PROVE  Signed(x) \in Int /\ Signed(y) \in Int /\ Signed(y) - Signed(x) <= y - x
  <1>1. Word \in Nat \ {0} /\ Word \div 2 \in Nat
    BY FoldAssumption
  <1>2. PICK w \in Nat \ {0} : w = Word
    BY <1>1
  <1>3. PICK h \in Nat : h = Word \div 2
    BY <1>1
  <1>4. PICK a \in Int : a = (x + h) \div w
    BY <1>2, <1>3
  <1>5. PICK b \in Int : b = (y + h) \div w
    BY <1>2, <1>3
  <1>6. w * a <= x + h /\ y + h < w * b + w
    BY <1>4, <1>5, <1>2, <1>3
  <1>7. w * a \in Int /\ w * b \in Int
    BY <1>2
  <1>8. a <= b
    <2>. SUFFICES ASSUME b + 1 <= a PROVE FALSE
      OBVIOUS
    <2>1. w * (b + 1) <= w * a
      BY <1>2
    <2>2. w * (b + 1) = w * b + w
      BY <1>2
    <2>. QED BY <1>6, <1>7, <2>1, <2>2, <1>3
  <1>9. w * a <= w * b
    BY <1>2, <1>8
  <1>10. Signed(x) = x - w * a /\ Signed(y) = y - w * b
    BY <1>2, <1>3, <1>4, <1>5 DEF Signed
  <1>. QED BY <1>7, <1>9, <1>10

-----------------------------------------------------------------------------
\* The account of one symbol: the anchor is a volume p the tape has shown since the
\* count began, and what was counted fits between the beginning and the anchor.
Tally(p, acc) ==
    /\ p.total \in Nat /\ p.base \in 0..p.total /\ p.seen \subseteq Ltps
    /\ p.day = p.total
    /\ acc.vol \in Nat /\ acc.pv \in Int
    /\ acc.anchored \in BOOLEAN
    /\ ~acc.anchored => acc.vol = 0 /\ acc.pv = 0
    /\ acc.anchored =>
          \E x \in p.base..p.total : acc.anchor = Signed(x) /\ acc.vol <= x - p.base
    /\ acc.vol = 0 => acc.pv = 0
    /\ acc.vol > 0 => \E lo, hi \in p.seen : lo * acc.vol <= acc.pv /\ acc.pv <= hi * acc.vol

FoldIInv ==
    /\ tape \in [Tracked -> [day : Nat, total : Nat, base : Nat, seen : SUBSET Ltps]]
    /\ DOMAIN states = Tracked
    /\ \A s \in Tracked : Tally(tape[s], states[s])

Ready(p, acc) == acc.anchored \/ p.base = p.total

\* A product grows with its first factor.
LEMMA Grows ==
    ASSUME NEW a \in Int, NEW b \in Int, a <= b, NEW n \in Nat
    PROVE  a * n <= b * n /\ a * n \in Int /\ b * n \in Int
  OBVIOUS

\* Between the prices of two trades lies the average of both.
LEMMA Averages ==
    ASSUME NEW seen, seen \subseteq Int, NEW vol \in Nat, NEW pv \in Int, NEW ltp \in seen,
           NEW d \in Nat,
           vol = 0 => pv = 0,
           vol > 0 => \E lo, hi \in seen : lo * vol <= pv /\ pv <= hi * vol
    PROVE  /\ vol + d = 0 => pv + ltp * d = 0
           /\ vol + d > 0 => \E lo, hi \in seen : /\ lo * (vol + d) <= pv + ltp * d
                                                  /\ pv + ltp * d <= hi * (vol + d)
  <1>1. ltp \in Int /\ ltp * d \in Int
    OBVIOUS
  <1>2. CASE vol = 0
    <2>1. pv = 0 /\ vol + d = d /\ pv + ltp * d = ltp * d
      BY <1>1, <1>2
    <2>2. d = 0 => ltp * d = 0
      BY <1>1
    <2>3. ltp * d <= ltp * d
      BY <1>1
    <2>. QED BY <2>1, <2>2, <2>3
  <1>3. CASE vol > 0
    <2>1. PICK lo \in seen, hi \in seen : lo * vol <= pv /\ pv <= hi * vol
      BY <1>3
    <2>2. lo \in Int /\ hi \in Int
      OBVIOUS
    <2>3. PICK low \in seen : low <= lo /\ low <= ltp
      BY <1>1, <2>2
    <2>4. PICK high \in seen : hi <= high /\ ltp <= high
      BY <1>1, <2>2
    <2>5. low \in Int /\ high \in Int
      OBVIOUS
    <2>6. low * vol <= lo * vol /\ low * vol \in Int /\ lo * vol \in Int
      BY <2>2, <2>3, <2>5, Grows
    <2>7. low * d <= ltp * d /\ low * d \in Int
      BY <1>1, <2>3, <2>5, Grows
    <2>8. hi * vol <= high * vol /\ hi * vol \in Int /\ high * vol \in Int
      BY <2>2, <2>4, <2>5, Grows
    <2>9. ltp * d <= high * d /\ high * d \in Int
      BY <1>1, <2>4, <2>5, Grows
    <2>10. low * (vol + d) = low * vol + low * d /\ high * (vol + d) = high * vol + high * d
      BY <2>5
    <2>11. low * (vol + d) <= pv + ltp * d /\ pv + ltp * d <= high * (vol + d)
      BY <1>1, <2>1, <2>6, <2>7, <2>8, <2>9, <2>10
    <2>12. ~(vol + d = 0)
      BY <1>3
    <2>. QED BY <2>11, <2>12
  <1>. QED BY <1>2, <1>3

\* A tick of the symbol keeps its account.
LEMMA OneTick ==
    ASSUME NEW p, NEW acc, NEW t, Tally(p, acc), Ready(p, acc), t.ltp \in p.seen,
           t.vol = Signed(p.day)
    PROVE  Tally(p, Update(acc, t)) /\ Ready(p, Update(acc, t))
  <1>. DEFINE new == Update(acc, t)
              d == VolDelta(acc, t.vol)
  <1>1. /\ new.vol = acc.vol + d /\ new.pv = acc.pv + t.ltp * d
        /\ new.anchor = t.vol /\ new.anchored = TRUE
    BY DEF Update
  <1>2. /\ p.total \in Nat /\ p.base \in 0..p.total /\ p.seen \subseteq Int
        /\ p.day = p.total /\ acc.vol \in Nat /\ acc.pv \in Int /\ acc.anchored \in BOOLEAN
        /\ t.ltp \in Int
    BY FoldAssumption DEF Tally
  <1>3. d \in Nat /\ acc.vol + d <= p.total - p.base
    <2>1. CASE ~acc.anchored
      <3>1. d = 0 /\ acc.vol = 0
        BY <2>1 DEF VolDelta, Tally
      <3>. QED BY <1>2, <3>1
    <2>2. CASE acc.anchored
      <3>1. PICK x \in p.base..p.total : acc.anchor = Signed(x) /\ acc.vol <= x - p.base
        BY <2>2 DEF Tally
      <3>2. x \in Nat /\ x <= p.total
        BY <1>2
      <3>3. /\ Signed(x) \in Int /\ Signed(p.total) \in Int
            /\ Signed(p.total) - Signed(x) <= p.total - x
        BY <1>2, <3>2, SignedApart
      <3>4. d = IF Signed(p.total) - Signed(x) < 0 THEN 0 ELSE Signed(p.total) - Signed(x)
        BY <1>2, <2>2, <3>1 DEF VolDelta, AtLeast
      <3>. QED BY <1>2, <3>1, <3>2, <3>3, <3>4
    <2>. QED BY <2>1, <2>2
  <1>. HIDE DEF d, new
  <1>4. /\ new.vol = 0 => new.pv = 0
        /\ new.vol > 0 => \E lo, hi \in p.seen : lo * new.vol <= new.pv /\ new.pv <= hi * new.vol
    <2>1. /\ acc.vol = 0 => acc.pv = 0
          /\ acc.vol > 0 => \E lo, hi \in p.seen : lo * acc.vol <= acc.pv /\ acc.pv <= hi * acc.vol
      BY DEF Tally
    <2>2. /\ acc.vol + d = 0 => acc.pv + t.ltp * d = 0
          /\ acc.vol + d > 0 => \E lo, hi \in p.seen : /\ lo * (acc.vol + d) <= acc.pv + t.ltp * d
                                                      /\ acc.pv + t.ltp * d <= hi * (acc.vol + d)
      BY <1>2, <1>3, <2>1, Averages
    <2>. HIDE DEF Tally
    <2>. QED BY ONLY <1>1, <2>2
  <1>5. /\ p.total \in p.base..p.total /\ new.anchor = Signed(p.total)
        /\ new.vol <= p.total - p.base
    BY <1>1, <1>2, <1>3
  <1>6. new.vol \in Nat /\ new.pv \in Int
    BY <1>1, <1>2, <1>3
  <1>7. p.seen \subseteq Ltps
    BY DEF Tally
  <1>8. Tally(p, new)
    BY <1>1, <1>2, <1>4, <1>5, <1>6, <1>7 DEF Tally
  <1>9. Ready(p, new)
    BY <1>1 DEF Ready
  <1>. QED BY <1>8, <1>9 DEF new

-----------------------------------------------------------------------------
\* The tick a packet carries.
Tick(p) ==
    [sym |-> p.sym, ltp |-> p.ltp,
     ltq |-> IF p.len = "ltp" THEN 0 ELSE p.ltq,
     vol |-> IF p.len = "ltp" THEN 0 ELSE Signed(p.vol),
     book |-> IF p.len = "full" THEN p.book ELSE NoBook]

\* A frame parses to ticks of its packets.
LEMMA FrameTicks ==
    ASSUME NEW p, NEW q
    PROVE  ParseFrame(<<p, q>>) \in Seq({Tick(p), Tick(q)})
  <1>. DEFINE T == {Tick(p), Tick(q)}
              packets == <<p, q>>
              cut == {k \in DOMAIN packets : ~packets[k].whole}
              parts == [k \in DOMAIN packets |->
                          IF \A c \in cut : k < c THEN ParsePacket(packets[k]) ELSE <<>>]
  <1>1. DOMAIN packets = 1..2 /\ \A k \in 1..2 : packets[k] = p \/ packets[k] = q
    OBVIOUS
  <1>2. \A x \in {p, q} : ParsePacket(x) \in Seq(T)
    <2>. SUFFICES ASSUME NEW x \in {p, q} PROVE ParsePacket(x) \in Seq(T)
      OBVIOUS
    <2>1. Tick(x) \in T
      OBVIOUS
    <2>2. ParsePacket(x) = <<>> \/ ParsePacket(x) = <<Tick(x)>>
      BY DEF ParsePacket, Tick
    <2>3. <<>> \in Seq(T) /\ <<Tick(x)>> \in Seq(T)
      <3>. HIDE DEF T
      <3>. QED BY <2>1
    <2>. QED BY <2>2, <2>3
  <1>3. parts \in [1..2 -> Seq(T)]
    <2>. HIDE DEF T
    <2>1. <<>> \in Seq(T)
      OBVIOUS
    <2>2. \A k \in 1..2 : parts[k] \in Seq(T)
      BY <1>1, <1>2, <2>1
    <2>. QED BY <1>1, <2>2
  <1>. HIDE DEF parts
  <1>4. parts \in Seq(Seq(T))
    <2>1. PICK U : U = Seq(T)
      OBVIOUS
    <2>2. PICK m \in Nat : m = 2
      OBVIOUS
    <2>3. parts \in [1..m -> U]
      BY <1>3, <2>1, <2>2
    <2>. QED BY <2>1, <2>3, SeqDef
  <1>5. FlattenSeq(parts) \in Seq(T)
    BY <1>4, FlattenIs, Ticks!FlattenElements
  <1>6. ParseFrame(packets) = FlattenSeq(parts)
    BY DEF ParseFrame, parts
  <1>. QED BY <1>5, <1>6

-----------------------------------------------------------------------------
\* No tick yet: no symbol has a base.
LEMMA FoldInitOK == FoldInit => FoldIInv
  <1>. SUFFICES ASSUME FoldInit PROVE FoldIInv
    OBVIOUS
  <1>1. PICK v \in {0, MaxVolume \div 2} : tape = [s \in Tracked |-> Untold(v)]
    BY DEF FoldInit
  <1>2. v \in Nat
    BY FoldAssumption
  <1>3. states = [s \in Tracked |-> LiveState0]
    BY DEF FoldInit
  <1>4. tape \in [Tracked -> [day : Nat, total : Nat, base : Nat, seen : SUBSET Ltps]]
    BY <1>1, <1>2 DEF Untold
  <1>5. ASSUME NEW s \in Tracked PROVE Tally(tape[s], states[s])
    <2>1. /\ tape[s].day = v /\ tape[s].total = v /\ tape[s].base = 0 /\ tape[s].seen = {}
      BY <1>1 DEF Untold
    <2>2. states[s].vol = 0 /\ states[s].pv = 0 /\ states[s].anchored = FALSE
      BY <1>3 DEF LiveState0
    <2>3. PICK p : p = tape[s]
      OBVIOUS
    <2>4. PICK acc : acc = states[s]
      OBVIOUS
    <2>5. Tally(p, acc)
      <3>1. p.total \in Nat /\ p.base \in 0..p.total /\ p.seen \subseteq Ltps /\ p.day = p.total
        BY <1>2, <2>1, <2>3
      <3>2. /\ acc.vol \in Nat /\ acc.pv \in Int /\ acc.anchored \in BOOLEAN
            /\ acc.vol = 0 /\ acc.pv = 0 /\ ~acc.anchored
        <4>1. acc.vol = 0 /\ acc.pv = 0
          BY <2>2, <2>4
        <4>2. acc.anchored = FALSE
          BY ONLY <2>2, <2>4, Zenon
        <4>3. acc.anchored \in BOOLEAN /\ ~acc.anchored
          BY <4>2, Zenon
        <4>. QED BY <4>1, <4>3
      <3>. QED BY <3>1, <3>2 DEF Tally
    <2>. QED BY <2>3, <2>4, <2>5
  <1>. QED BY <1>3, <1>4, <1>5 DEF FoldIInv

\* The exchange trades: the tape runs on, the account stands.
LEMMA TradeOK ==
    ASSUME FoldIInv, NEW s \in Subscribed, Trade(s)
    PROVE  FoldIInv'
  <1>1. s \in Tracked
    BY FoldAssumption
  <1>2. PICK q \in 1..2 : tape' = [tape EXCEPT ![s].day = @ + q, ![s].total = @ + q]
    BY DEF Trade
  <1>3. states' = states
    BY DEF Trade
  <1>4. tape \in [Tracked -> [day : Nat, total : Nat, base : Nat, seen : SUBSET Ltps]]
    BY DEF FoldIInv
  <1>5. tape' \in [Tracked -> [day : Nat, total : Nat, base : Nat, seen : SUBSET Ltps]]
    BY <1>1, <1>2, <1>4
  <1>6. ASSUME NEW r \in Tracked PROVE Tally(tape'[r], states'[r])
    <2>1. Tally(tape[r], states[r])
      BY DEF FoldIInv
    <2>2. CASE r = s
      <3>1. /\ tape'[r].day = tape[r].day + q /\ tape'[r].total = tape[r].total + q
            /\ tape'[r].base = tape[r].base /\ tape'[r].seen = tape[r].seen
        BY <1>2, <1>4, <2>2
      <3>2. tape[r].base..tape[r].total \subseteq tape'[r].base..tape'[r].total
            /\ tape'[r].base \in 0..tape'[r].total
        BY <2>1, <3>1 DEF Tally
      <3>. QED BY <1>3, <2>1, <3>1, <3>2 DEF Tally
    <2>3. CASE r # s
      <3>1. tape'[r] = tape[r]
        BY <1>2, <1>4, <2>3
      <3>. QED BY <1>3, <2>1, <3>1
    <2>. QED BY <2>2, <2>3
  <1>7. DOMAIN states' = Tracked
    BY <1>3 DEF FoldIInv
  <1>. QED BY <1>5, <1>6, <1>7 DEF FoldIInv

\* A frame: after every tick of it each symbol's account agrees with the tape as it
\* is told at the end.
LEMMA FrameOK ==
    ASSUME FoldIInv, NEW s \in Subscribed, LiveFrame(s)
    PROVE  FoldIInv'
  <1>1. s \in Tracked /\ Unknown \notin Tracked /\ Ltps \subseteq Int
    BY FoldAssumption
  <1>2. PICK len \in {"quote", "full", "short"}, ltp \in Ltps, ltq \in {0, 1}, book \in Books,
             other \in {s, Unknown}, whole \in BOOLEAN :
                LET ticks == ParseFrame(<<Packet(s, len, ltp, ltq, book, TRUE),
                                          Packet(other, "quote", ltp, 0, NoBook, whole)>>)
                IN  tape' = Told(ticks) /\ states' = FoldLeft(Folded, states, ticks)
    BY DEF LiveFrame
  <1>. DEFINE first == Packet(s, len, ltp, ltq, book, TRUE)
              second == Packet(other, "quote", ltp, 0, NoBook, whole)
  <1>3. PICK ticks : ticks = ParseFrame(<<first, second>>)
    OBVIOUS
  <1>4. tape' = Told(ticks) /\ states' = Ticks!Folded(states, ticks)
    BY <1>2, <1>3, FoldIs
  <1>5. ticks \in Seq({Tick(first), Tick(second)})
    BY <1>3, FrameTicks
  <1>6. ASSUME NEW t \in {Tick(first), Tick(second)}
        PROVE  t.ltp \in Ltps /\ (t.sym \in Tracked => t.vol = Signed(tape[t.sym].day))
    BY <1>1, <1>2 DEF Tick, Packet
  <1>7. PICK n \in Nat : n = Len(ticks) /\ DOMAIN ticks = 1..n
    BY <1>5, LenProperties
  <1>8. \A k \in 1..n : /\ ticks[k].ltp \in Ltps
                        /\ ticks[k].sym \in Tracked =>
                              ticks[k].vol = Signed(tape[ticks[k].sym].day)
    <2>1. \A k \in 1..n : ticks[k] \in {Tick(first), Tick(second)}
      BY <1>5, <1>7, ElementOfSeq
    <2>. HIDE DEF first, second
    <2>. QED BY <1>6, <2>1
  <1>9. PICK run : /\ run[0] = states
                   /\ \A k \in 1..n : run[k] = Folded(run[k - 1], ticks[k])
                   /\ Ticks!Folded(states, ticks) = run[n]
    <2>1. PICK b : b = states
      OBVIOUS
    <2>2. DOMAIN ticks = 1..n
      BY <1>7
    <2>3. \E run : /\ run[0] = b
                   /\ \A k \in 1..n : run[k] = Folded(run[k - 1], ticks[k])
                   /\ Ticks!Folded(b, ticks) = run[n]
      BY <2>2, Ticks!FoldRuns DEF Ticks!Through
    <2>. QED BY <2>1, <2>3
  <1>10. tape \in [Tracked -> [day : Nat, total : Nat, base : Nat, seen : SUBSET Ltps]]
         /\ DOMAIN states = Tracked
    BY DEF FoldIInv
  <1>. DEFINE of(r) == {k \in 1..n : ticks[k].sym = r}
  <1>11. ASSUME NEW r \in Tracked
         PROVE  /\ of(r) = {} => tape'[r] = tape[r]
                /\ of(r) # {} =>
                      /\ tape'[r].day = tape[r].day /\ tape'[r].total = tape[r].total
                      /\ tape'[r].base = IF states[r].anchored THEN tape[r].base
                                         ELSE tape[r].total
                      /\ tape'[r].seen = tape[r].seen \cup {ticks[k].ltp : k \in of(r)}
                /\ tape'[r] \in [day : Nat, total : Nat, base : Nat, seen : SUBSET Ltps]
    <2>1. PICK o : o = of(r)
      OBVIOUS
    <2>2. tape'[r] = IF o = {} THEN tape[r]
                     ELSE [tape[r] EXCEPT !.base = IF states[r].anchored THEN @
                                                   ELSE tape[r].total,
                                          !.seen = @ \cup {ticks[k].ltp : k \in o}]
      BY <1>4, <1>7, <2>1 DEF Told
    <2>3. tape[r] \in [day : Nat, total : Nat, base : Nat, seen : SUBSET Ltps]
      BY <1>10
    <2>4. {ticks[k].ltp : k \in o} \subseteq Ltps
      BY <1>8, <2>1
    <2>5. PICK more : more = {ticks[k].ltp : k \in o}
      OBVIOUS
    <2>6. PICK base \in Nat : base = IF states[r].anchored THEN tape[r].base ELSE tape[r].total
      BY <2>3
    <2>7. o # {} => tape'[r] = [tape[r] EXCEPT !.base = base, !.seen = @ \cup more]
      BY <2>2, <2>5, <2>6
    <2>8. more \subseteq Ltps
      BY <2>4, <2>5
    <2>9. o # {} =>
            /\ tape'[r].day = tape[r].day /\ tape'[r].total = tape[r].total
            /\ tape'[r].base = base /\ tape'[r].seen = tape[r].seen \cup more
            /\ tape'[r] \in [day : Nat, total : Nat, base : Nat, seen : SUBSET Ltps]
      BY <2>3, <2>7, <2>8
    <2>10. o = {} => tape'[r] = tape[r]
      BY <2>2
    <2>. HIDE DEF of
    <2>. QED BY <2>1, <2>3, <2>5, <2>6, <2>9, <2>10
  <1>12. \A k \in 0..n : DOMAIN run[k] = Tracked
    <2>. DEFINE Good == {m \in Nat : m <= n => DOMAIN run[m] = Tracked}
    <2>1. 0 \in Good
      BY <1>9, <1>10
    <2>2. \A m \in Nat : m \in Good => m + 1 \in Good
      <3>. SUFFICES ASSUME NEW m \in Nat, m + 1 <= n, DOMAIN run[m] = Tracked
                    PROVE  DOMAIN run[m + 1] = Tracked
        BY <1>7
      <3>1. m + 1 \in 1..n /\ (m + 1) - 1 = m
        OBVIOUS
      <3>. QED BY <1>9, <3>1 DEF Folded
    <2>3. Nat \subseteq Good
      <3>. HIDE DEF Good
      <3>. QED BY <2>1, <2>2, Ticks!NatInduct
    <2>. QED BY <2>3
  <1>13. ASSUME NEW r \in Tracked, NEW k \in 1..n
         PROVE  run[k][r] = IF ticks[k].sym = r THEN Update(run[k - 1][r], ticks[k])
                            ELSE run[k - 1][r]
    <2>1. DOMAIN run[k - 1] = Tracked /\ run[k] = Folded(run[k - 1], ticks[k])
      BY <1>9, <1>12
    <2>. QED BY <2>1 DEF Folded
  <1>14. ASSUME NEW r \in Tracked PROVE Tally(tape'[r], states'[r])
    <2>0. Tally(tape[r], states[r])
      BY DEF FoldIInv
    <2>1. CASE of(r) = {}
      <3>. DEFINE Good == {m \in Nat : m <= n => run[m][r] = states[r]}
      <3>1. 0 \in Good
        BY <1>9
      <3>2. \A m \in Nat : m \in Good => m + 1 \in Good
        <4>. SUFFICES ASSUME NEW m \in Nat, m + 1 <= n, run[m][r] = states[r]
                      PROVE  run[m + 1][r] = states[r]
          BY <1>7
        <4>1. m + 1 \in 1..n /\ (m + 1) - 1 = m
          OBVIOUS
        <4>. QED BY <1>13, <2>1, <4>1
      <3>3. Nat \subseteq Good
        <4>. HIDE DEF Good
        <4>. QED BY <3>1, <3>2, Ticks!NatInduct
      <3>4. states'[r] = states[r]
        BY <1>4, <1>9, <3>3
      <3>. QED BY <1>11, <2>0, <2>1, <3>4
    <2>2. CASE of(r) # {}
      <3>. DEFINE p == tape'[r]
                  Fair(acc) == Tally(p, acc) /\ Ready(p, acc)
                  Good == {m \in Nat : m <= n => Fair(run[m][r])}
      <3>1. /\ p.day = tape[r].day /\ p.total = tape[r].total
            /\ p.base = IF states[r].anchored THEN tape[r].base ELSE tape[r].total
            /\ p.seen = tape[r].seen \cup {ticks[k].ltp : k \in of(r)}
            /\ p.seen \subseteq Ltps
        <4>. HIDE DEF of
        <4>. QED BY <1>11, <2>2
      <3>. HIDE DEF p
      <3>2. Fair(states[r])
        <4>1. tape[r].seen \subseteq p.seen
          BY <3>1
        <4>2. p.total \in Nat /\ p.base \in 0..p.total /\ p.day = p.total
          BY <2>0, <3>1 DEF Tally
        <4>3. CASE states[r].anchored
          BY <2>0, <3>1, <4>1, <4>2, <4>3 DEF Tally, Ready
        <4>4. CASE ~states[r].anchored
          BY <2>0, <3>1, <4>2, <4>4 DEF Tally, Ready
        <4>. QED BY <4>3, <4>4
      <3>3. 0 \in Good
        BY <1>9, <3>2
      <3>4. \A m \in Nat : m \in Good => m + 1 \in Good
        <4>. SUFFICES ASSUME NEW m \in Nat, m + 1 <= n, Fair(run[m][r])
                      PROVE  Fair(run[m + 1][r])
          BY <1>7
        <4>1. m + 1 \in 1..n /\ (m + 1) - 1 = m
          OBVIOUS
        <4>2. CASE ticks[m + 1].sym # r
          <5>1. run[m + 1][r] = run[m][r]
            BY <1>13, <4>1, <4>2
          <5>. QED BY <5>1
        <4>3. CASE ticks[m + 1].sym = r
          <5>1. run[m + 1][r] = Update(run[m][r], ticks[m + 1])
            BY <1>13, <4>1, <4>3
          <5>2. ticks[m + 1].ltp \in p.seen
            BY <3>1, <4>1, <4>3
          <5>3. ticks[m + 1].vol = Signed(p.day)
            BY <1>8, <3>1, <4>1, <4>3
          <5>. QED BY <5>1, <5>2, <5>3, OneTick
        <4>. QED BY <4>2, <4>3
      <3>5. Nat \subseteq Good
        <4>. HIDE DEF Good
        <4>. QED BY <3>3, <3>4, Ticks!NatInduct
      <3>6. Fair(run[n][r])
        BY <3>5
      <3>. QED BY <1>4, <1>9, <3>6 DEF p
    <2>. QED BY <2>1, <2>2
  <1>15. DOMAIN states' = Tracked
    BY <1>4, <1>9, <1>12
  <1>16. tape' \in [Tracked -> [day : Nat, total : Nat, base : Nat, seen : SUBSET Ltps]]
    <2>1. tape' = [r \in Tracked |-> tape'[r]]
      BY <1>4 DEF Told
    <2>2. \A r \in Tracked :
             tape'[r] \in [day : Nat, total : Nat, base : Nat, seen : SUBSET Ltps]
      BY <1>11
    <2>. QED BY <2>1, <2>2
  <1>. QED BY <1>14, <1>15, <1>16 DEF FoldIInv

\* Trades on the exchange and frames of the feed keep it.
LEMMA FoldNextOK == FoldIInv /\ [FoldNext]_foldVars => FoldIInv'
  <1>1. ASSUME FoldIInv, UNCHANGED foldVars PROVE FoldIInv'
    BY <1>1 DEF FoldIInv, foldVars
  <1>. QED BY <1>1, TradeOK, FrameOK DEF FoldNext

\* Volume is counted once, and the VWAP lies between prices that were ticked:
\* Engine::on_tick and LiveState::update, over any stream of frames.
THEOREM VolumeCountedOnce == FoldSpec => []CountedOnce
  <1>1. FoldIInv => CountedOnce
    <2>. SUFFICES ASSUME FoldIInv, NEW s \in Tracked
                  PROVE  /\ states[s].vol <= tape[s].total - tape[s].base
                         /\ states[s].vol > 0 =>
                               \E lo, hi \in tape[s].seen : /\ lo * states[s].vol <= states[s].pv
                                                           /\ states[s].pv <= hi * states[s].vol
      BY DEF CountedOnce
    <2>1. Tally(tape[s], states[s])
      BY DEF FoldIInv
    <2>. QED BY <2>1 DEF Tally
  <1>. QED BY <1>1, FoldInitOK, FoldNextOK, PTL DEF FoldSpec

-----------------------------------------------------------------------------
\* The filter and the sum that FoldFacts speaks of are the ones used here.
LEMMA SiftIs == \A s, S : Filter(s, S) = Ticks!Filter(s, S)
  BY DEF Filter, Ticks!Filter

\* The sums of the replay are those of FoldFacts.
LEMMA SumIs == \A f, S : SumFunctionOnSet(f, S) = Ticks!Total(f, S)
  BY DEF Ticks!Total, SumFunctionOnSet, Ticks!SumFunctionOnSet, FoldFunctionOnSet,
         Ticks!FoldFunctionOnSet, MapThenFoldSet, Ticks!MapThenFoldSet

\* Its finite sets are the ones of the theorems about them.
LEMMA FiniteIs == \A S : IsFiniteSet(S) <=> Ticks!IsFiniteSet(S)
  BY DEF IsFiniteSet, Ticks!IsFiniteSet

\* The universe in some order: every symbol once.
LEMMA UniverseOnce ==
    /\ SetToSeq(Tracked) \in Seq(Tracked)
    /\ Ticks!Falls(SetToSeq(Tracked), {p \in Tracked \X Tracked : p[1] # p[2]})
  <1>1. PICK n \in Nat : n = Cardinality(Tracked)
    BY ReplayAssumption, FS_CardinalityType
  <1>2. PICK f : f \in Bijection(1..n, Tracked)
    BY <1>1, ReplayAssumption, FS_CardinalityType DEF ExistsBijection
  <1>3. f \in [1..n -> Tracked] /\ IsInjective(f)
    BY <1>2 DEF Bijection, Injection, IsInjective
  <1>. DEFINE g == SetToSeq(Tracked)
  <1>4. g \in [1..n -> Tracked] /\ IsInjective(g)
    BY <1>1, <1>3 DEF SetToSeq
  <1>. HIDE DEF g
  <1>5. g \in Seq(Tracked) /\ Len(g) = n
    BY <1>4, SeqDef
  <1>6. ASSUME NEW i \in 1..Len(g), NEW j \in 1..Len(g), i < j
        PROVE  <<g[i], g[j]>> \in {p \in Tracked \X Tracked : p[1] # p[2]}
    <2>1. g[i] \in Tracked /\ g[j] \in Tracked
      BY <1>4, <1>5
    <2>2. g[i] # g[j]
      BY <1>4, <1>5, <1>6 DEF IsInjective
    <2>. QED BY <2>1, <2>2
  <1>. QED BY <1>5, <1>6 DEF g, Ticks!Falls

\* The bars of a series, as they are sent.
BarsOK(bars) == bars \in Seq(Candle) /\ DaysInOrder(bars)

\* Cutting a series to the window leaves its bars in day order.
LEMMA RecentOK ==
    ASSUME NEW bars, BarsOK(bars)
    PROVE  BarsOK(Recent(bars))
  <1>. DEFINE R == {p \in Candle \X Candle : p[1].day <= p[2].day}
  <1>1. PICK S : Recent(bars) = Filter(bars, S)
    BY DEF Recent
  <1>2. Ticks!Falls(bars, R)
    <2>1. \A i \in 1..Len(bars) : bars[i] \in Candle
      BY ElementOfSeq DEF BarsOK
    <2>. QED BY <2>1 DEF BarsOK, DaysInOrder, Ticks!Falls
  <1>3. Recent(bars) \in Seq(Candle)
    <2>1. Recent(bars) \in Seq(Candle \cap S)
      BY <1>1, SiftIs, Ticks!FilterElements DEF BarsOK
    <2>2. Len(Recent(bars)) \in Nat /\ DOMAIN Recent(bars) = 1..Len(Recent(bars))
          /\ \A i \in 1..Len(Recent(bars)) : Recent(bars)[i] \in Candle \cap S
      BY <2>1, LenProperties, ElementOfSeq
    <2>3. Recent(bars) \in [1..Len(Recent(bars)) -> Candle]
      <3>1. Recent(bars) \in [1..Len(Recent(bars)) -> Candle \cap S]
        BY <2>1, LenProperties
      <3>. QED BY <3>1
    <2>. QED BY <2>2, <2>3, SeqDef
  <1>4. Ticks!Falls(Recent(bars), R)
    <2>. HIDE DEF R
    <2>. QED BY <1>1, <1>2, SiftIs, Ticks!FilterFalls DEF BarsOK
  <1>5. DaysInOrder(Recent(bars))
    BY <1>4 DEF Ticks!Falls, DaysInOrder
  <1>. QED BY <1>3, <1>5 DEF BarsOK

\* What a symbol's counter carries after n of its bars.
Carries(c, bars, n) ==
    /\ n = 0 => c.vol = 0
    /\ n # 0 => c.day = bars[n].day /\ c.vol = DayVolume(bars, n)

\* The next bar keeps it.
LEMMA NextBar ==
    ASSUME NEW bars, BarsOK(bars), NEW n \in Nat, n < Len(bars), NEW c, Carries(c, bars, n)
    PROVE  Carries(Running(c, bars[n + 1]), bars, n + 1)
  <1>. DEFINE f == [j \in DOMAIN bars |-> AtLeast(bars[j].vol, 0)]
              D(m) == {j \in 1..m : bars[j].day = bars[m].day}
              x == bars[n + 1]
  <1>1. Len(bars) \in Nat /\ DOMAIN bars = 1..Len(bars) /\ n + 1 \in 1..Len(bars)
    BY LenProperties DEF BarsOK
  <1>2. \A j \in 1..Len(bars) : bars[j] \in Candle
    BY ElementOfSeq DEF BarsOK
  <1>3. \A j \in 1..Len(bars) : f[j] \in Int /\ f[j] = AtLeast(bars[j].vol, 0)
    BY <1>1, <1>2 DEF AtLeast, Candle
  <1>4. \A j \in 1..Len(bars) : bars[j].day \in Nat
    BY <1>2 DEF Candle
  <1>5. \A m : DayVolume(bars, m) = Ticks!Total(f, D(m))
    BY SumIs DEF DayVolume
  <1>6. Running(c, x).day = x.day
        /\ Running(c, x).vol = (IF c.day = x.day THEN c.vol ELSE 0) + f[n + 1]
    BY <1>1, <1>3 DEF Running
  <1>7. \A i \in 1..n : bars[i].day <= x.day
    BY <1>1 DEF BarsOK, DaysInOrder
  <1>8. ASSUME NEW S \in SUBSET (1..n)
        PROVE  /\ Ticks!Numbers(f, S) /\ Ticks!Total(f, S) \in Int
               /\ Ticks!Total(f, S \cup {n + 1}) = Ticks!Total(f, S) + f[n + 1]
    <2>1. IsFiniteSet(S)
      BY FS_Interval, FS_Subset, 1 \in Int, n \in Int
    <2>2. \A j \in S : f[j] \in Int
      BY <1>1, <1>3
    <2>3. f[n + 1] \in Int /\ n + 1 \notin S
      BY <1>1, <1>3
    <2>. HIDE DEF f
    <2>4. Ticks!Numbers(f, S)
      BY <2>1, <2>2, FiniteIs DEF Ticks!Numbers
    <2>. QED BY <2>3, <2>4, Ticks!SumInsert
  <1>9. Ticks!Total(f, {}) = 0
    <2>1. {} \in SUBSET (1..n)
      OBVIOUS
    <2>. HIDE DEF f
    <2>. QED BY <1>8, <2>1, Ticks!SumAdd
  <1>10. D(n + 1) = {j \in 1..n : bars[j].day = x.day} \cup {n + 1}
    OBVIOUS
  <1>. HIDE DEF f
  <1>11. Running(c, x).vol = Ticks!Total(f, D(n + 1))
    <2>1. CASE n # 0 /\ c.day = x.day
      <3>1. c.day = bars[n].day /\ c.vol = Ticks!Total(f, D(n))
        BY <1>5, <2>1 DEF Carries
      <3>2. D(n) = {j \in 1..n : bars[j].day = x.day}
        BY <2>1, <3>1
      <3>3. D(n) \in SUBSET (1..n)
        OBVIOUS
      <3>4. D(n + 1) = D(n) \cup {n + 1}
        BY <1>10, <3>2
      <3>. HIDE DEF D, x
      <3>. QED BY <1>6, <1>8, <2>1, <3>1, <3>3, <3>4
    <2>2. CASE n = 0 \/ c.day # x.day
      <3>1. {j \in 1..n : bars[j].day = x.day} = {}
        <4>1. CASE n = 0
          BY <4>1
        <4>2. CASE n # 0
          <5>1. c.day = bars[n].day /\ n \in 1..n
            BY <4>2 DEF Carries
          <5>2. bars[n].day < x.day
            <6>1. bars[n].day # x.day /\ bars[n].day <= x.day
              BY <1>7, <2>2, <4>2, <5>1
            <6>. QED BY <1>1, <1>4, <5>1, <6>1
          <5>3. \A j \in 1..n : bars[j].day <= bars[n].day
            <6>1. \A j \in 1..n : bars[j].day \in Nat /\ (j < n \/ j = n)
              BY <1>1, <1>4
            <6>. QED BY <1>1, <6>1, <5>1 DEF BarsOK, DaysInOrder
          <5>4. \A j \in 1..n : bars[j].day \in Nat /\ bars[n].day \in Nat /\ x.day \in Nat
            BY <1>1, <1>4, <5>1
          <5>5. \A j \in 1..n : bars[j].day # x.day
            BY <5>2, <5>3, <5>4
          <5>. QED BY <5>5
        <4>. QED BY <4>1, <4>2
      <3>2. D(n + 1) = {} \cup {n + 1}
        BY <1>10, <3>1
      <3>3. {} \in SUBSET (1..n)
        OBVIOUS
      <3>4. f[n + 1] \in Int
        BY <1>1, <1>3
      <3>5. Ticks!Total(f, D(n + 1)) = f[n + 1]
        <4>1. Ticks!Total(f, {} \cup {n + 1}) = Ticks!Total(f, {}) + f[n + 1]
          BY <1>8, <3>3
        <4>2. Ticks!Total(f, D(n + 1)) = Ticks!Total(f, {} \cup {n + 1})
          BY ONLY <3>2
        <4>3. Ticks!Total(f, {} \cup {n + 1}) = f[n + 1]
          BY ONLY <1>9, <3>4, <4>1
        <4>. QED BY ONLY <4>2, <4>3
      <3>6. (IF c.day = x.day THEN c.vol ELSE 0) = 0
        <4>1. CASE n = 0
          BY <4>1 DEF Carries
        <4>2. CASE c.day # x.day
          BY <4>2
        <4>. QED BY <2>2, <4>1, <4>2
      <3>. HIDE DEF D, x
      <3>. QED BY <1>6, <3>4, <3>5, <3>6
    <2>. QED BY <2>1, <2>2
  <1>12. n + 1 # 0
    OBVIOUS
  <1>. HIDE DEF D
  <1>. QED BY <1>5, <1>6, <1>11, <1>12 DEF Carries

-----------------------------------------------------------------------------
ReplayIInv ==
    /\ series \in Seq([sym : Tracked, bars : Seq(Candle)])
    /\ \A i, j \in 1..Len(series) : i < j => series[i].sym # series[j].sym
    /\ \A k \in 1..Len(series) : BarsOK(series[k].bars)
    /\ slot \in Nat \ {0} /\ place \in 1..Len(series) + 1
    /\ DOMAIN cum = Tracked
    /\ \A k \in 1..Len(series) : Carries(cum[series[k].sym], series[k].bars, Sent(k))

\* What ReplayInit takes of an archive.
LEMMA WindowedOK ==
    ASSUME NEW archive \in Archives
    PROVE  /\ Windowed(archive) \in Seq([sym : Tracked, bars : Seq(Candle)])
           /\ \A i, j \in 1..Len(Windowed(archive)) :
                 i < j => Windowed(archive)[i].sym # Windowed(archive)[j].sym
           /\ \A k \in 1..Len(Windowed(archive)) : BarsOK(Windowed(archive)[k].bars)
  <1>. DEFINE all == SetToSeq(Tracked)
              R == {p \in Tracked \X Tracked : p[1] # p[2]}
  <1>1. all \in Seq(Tracked) /\ Ticks!Falls(all, R)
    BY UniverseOnce
  <1>. HIDE DEF all
  <1>2. PICK held : held = Filter(all, {s \in Tracked : archive[s] # <<>>})
    OBVIOUS
  <1>3. held \in Seq(Tracked \cap {s \in Tracked : archive[s] # <<>>})
    BY <1>1, <1>2, SiftIs, Ticks!FilterElements
  <1>4. Ticks!Falls(held, R)
    <2>. HIDE DEF R
    <2>. QED BY <1>1, <1>2, SiftIs, Ticks!FilterFalls
  <1>5. PICK n \in Nat : n = Len(held) /\ DOMAIN held = 1..n
    BY <1>3, LenProperties
  <1>6. \A k \in 1..n : held[k] \in Tracked
    BY <1>3, <1>5, ElementOfSeq
  <1>7. \A k \in 1..n : BarsOK(Recent(archive[held[k]]))
    <2>1. \A s \in Tracked : BarsOK(archive[s])
      BY ReplayAssumption DEF BarsOK
    <2>. QED BY <1>6, <2>1, RecentOK
  <1>8. Windowed(archive) = [k \in 1..n |-> [sym |-> held[k], bars |-> Recent(archive[held[k]])]]
    BY <1>2, <1>5 DEF Windowed, all
  <1>9. Windowed(archive) \in [1..n -> [sym : Tracked, bars : Seq(Candle)]]
    BY <1>6, <1>7, <1>8 DEF BarsOK
  <1>10. Windowed(archive) \in Seq([sym : Tracked, bars : Seq(Candle)]) /\ Len(Windowed(archive)) = n
    <2>1. PICK T : T = [sym : Tracked, bars : Seq(Candle)]
      OBVIOUS
    <2>2. PICK w : w = Windowed(archive)
      OBVIOUS
    <2>3. w \in [1..n -> T]
      BY <1>9, <2>1, <2>2
    <2>4. w \in Seq(T) /\ Len(w) = n
      BY <2>3, SeqDef
    <2>. QED BY <2>1, <2>2, <2>4
  <1>11. \A i, j \in 1..n : i < j => held[i] # held[j]
    BY <1>4, <1>5 DEF Ticks!Falls
  <1>. QED BY <1>7, <1>8, <1>10, <1>11

\* Nothing sent: every counter is at zero.
LEMMA ReplayInitOK == ReplayInit => ReplayIInv
  <1>. SUFFICES ASSUME ReplayInit PROVE ReplayIInv
    OBVIOUS
  <1>1. PICK archive \in Archives : series = Windowed(archive)
    BY DEF ReplayInit
  <1>2. /\ series \in Seq([sym : Tracked, bars : Seq(Candle)])
        /\ \A i, j \in 1..Len(series) : i < j => series[i].sym # series[j].sym
        /\ \A k \in 1..Len(series) : BarsOK(series[k].bars)
    BY <1>1, WindowedOK
  <1>3. Len(series) \in Nat
    BY <1>2, LenProperties
  <1>4. slot = 1 /\ place = 1 /\ cum = [s \in Tracked |-> [vol |-> 0, day |-> NoDay]]
    BY DEF ReplayInit
  <1>5. ASSUME NEW k \in 1..Len(series)
        PROVE  Carries(cum[series[k].sym], series[k].bars, Sent(k))
    <2>1. series[k].bars \in Seq(Candle) /\ series[k].sym \in Tracked
      <3>1. series[k] \in [sym : Tracked, bars : Seq(Candle)]
        BY <1>2, ElementOfSeq
      <3>. QED BY <3>1
    <2>2. Len(series[k].bars) \in Nat
      BY <2>1, LenProperties
    <2>3. Sent(k) = 0
      BY <1>4, <2>2 DEF Sent
    <2>. QED BY <1>4, <2>1, <2>3 DEF Carries
  <1>. QED BY <1>2, <1>3, <1>4, <1>5 DEF ReplayIInv

\* Sending a bar adds its volume to the counter of its symbol, or starts it anew.
LEMMA EmitBarOK == ReplayIInv /\ EmitBar => ReplayIInv'
  <1>. SUFFICES ASSUME ReplayIInv, EmitBar PROVE ReplayIInv'
    OBVIOUS
  <1>1. /\ series \in Seq([sym : Tracked, bars : Seq(Candle)])
        /\ \A i, j \in 1..Len(series) : i < j => series[i].sym # series[j].sym
        /\ \A k \in 1..Len(series) : BarsOK(series[k].bars)
        /\ slot \in Nat \ {0} /\ place \in 1..Len(series) + 1 /\ DOMAIN cum = Tracked
    BY DEF ReplayIInv
  <1>2. Len(series) \in Nat /\ DOMAIN series = 1..Len(series)
    BY <1>1, LenProperties
  <1>3. place \in 1..Len(series) /\ place' = place + 1 /\ series' = series /\ slot' = slot
    BY <1>2 DEF EmitBar
  <1>4. PICK p \in 1..Len(series) : p = place
    BY <1>3
  <1>. DEFINE s == series[p].sym
              bars == series[p].bars
              b == bars[slot]
  <1>5. s \in Tracked /\ bars \in Seq(Candle) /\ BarsOK(bars)
    <2>1. series[p] \in [sym : Tracked, bars : Seq(Candle)]
      BY <1>1, ElementOfSeq
    <2>. QED BY <1>1, <2>1
  <1>6. Len(bars) \in Nat
    BY <1>5, LenProperties
  <1>7. cum' = IF slot > Len(bars) THEN cum ELSE [cum EXCEPT ![s] = Running(cum[s], b)]
    BY <1>4 DEF EmitBar
  <1>8. DOMAIN cum' = Tracked
    BY <1>1, <1>7
  <1>9. ASSUME NEW k \in 1..Len(series), k # p
        PROVE  Sent(k)' = Sent(k) /\ cum'[series[k].sym] = cum[series[k].sym]
    <2>1. k < place' <=> k < place
      BY <1>3, <1>4, <1>9
    <2>2. Sent(k)' = Sent(k)
      BY <1>3, <2>1 DEF Sent
    <2>3. series[k].sym # s
      BY <1>1, <1>2, <1>9
    <2>. QED BY <1>1, <1>7, <2>2, <2>3
  <1>10. /\ Sent(p) = IF slot - 1 <= Len(bars) THEN slot - 1 ELSE Len(bars)
         /\ Sent(p)' = IF slot <= Len(bars) THEN slot ELSE Len(bars)
    BY <1>3, <1>4 DEF Sent
  <1>11. Carries(cum[s], bars, Sent(p))
    BY DEF ReplayIInv
  <1>12. Carries(cum'[s], bars, Sent(p)')
    <2>1. CASE slot > Len(bars)
      <3>1. Sent(p)' = Sent(p)
        BY <1>1, <1>6, <1>10, <2>1
      <3>. QED BY <1>7, <1>11, <2>1, <3>1
    <2>2. CASE ~(slot > Len(bars))
      <3>1. PICK n \in Nat : slot = n + 1 /\ n < Len(bars)
        <4>1. slot - 1 \in Nat /\ slot = (slot - 1) + 1 /\ slot - 1 < Len(bars)
          BY <1>1, <1>6, <2>2
        <4>. QED BY <4>1
      <3>2. Sent(p) = n /\ Sent(p)' = n + 1
        BY <1>6, <1>10, <3>1
      <3>3. cum'[s] = Running(cum[s], bars[n + 1])
        BY <1>1, <1>5, <1>7, <2>2, <3>1
      <3>4. PICK c : c = cum[s]
        OBVIOUS
      <3>5. Carries(Running(c, bars[n + 1]), bars, n + 1)
        <4>. HIDE DEF bars, s
        <4>. QED BY <1>5, <1>11, <3>1, <3>2, <3>4, NextBar
      <3>. HIDE DEF bars, s
      <3>. QED BY <3>2, <3>3, <3>4, <3>5
    <2>. QED BY <2>1, <2>2
  <1>13. ASSUME NEW k \in 1..Len(series)
         PROVE  Carries(cum'[series[k].sym], series[k].bars, Sent(k)')
    <2>1. Carries(cum[series[k].sym], series[k].bars, Sent(k))
      BY DEF ReplayIInv
    <2>. QED BY <1>9, <1>12, <2>1
  <1>14. place' \in 1..Len(series) + 1
    BY <1>2, <1>3
  <1>. QED BY <1>1, <1>3, <1>8, <1>13, <1>14 DEF ReplayIInv

\* Going on to the next slot sends nothing.
LEMMA NextSlotOK == ReplayIInv /\ NextSlot => ReplayIInv'
  <1>. SUFFICES ASSUME ReplayIInv, NextSlot PROVE ReplayIInv'
    OBVIOUS
  <1>1. /\ series \in Seq([sym : Tracked, bars : Seq(Candle)])
        /\ slot \in Nat \ {0} /\ place \in 1..Len(series) + 1
    BY DEF ReplayIInv
  <1>2. Len(series) \in Nat
    BY <1>1, LenProperties
  <1>3. /\ slot' = slot + 1 /\ place' = 1 /\ place > Len(series)
        /\ series' = series /\ cum' = cum
    BY DEF NextSlot
  <1>4. ASSUME NEW k \in 1..Len(series) PROVE Sent(k)' = Sent(k)
    <2>1. k < place /\ ~(k < place') /\ slot' - 1 = slot
      BY <1>1, <1>2, <1>3
    <2>. QED BY <1>3, <2>1 DEF Sent
  <1>5. \A k \in 1..Len(series) : Carries(cum'[series[k].sym], series[k].bars, Sent(k)')
    BY <1>3, <1>4 DEF ReplayIInv
  <1>6. slot' \in Nat \ {0} /\ place' \in 1..Len(series) + 1
    BY <1>1, <1>2, <1>3
  <1>. QED BY <1>3, <1>5, <1>6 DEF ReplayIInv

\* A replayed tick carries what its session traded so far: run_replay's cum_volume
\* over any archives whose files are in the order of their dates.
THEOREM ReplayCarriesSession == ReplaySpec => []SessionVolume
  <1>1. ReplayIInv => SessionVolume
    <2>. SUFFICES ASSUME ReplayIInv PROVE SessionVolume
      OBVIOUS
    <2>1. DOMAIN series = 1..Len(series)
      BY LenProperties DEF ReplayIInv
    <2>. QED BY <2>1 DEF ReplayIInv, SessionVolume, Carries
  <1>2. ReplayIInv /\ [ReplayNext]_<<foldVars, replayVars>> => ReplayIInv'
    <2>. SUFFICES ASSUME ReplayIInv, [ReplayNext]_<<foldVars, replayVars>> PROVE ReplayIInv'
      OBVIOUS
    <2>1. CASE EmitBar
      BY <2>1, EmitBarOK
    <2>2. CASE NextSlot
      BY <2>2, NextSlotOK
    <2>3. CASE UNCHANGED <<series, slot, place, cum>>
      BY <2>3 DEF ReplayIInv, Sent
    <2>4. StopBetweenSlots \/ Halt => UNCHANGED <<series, slot, place, cum>>
      BY DEF StopBetweenSlots, Halt
    <2>. QED BY <2>1, <2>2, <2>3, <2>4 DEF ReplayNext, replayVars
  <1>. QED BY <1>1, <1>2, ReplayInitOK, PTL DEF ReplaySpec
=============================================================================
