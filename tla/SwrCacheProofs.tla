--------------------------- MODULE SwrCacheProofs ---------------------------
(***************************************************************************)
(* Safety of one cache slot for any number of requests, any number of      *)
(* archive changes and any poll bound, panics and failed scans included.   *)
(***************************************************************************)
EXTENDS SwrCache, TLAPS

\* A scan read the archive at some moment since the slot's entry was published.
ScansCurrent ==
    /\ entry.gen <= archive
    /\ marked.gen <= archive
    /\ \A o \in Owners : job[o].phase = "computing" =>
          /\ job[o].gen \in 0..archive
          /\ entry.gen <= job[o].gen

\* A scan that will publish something older than the mark was seen by the mark.
OverlapSeen ==
    \A o \in Owners :
        job[o].phase = "computing" /\ job[o].gen < marked.gen => marked.overlap

IInv == TypeOK /\ SingleFlight /\ ScansCurrent /\ OverlapSeen /\ MarkEffective

\* The inductive invariant holds of the initial state.
LEMMA InitIInv == Init => IInv
  <1>. SUFFICES ASSUME Init PROVE IInv
    OBVIOUS
  <1>1. 0 \in Gen /\ 0 \in 0..MaxPolls
    BY BoundsAssumption DEF Gen
  <1>2. TypeOK
    BY <1>1 DEF Init, TypeOK, NoJob, NoEntry, JobPhase, ReqPc, ThreadPc
  <1>3. ~\E o \in Owners : Holds(o) \/ job[o].phase = "computing"
    BY DEF Init, Holds, NoJob
  <1>4. SingleFlight
    BY <1>3 DEF Init, SingleFlight
  <1>5. ScansCurrent /\ OverlapSeen
    BY <1>3 DEF Init, ScansCurrent, OverlapSeen, NoEntry
  <1>6. MarkEffective
    BY DEF Init, MarkEffective, Populated
  <1>. QED BY <1>2, <1>4, <1>5, <1>6 DEF IInv

\* Steps that move only the position of a request or thread.
LEMMA PositionStep ==
    ASSUME IInv, TypeOK', UNCHANGED <<archive, marked, entry, refreshing, job>>
    PROVE  IInv'
  BY DEF IInv, SingleFlight, ScansCurrent, OverlapSeen, MarkEffective, Holds,
     Populated, Stale

\* A won compare-exchange: the claimed job is the only one.
LEMMA ClaimStep ==
    ASSUME IInv, NEW o \in Owners, TryBeginRefresh(o), TypeOK',
           UNCHANGED <<archive, marked, entry>>
    PROVE  IInv'
  BY DEF IInv, TypeOK, TryBeginRefresh, SingleFlight, ScansCurrent, OverlapSeen,
     MarkEffective, Holds, Populated, Stale

\* Moving a request keeps its record well typed.
LEMMA GoToTyped ==
    ASSUME TypeOK, NEW r \in Requests, NEW pc \in ReqPc, GoTo(r, pc)
    PROVE  req' \in [Requests -> [pc : ReqPc, polls : 0..MaxPolls]]
  <1>1. [pc |-> pc, polls |-> 0] \in [pc : ReqPc, polls : 0..MaxPolls]
    BY BoundsAssumption
  <1>. QED BY <1>1 DEF TypeOK, GoTo

\* Winning the compare-exchange keeps the guard and the jobs well typed.
LEMMA ClaimTyped ==
    ASSUME TypeOK, NEW o \in Owners, TryBeginRefresh(o)
    PROVE  /\ refreshing' \in BOOLEAN
           /\ job' \in [Owners -> [phase : JobPhase, gen : Gen \cup {-1}]]
  BY DEF TypeOK, TryBeginRefresh, JobPhase

\* Every request action leaves the state well typed and either claims the guard
\* or moves only the request.
LEMMA RequestTyped ==
    ASSUME IInv, NEW r \in Requests, RequestStep(r) \/ Cancel(r) \/ NewRequest(r)
    PROVE  /\ TypeOK'
           /\ UNCHANGED <<archive, marked, entry>>
           /\ \/ UNCHANGED <<refreshing, job>>
              \/ TryBeginRefresh(r)
  <1>. USE DEF IInv, TypeOK
  <1>0. r \in Owners
    BY DEF Owners
  <1>1. CASE Lookup(r)
    <2>1. \E pc \in ReqPc : GoTo(r, pc)
      BY <1>1 DEF Lookup, GoTo, ReqPc
    <2>. QED BY <1>1, <2>1, GoToTyped DEF Lookup
  <1>2. CASE StaleHit(r)
    BY <1>0, <1>2, GoToTyped, ClaimTyped DEF StaleHit, ReqPc
  <1>3. CASE ColdMiss(r)
    BY <1>0, <1>3, GoToTyped, ClaimTyped DEF ColdMiss, ReqPc
  <1>4. CASE Poll(r)
    <2>1. CASE GoTo(r, "answered")
      BY <1>4, <2>1, GoToTyped DEF Poll, ReqPc
    <2>2. CASE req' = [req EXCEPT ![r].polls = @ + 1]
      BY <1>4, <2>2, BoundsAssumption DEF Poll
    <2>. QED BY <1>4, <2>1, <2>2 DEF Poll
  <1>5. CASE PollTimeout(r)
    BY <1>5, GoToTyped DEF PollTimeout, ReqPc
  <1>6. CASE InlineDone(r)
    BY <1>6, GoToTyped DEF InlineDone, ReqPc
  <1>7. CASE Cancel(r)
    BY <1>7, GoToTyped DEF Cancel, ReqPc
  <1>8. CASE NewRequest(r)
    BY <1>8, GoToTyped DEF NewRequest, ReqPc
  <1>. QED
    BY <1>1, <1>2, <1>3, <1>4, <1>5, <1>6, <1>7, <1>8 DEF RequestStep

\* The same for the two bare threads.
LEMMA ThreadTyped ==
    ASSUME IInv, WarmClaim \/ SchedStep
    PROVE  /\ TypeOK'
           /\ UNCHANGED <<archive, marked, entry>>
           /\ \/ UNCHANGED <<refreshing, job>>
              \/ \E o \in Threads : TryBeginRefresh(o)
  <1>. USE DEF IInv, TypeOK
  <1>1. Warm \in Owners /\ Sched \in Owners /\ Warm \in Threads /\ Sched \in Threads
    BY DEF Owners, Threads
  <1>2. CASE WarmClaim
    BY <1>1, <1>2, ClaimTyped DEF WarmClaim, ThreadPc
  <1>3. CASE SchedLook
    BY <1>3 DEF SchedLook, ThreadPc
  <1>4. CASE SchedClaim
    BY <1>1, <1>4, ClaimTyped DEF SchedClaim, ThreadPc
  <1>. QED BY <1>2, <1>3, <1>4 DEF SchedStep

\* The steps of a job keep the invariant.
LEMMA JobStepIInv ==
    ASSUME IInv, NEW o \in Owners, JobStep(o)
    PROVE  IInv'
  <1>. USE BoundsAssumption DEF IInv, TypeOK, JobPhase, Gen
  <1>1. CASE JobCompute(o)
    BY <1>1 DEF JobCompute, SingleFlight, ScansCurrent, OverlapSeen,
       MarkEffective, Holds, Populated, Stale, Entry, NoEntry
  <1>2. CASE JobStore(o)
    <2>1. entry' \in Entry /\ entry'.gen = job[o].gen /\ job'[o].phase = "stored"
      BY <1>2 DEF JobStore, ScansCurrent, Entry
    <2>2. \A p \in Owners : p # o => job'[p] = job[p] /\ job[p].phase = "none"
      BY <1>2 DEF JobStore, SingleFlight, Holds
    <2>3. TypeOK'
      BY <1>2, <2>1 DEF JobStore
    <2>4. SingleFlight'
      BY <1>2, <2>1, <2>2 DEF JobStore, SingleFlight, Holds
    <2>5. ScansCurrent'
      BY <1>2, <2>1, <2>2 DEF JobStore, ScansCurrent
    <2>6. OverlapSeen'
      BY <1>2, <2>1, <2>2 DEF JobStore, OverlapSeen
    <2>7. MarkEffective'
      BY <1>2, <2>1 DEF JobStore, MarkEffective, OverlapSeen, Populated
    <2>. QED BY <2>3, <2>4, <2>5, <2>6, <2>7
  <1>3. CASE JobRelease(o) \/ JobAbort(o)
    <2>0. req' \in [Requests -> [pc : ReqPc, polls : 0..MaxPolls]]
      <3>1. Wake(o, "answered") \/ Wake(o, "failed")
        BY <1>3 DEF JobRelease, JobAbort
      <3>. QED BY <3>1, GoToTyped DEF Wake, ReqPc
    <2>1. TypeOK' /\ UNCHANGED <<archive, marked, entry>>
      <3>1. job' = [job EXCEPT ![o] = NoJob] /\ refreshing' = FALSE
        BY <1>3 DEF JobRelease, JobAbort
      <3>2. NoJob \in [phase : JobPhase, gen : Gen \cup {-1}]
        BY DEF NoJob
      <3>3. UNCHANGED <<archive, marked, entry, thread>>
        BY <1>3 DEF JobRelease, JobAbort
      <3>. QED BY <2>0, <3>1, <3>2, <3>3
    <2>2. refreshing' = FALSE /\ \A p \in Owners : job'[p].phase = "none"
      BY <1>3 DEF JobRelease, JobAbort, NoJob, SingleFlight, Holds
    <2>. QED
      BY <2>1, <2>2 DEF SingleFlight, ScansCurrent, OverlapSeen, MarkEffective,
         Holds, Populated, Stale
  <1>4. CASE JobPanic(o)
    BY <1>4 DEF JobPanic, SingleFlight, ScansCurrent, OverlapSeen,
       MarkEffective, Holds, Populated, Stale
  <1>. QED BY <1>1, <1>2, <1>3, <1>4 DEF JobStep

\* The archive, the mark and the clock keep the invariant.
LEMMA WorldIInv ==
    ASSUME IInv, AddStock \/ MarkStale \/ Expire
    PROVE  IInv'
  <1>. USE BoundsAssumption DEF IInv, TypeOK, Gen, Entry, NoEntry
  <1>1. CASE AddStock
    BY <1>1 DEF AddStock, JobPhase, SingleFlight, Holds, ScansCurrent,
       OverlapSeen, MarkEffective, Populated, Stale
  <1>2. CASE MarkStale
    <2>. DEFINE Overlapping == \E o \in Owners : /\ job[o].phase = "computing"
                                                 /\ job[o].gen < archive
    <2>1. marked' = [gen |-> archive, overlap |-> Overlapping]
      BY <1>2 DEF MarkStale
    <2>2. Overlapping \in BOOLEAN
      OBVIOUS
    <2>3. \A o \in Owners :
             job[o].phase = "computing" /\ job[o].gen < archive => Overlapping
      OBVIOUS
    <2>. HIDE DEF Overlapping
    <2>4. UNCHANGED <<archive, refreshing, job, req, thread>>
      BY <1>2 DEF MarkStale
    <2>5. entry' = IF Populated THEN [entry EXCEPT !.override = TRUE] ELSE entry
      BY <1>2 DEF MarkStale
    <2>6. TypeOK' /\ entry'.gen = entry.gen
      BY <2>1, <2>2, <2>4, <2>5 DEF Populated
    <2>7. SingleFlight'
      BY <2>4 DEF SingleFlight, Holds
    <2>8. ScansCurrent' /\ OverlapSeen'
      BY <2>1, <2>3, <2>4, <2>6 DEF ScansCurrent, OverlapSeen
    <2>9. MarkEffective'
      BY <2>5 DEF MarkEffective, Populated, Stale
    <2>. QED BY <2>6, <2>7, <2>8, <2>9
  <1>3. CASE Expire
    BY <1>3 DEF Expire, JobPhase, SingleFlight, Holds, ScansCurrent,
       OverlapSeen, MarkEffective, Populated, Stale
  <1>. QED BY <1>1, <1>2, <1>3

\* The invariant is inductive.
LEMMA NextIInv == IInv /\ [Next]_vars => IInv'
  <1>. SUFFICES ASSUME IInv, [Next]_vars PROVE IInv' OBVIOUS
  <1>1. ASSUME NEW r \in Requests, RequestStep(r) \/ Cancel(r) \/ NewRequest(r)
        PROVE  IInv'
    BY <1>1, RequestTyped, PositionStep, ClaimStep DEF Owners
  <1>2. CASE WarmClaim \/ SchedStep
    BY <1>2, ThreadTyped, PositionStep, ClaimStep DEF Owners
  <1>3. CASE UNCHANGED vars
    BY <1>3, PositionStep DEF vars, IInv, TypeOK
  <1>. QED
    BY <1>1, <1>2, <1>3, JobStepIInv, WorldIInv DEF Next

\* The invariant holds in every reachable state.
THEOREM Invariance == Spec => []IInv
  BY InitIInv, NextIInv, PTL DEF Spec

\* Every variable keeps its type: in particular no waiter exceeds its poll bound.
THEOREM TypeCorrect == Spec => []TypeOK
  BY Invariance, PTL DEF IInv

\* However many requests pile up, one job at a time holds the guard, and the
\* guard is set exactly while it does.
THEOREM SingleFlightHolds == Spec => []SingleFlight
  BY Invariance, PTL DEF IInv

\* mark_stale is effective unless a scan of the older archive was under way.
THEOREM MarkEffectiveHolds == Spec => []MarkEffective
  BY Invariance, PTL DEF IInv

\* Every step of a slot is a step, or a stutter, of the archive view it promises.
LEMMA StepRefines ==
    ASSUME IInv, [Next]_vars
    PROVE  [View!Next]_<<archive, entry.gen>>
  <1>. USE DEF IInv, View!Next, View!Grow, View!Publish
  <1>1. CASE AddStock BY <1>1 DEF AddStock
  <1>2. CASE MarkStale BY <1>2 DEF MarkStale, TypeOK, Entry, NoEntry
  <1>3. CASE Expire BY <1>3 DEF Expire, TypeOK, Entry, NoEntry
  <1>4. ASSUME NEW r \in Requests, RequestStep(r) \/ Cancel(r) \/ NewRequest(r)
        PROVE  UNCHANGED <<archive, entry.gen>>
    BY <1>4, RequestTyped
  <1>5. CASE WarmClaim \/ SchedStep BY <1>5, ThreadTyped
  <1>6. ASSUME NEW o \in Owners, JobStep(o)
        PROVE  [View!Next]_<<archive, entry.gen>>
    BY <1>6 DEF JobStep, JobCompute, JobStore, JobRelease, JobAbort, JobPanic,
       ScansCurrent
  <1>7. CASE UNCHANGED vars BY <1>7 DEF vars
  <1>. QED BY <1>1, <1>2, <1>3, <1>4, <1>5, <1>6, <1>7 DEF Next

\* The detailed slot implements the abstract one: what it serves is always some
\* past state of the archive and never moves back.
THEOREM Refinement == Spec => ViewSpec
  <1>1. Init => View!Init
    BY DEF Init, View!Init, NoEntry
  <1>2. IInv /\ [Next]_vars => [View!Next]_<<archive, entry.gen>>
    BY StepRefines
  <1>. QED
    BY <1>1, <1>2, Invariance, PTL DEF Spec, ViewSpec, View!Spec
=============================================================================
