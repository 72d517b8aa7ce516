------------------------------ MODULE SwrCache ------------------------------
(***************************************************************************)
(* One `Cached<T>` slot (src/cache.rs) together with everything that       *)
(* touches it: web requests running `read_through` (src/server.rs), the    *)
(* startup warm thread and the desk scheduler's `maybe_refresh`            *)
(* (src/main.rs), and the stock onboarding that calls `mark_stale`.        *)
(*                                                                         *)
(* A cached value is represented by the generation of the archive its      *)
(* universe scan read; the lock around `inner` makes each method call one  *)
(* step, and a compare-exchange on `refreshing` is a step of its own.      *)
(***************************************************************************)
EXTENDS Integers, FiniteSets

CONSTANTS
    Requests,        \* concurrent HTTP requests for this slot
    MaxGen,          \* bound: number of archive changes explored
    MaxPolls,        \* poll attempts of a waiter (1800 x 50 ms in the code)
    ThreadMayPanic,  \* may a scan panic on a bare std::thread (no JoinError)?
    ComputeMayFail   \* may a scan end without a value (None, Err, caught panic)?

ASSUME BoundsAssumption == MaxGen \in Nat /\ MaxPolls \in Nat
ASSUME FlagsAssumption == ThreadMayPanic \in BOOLEAN /\ ComputeMayFail \in BOOLEAN

\* The two bare threads that claim the slot outside any request.
Warm == "warm"
Sched == "sched"
Threads == {Warm, Sched}
Owners == Requests \cup Threads

ASSUME OwnersAssumption == Requests \cap Threads = {}

VARIABLES
    archive,     \* generation of the parquet archive on disk
    marked,      \* the last `mark_stale`: archive generation, scan it overlapped
    entry,       \* inner: RwLock<Option<Entry<T>>>
    refreshing,  \* the single-flight AtomicBool
    job,         \* per owner: the detached task or thread computing a value
    req,         \* per request: where its read_through future is
    thread       \* per bare thread: where its claim is

vars == <<archive, marked, entry, refreshing, job, req, thread>>

Gen == 0..MaxGen
NoEntry == [gen |-> -1, expired |-> FALSE, override |-> FALSE]
Entry == [gen : Gen, expired : BOOLEAN, override : BOOLEAN]

\* A job holds the single-flight guard from "claimed" until it is "none" again;
\* "panicked" is a bare thread that died with the guard still set.
JobPhase == {"none", "claimed", "computing", "stored", "panicked"}
NoJob == [phase |-> "none", gen |-> -1]
Holds(o) == job[o].phase # "none"

ReqPc == {"idle", "stalehit", "cold", "awaiting", "polling", "inline",
          "answered", "failed", "cancelled"}
ThreadPc == {"ready", "sawstale", "off"}

TypeOK ==
    /\ archive \in Gen
    /\ marked \in [gen : Gen, overlap : BOOLEAN]
    /\ entry \in Entry \cup {NoEntry}
    /\ refreshing \in BOOLEAN
    /\ job \in [Owners -> [phase : JobPhase, gen : Gen \cup {-1}]]
    /\ req \in [Requests -> [pc : ReqPc, polls : 0..MaxPolls]]
    /\ thread \in [Threads -> ThreadPc]

Init ==
    /\ archive = 0
    /\ marked = [gen |-> 0, overlap |-> FALSE]
    /\ entry = NoEntry
    /\ refreshing = FALSE
    /\ job = [o \in Owners |-> NoJob]
    /\ req = [r \in Requests |-> [pc |-> "idle", polls |-> 0]]
    /\ thread = [t \in Threads |-> "ready"]

\* Cached::is_populated
Populated == entry # NoEntry

\* The `stale` flag of Cached::lookup: cold, overridden or older than the TTL.
Stale == ~Populated \/ entry.override \/ entry.expired

\* Mutant: a plain store instead of the compare-exchange, so a claim always wins.
TryBeginRefreshUnchecked(o) ==
    /\ refreshing' = TRUE
    /\ job' = [job EXCEPT ![o] = [phase |-> "claimed", gen |-> -1]]

\* Cached::try_begin_refresh succeeding for owner o, who then owns the job.
TryBeginRefresh(o) ==
    /\ ~refreshing
    /\ refreshing' = TRUE
    /\ job' = [job EXCEPT ![o] = [phase |-> "claimed", gen |-> -1]]

GoTo(r, pc) == req' = [req EXCEPT ![r] = [pc |-> pc, polls |-> 0]]

-----------------------------------------------------------------------------
\* The archive and the passage of time.

\* POST /api/add_stock: the downloader subprocess adds parquet files.
AddStock ==
    /\ archive < MaxGen
    /\ archive' = archive + 1
    /\ UNCHANGED <<marked, entry, refreshing, job, req, thread>>

\* Mutant: onboarding records its change but sets no override.
MarkStaleForgotten ==
    /\ marked' = [gen |-> archive,
                   overlap |-> \E o \in Owners : /\ job[o].phase = "computing"
                                                /\ job[o].gen < archive]
    /\ UNCHANGED <<archive, entry, refreshing, job, req, thread>>

\* POST /api/onboard_symbol, after its merge: Cached::mark_stale on this slot.
\* On a cold slot it has no entry to mark.
MarkStale ==
    /\ marked' = [gen |-> archive,
                   overlap |-> \E o \in Owners : /\ job[o].phase = "computing"
                                                /\ job[o].gen < archive]
    /\ entry' = IF Populated THEN [entry EXCEPT !.override = TRUE] ELSE entry
    /\ UNCHANGED <<archive, refreshing, job, req, thread>>

\* built_at.elapsed() reaches the TTL.
Expire ==
    /\ Populated
    /\ entry' = [entry EXCEPT !.expired = TRUE]
    /\ UNCHANGED <<archive, marked, refreshing, job, req, thread>>

-----------------------------------------------------------------------------
\* read_through, one request r.

\* The first lookup: fresh hit, stale hit or cold miss.
Lookup(r) ==
    /\ req[r].pc = "idle"
    /\ req' = [req EXCEPT ![r] =
                 [pc |-> IF ~Populated THEN "cold"
                         ELSE IF Stale THEN "stalehit" ELSE "answered",
                  polls |-> 0]]
    /\ UNCHANGED <<archive, marked, entry, refreshing, job, thread>>

\* Stale hit: kick a detached refresh if this request wins the guard, and
\* answer with the stale value either way.
StaleHit(r) ==
    /\ req[r].pc = "stalehit"
    /\ GoTo(r, "answered")
    /\ \/ TryBeginRefresh(r)
       \/ refreshing /\ UNCHANGED <<refreshing, job>>
    /\ UNCHANGED <<archive, marked, entry, thread>>

\* Cold miss: the winner awaits its detached task, a loser starts polling.
ColdMiss(r) ==
    /\ req[r].pc = "cold"
    /\ \/ TryBeginRefresh(r) /\ GoTo(r, "awaiting")
       \/ refreshing /\ GoTo(r, "polling") /\ UNCHANGED <<refreshing, job>>
    /\ UNCHANGED <<archive, marked, entry, thread>>

\* One turn of the 50 ms poll loop.
Poll(r) ==
    /\ req[r].pc = "polling"
    /\ req[r].polls < MaxPolls
    /\ \/ Populated /\ GoTo(r, "answered")
       \/ ~Populated /\ req' = [req EXCEPT ![r].polls = @ + 1]
    /\ UNCHANGED <<archive, marked, entry, refreshing, job, thread>>

\* Mutant: an exhausted waiter starts waiting again.
PollTimeoutRewait(r) ==
    /\ req[r].pc = "polling"
    /\ req[r].polls = MaxPolls
    /\ GoTo(r, "polling")
    /\ UNCHANGED <<archive, marked, entry, refreshing, job, thread>>

\* The loop is exhausted: scan inline, without the guard and without storing.
PollTimeout(r) ==
    /\ req[r].pc = "polling"
    /\ req[r].polls = MaxPolls
    /\ GoTo(r, "inline")
    /\ UNCHANGED <<archive, marked, entry, refreshing, job, thread>>

InlineDone(r) ==
    /\ req[r].pc = "inline"
    /\ \/ GoTo(r, "answered")
       \/ ComputeMayFail /\ GoTo(r, "failed")
    /\ UNCHANGED <<archive, marked, entry, refreshing, job, thread>>

\* Mutant: the request future itself owns the scan, so dropping it drops the
\* release too (read_through before its fix).
CancelDropsJob(r) ==
    /\ req[r].pc \in {"awaiting", "polling", "inline"}
    /\ GoTo(r, "cancelled")
    /\ job' = [job EXCEPT ![r] = NoJob]
    /\ UNCHANGED <<archive, marked, entry, refreshing, thread>>

\* The client disconnects and axum drops the request future at an await. The
\* detached task is not affected; an inline spawn_blocking scan runs on as well,
\* but touches nothing and is followed no further.
Cancel(r) ==
    /\ req[r].pc \in {"awaiting", "polling", "inline"}
    /\ GoTo(r, "cancelled")
    /\ UNCHANGED <<archive, marked, entry, refreshing, job, thread>>

\* The next request of the same client. A refresh it left behind may still run.
NewRequest(r) ==
    /\ req[r].pc \in {"answered", "failed", "cancelled"}
    /\ GoTo(r, "idle")
    /\ UNCHANGED <<archive, marked, entry, refreshing, job, thread>>

-----------------------------------------------------------------------------
\* The startup warm thread and the scheduler's maybe_refresh.

\* Startup precompute: one claim, and the thread ends if it loses.
WarmClaim ==
    /\ thread[Warm] = "ready"
    /\ thread' = [thread EXCEPT ![Warm] = "off"]
    /\ \/ TryBeginRefresh(Warm)
       \/ refreshing /\ UNCHANGED <<refreshing, job>>
    /\ UNCHANGED <<archive, marked, entry, req>>

\* Mutant: the scheduler only fills an empty slot.
SchedLookCold ==
    /\ thread[Sched] = "ready"
    /\ ~Populated
    /\ thread' = [thread EXCEPT ![Sched] = "sawstale"]
    /\ UNCHANGED <<archive, marked, entry, refreshing, job, req>>

\* maybe_refresh: `cache.lookup().stale && ...`
SchedLook ==
    /\ thread[Sched] = "ready"
    /\ Stale
    /\ thread' = [thread EXCEPT ![Sched] = "sawstale"]
    /\ UNCHANGED <<archive, marked, entry, refreshing, job, req>>

\* maybe_refresh: `... && cache.try_begin_refresh()`, then the detached thread.
SchedClaim ==
    /\ thread[Sched] = "sawstale"
    /\ thread' = [thread EXCEPT ![Sched] = "ready"]
    /\ \/ TryBeginRefresh(Sched)
       \/ refreshing /\ UNCHANGED <<refreshing, job>>
    /\ UNCHANGED <<archive, marked, entry, req>>

-----------------------------------------------------------------------------
\* The job of owner o.

\* The scan starts reading the archive.
JobCompute(o) ==
    /\ job[o].phase = "claimed"
    /\ job' = [job EXCEPT ![o] = [phase |-> "computing", gen |-> archive]]
    /\ UNCHANGED <<archive, marked, entry, refreshing, req, thread>>

\* Cached::store, first half: the new entry, under the write lock.
JobStore(o) ==
    /\ job[o].phase = "computing"
    /\ entry' = [gen |-> job[o].gen, expired |-> FALSE, override |-> FALSE]
    /\ job' = [job EXCEPT ![o].phase = "stored"]
    /\ UNCHANGED <<archive, marked, refreshing, req, thread>>

\* A request awaiting the JoinHandle of o's task is woken by the task's end.
Wake(o, pc) ==
    IF o \in Requests /\ req[o].pc = "awaiting" THEN GoTo(o, pc) ELSE UNCHANGED req

\* Cached::store, second half: refreshing.store(false).
JobRelease(o) ==
    /\ job[o].phase = "stored"
    /\ refreshing' = FALSE
    /\ job' = [job EXCEPT ![o] = NoJob]
    /\ Wake(o, "answered")
    /\ UNCHANGED <<archive, marked, entry, thread>>

\* The scan yielded no value (a panic inside spawn_blocking included):
\* Cached::abort_refresh. maybe_refresh has no such path.
JobAbort(o) ==
    /\ ComputeMayFail
    /\ o # Sched
    /\ job[o].phase = "computing"
    /\ refreshing' = FALSE
    /\ job' = [job EXCEPT ![o] = NoJob]
    /\ Wake(o, "failed")
    /\ UNCHANGED <<archive, marked, entry, thread>>

\* A panic on a bare thread: nothing catches it and the guard stays set.
JobPanic(o) ==
    /\ ThreadMayPanic
    /\ o \in Threads
    /\ job[o].phase = "computing"
    /\ job' = [job EXCEPT ![o].phase = "panicked"]
    /\ UNCHANGED <<archive, marked, entry, refreshing, req, thread>>

-----------------------------------------------------------------------------
RequestStep(r) ==
    \/ Lookup(r) \/ StaleHit(r) \/ ColdMiss(r) \/ Poll(r)
    \/ PollTimeout(r) \/ InlineDone(r)

JobStep(o) ==
    \/ JobCompute(o) \/ JobStore(o) \/ JobRelease(o) \/ JobAbort(o) \/ JobPanic(o)

SchedStep == SchedLook \/ SchedClaim

Next ==
    \/ AddStock \/ MarkStale \/ Expire
    \/ \E r \in Requests : RequestStep(r) \/ Cancel(r) \/ NewRequest(r)
    \/ WarmClaim \/ SchedStep
    \/ \E o \in Owners : JobStep(o)

Spec == Init /\ [][Next]_vars

\* The tokio runtime polls every ready future and the OS runs every thread; a
\* TTL always elapses and the scheduler loops while the market is open. Clients
\* need not send requests, cancel them, or change the archive.
Fairness ==
    /\ \A r \in Requests : WF_vars(RequestStep(r))
    /\ \A o \in Owners : WF_vars(JobStep(o))
    /\ WF_vars(WarmClaim) /\ WF_vars(SchedStep) /\ WF_vars(Expire)

FairSpec == Spec /\ Fairness

-----------------------------------------------------------------------------
\* At most one job holds the slot's guard at any time, from its claim to its
\* release, and the guard is set exactly while one does: no interleaving of the
\* two halves of `store`, a late claim or a dropped request separates the flag
\* from the scan it stands for (cache.rs, "Single-flight").
SingleFlight ==
    /\ \A o, p \in Owners : Holds(o) /\ Holds(p) => o = p
    /\ refreshing <=> \E o \in Owners : Holds(o)

\* An onboarded stock's mark takes effect: if no scan of the older archive was
\* running when `mark_stale` was called, then as long as the slot serves a value
\* older than the mark it also reports that value stale.
MarkEffective ==
    Populated /\ entry.gen < marked.gen /\ ~marked.overlap => Stale

\* Whatever happens to the slot, the sequence of values it serves is a monotone
\* view of the archive: a slow scan never overwrites a newer one's result.
View == INSTANCE ArchiveView WITH shown <- entry.gen
ViewSpec == View!Spec

\* Every request is answered, fails or is dropped by its client: no waiter hangs
\* on a guard, not even one leaked by a panicked thread.
RequestsEnd ==
    \A r \in Requests :
        req[r].pc \in {"stalehit", "cold", "awaiting", "polling", "inline"}
            ~> req[r].pc \in {"answered", "failed", "cancelled"}

Leaked == \E o \in Threads : job[o].phase = "panicked"

\* A claimed guard is always released again, whichever requests are cancelled and
\* whichever scans fail meanwhile (server.rs:580-589); only a panic on a bare
\* thread keeps it.
GuardReleased == refreshing ~> ~refreshing \/ Leaked

\* A stock that was onboarded eventually appears, unless scans fail for ever: TTL
\* and scheduler repair a mark that a store has dropped.
MarkEventuallyShown ==
    <>[][~\E o \in Owners : JobAbort(o)]_vars =>
        (Populated /\ entry.gen < marked.gen ~> entry.gen >= marked.gen \/ Leaked)
=============================================================================
