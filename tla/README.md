# Formal models of the trading dashboard

This directory holds TLA+ models of the dashboard server (`src/src/*.rs`), the
TLC configurations that check them on small instances, and proofs that the
TLA+ proof system checks for every value of the constants. Each definition is
translated from the Rust source. `PROJECT.json` gives, for every definition,
the lines it stands for, and for every property a *mutant*: a plausible bug of
that code under which the property fails.

```
tlc -workers 2 -config X.cfg M     # model-check one run (table below)
tlapm StoreProofs.tla              # check the proofs of one module (section 4)
```

## 1. The system

`ram_istp serve` is one process: a tokio/axum web server, an ingestion thread,
an analytics thread, a desk-scheduler thread, startup warm threads, and
detached blocking tasks. It places no orders; the user trades by hand and
writes the outcome into a journal. A second mode, `backtest`, and the
onboarding of a new symbol compute the edge map the server ranks by.

| Component | State | Operations | Interacts with |
|---|---|---|---|
| SWR slot `Cached<T>` (`cache.rs`) | entry (value, built-at, override), `refreshing` flag | `lookup`, `try_begin_refresh`, `store`, `abort_refresh`, `mark_stale`; `read_through`, `maybe_refresh`, warm threads | the archive a scan reads; onboarding marks it stale |
| Keyed caches (`cache.rs`) | `RwLock<HashMap<CapRiskKey, Arc<Cached>>>` | `slot` with create, recheck and evict | finder, picks and staging pages, scheduler |
| Circuit breaker and freeze (`circuit_breaker.rs`, `main.rs`) | `RwLock<FreezeState>` | evaluation every 15 s, `POST /api/signal_freeze` | reads the journal under its Mutex; the analytics thread honours it |
| Packet push (`main.rs`, `server.rs`) | `RwLock<SignalPacket>`, `RwLock<UserSettings>`, `Notify` | one emission per second, each connection's `select!` loop | the freeze; the dashboards |
| Live feed and replay (`ingestion_engine.rs`, `main.rs`) | socket, backoff, `stop`; day volumes of a replay | connect, subscribe, read, wait; frame parsing; slot-by-slot replay | the analytics queue, `main`, which joins the threads |
| Analytics kernel (`analytics_kernel.rs`) | `LiveState` per symbol, quotes | fold of a tick, snapshot of candidates | the edge map; ranking |
| Ranking and plan (`risk_manager.rs`, `trade_planner.rs`) | locals of one emission | `size`, `rank`, `build_plan` | called by the emission |
| Strategies (`strategy_engine.rs`, `suggestion_engine.rs`) | none: a series in, entries out | indicators, 13 + 4 strategies | the fill simulator |
| Backtest fills (`strategy_engine.rs`) | locals of one walk | `run_fill` | trade lists for the statistics |
| Statistics (`stats.rs`, `validation.rs`, `regime.rs`, `cpcv.rs`) | none: a trade list in, figures out | `build_confidence`, figures, folds, splits, tests | every score on every page |
| Finder (`suggestion_engine.rs`) | locals of one search; the one-place universe cache | `scan_symbol`, `fit_symbol`, `analyze_symbol`, `fit_universe`, `find_capital_fit` | picks, staging, finder, deep dive |
| Tradability (`tradability.rs`, `kite_instruments.rs`) | instruments dump on disk | `build_index` | picks, staging, exit guard |
| Picks, staging, exit guard, costs (`picks.rs`, `execution_staging.rs`, `exit_guard.rs`, `cost_floor.rs`, `costs.rs`, `server.rs`) | none: computed per request | `build`, `stage_bracket`, `assess_exit`, `round_trip` | the fit universe and the tradability index |
| Edge map (`strategy_engine.rs`, `server.rs`, `main.rs`) | `cache/edge_map_<tf>.json`, its sidecar, the loaded index | backtest, onboarding (splice or merge), startup | candles; every ranking |
| Journal (`journal_sync.rs`, `server.rs`, `journal_import.rs`) | DuckDB table and id sequence, behind one Mutex | log, update, delete, clear, import | breaker, governor, performance |
| Journal views (`session_governor.rs`, `portfolio_analytics.rs`) | none: read from the rows | ruling of the day, equity curve | the journal, under every write to it |
| Holdings and rotation (`holdings_analytics.rs`, `portfolio_rotation.rs`) | the uploaded statement | merge, exposures, clusters, rotation | daily archive |
| Capital planner (`capital_planner.rs`) | none: computed per request | screen, rank, split | daily archive |
| Data refresh (`data_refresh.rs`) | `Mutex<RefreshState>`, a detached process group | `start_refresh`, reaper | the archive; restarts the dashboard |

What is left is listed in `PROJECT.json` under `components` with the reason
(section 6).

What is hard to test, and what the properties are for:

* **Interleavings.** A claim between the two halves of `store`; two requests
  missing the same cache key; breaker against switch and journal writers; a
  packet ranked before a freeze and published after it; two onboardings on one
  file; scans of the fit universe that overlap midnight.
* **Lost wakes.** `notify_waiters` stores no permit.
* **Crashes and partial failure.** A panic on a bare thread that holds the
  guard; files written in place; SQL statements that commit one by one; a
  pipeline that outlives the dashboard.
* **Stale state.** A scan older than the mark it clears; checks made before a
  lock; an evicted slot that others still wait on.
* **Order.** Levels laid out over a whole series at once; trades entered,
  closed and imported in any order; symbols of a replay that stand on
  different days; three searches with three tie-breaks.
* **Numbers.** Volumes that wrap or go back; sizes and stops taken from
  different prices; whole shares against weights; one-pass folds.
* **Limits.** The cache at its cap, the poll bound, the backoff's ceiling, the
  plan's four caps.

## 2. Modules

One module per component, one action per handler or per step that another
thread can interleave with. A step is what the code does without releasing its
lock, or between two atomic operations, or between two file writes. Variables
marked *auxiliary* never guard an action; properties name them. Definitions
that a comment calls *Mutant* are the planted bugs and are used by nothing.

### Shared state and threads

**SwrCache** is one slot with all its users. `JobStore` and `JobRelease` are the
two halves of `store`. A dropped request (`Cancel`) does not drop its detached
job. A cached value is the archive generation its scan read.
**ArchiveView** is what the slot promises: the archive as it was at some
moment, and never an older moment than before. `SwrCache!ViewSpec` is the
refinement with `shown <- entry.gen`.

**KeyedCache** is the map of slots. Looking at a slot and claiming it is one
step here; the inside of a slot is SwrCache's subject. `Create` rechecks under
the write lock. Eviction picks a victim while scans may still store into it.

**CircuitBreaker** represents the journal by the profit booked per day.
`Evaluate` takes the journal lock; `Apply` writes the freeze and releases it.
Open trades do not count, because the marks map is created empty and stays so
(`main.rs:693`).

**SignalPush** splits an emission into `Rank`, `Filter` and `Emit` (the freeze
is read between ranking and publishing) and each connection into its `select!`,
the packet it copied, and the frame it sends. `NotifyWaiters` wakes only
connections that are suspended at that moment.

**SignalDesk** composes the two over the one `FreezeState` they share: it extends
CircuitBreaker and takes SignalPush with `frozen <- freeze.frozen`. The breaker's
`Apply` (`Trip`) freezes and wakes nobody, the switch freezes and wakes, and a
restart (`Reboot`) forgets freeze, packet, settings and connections together.

**DataRefresh** keeps the checks of `start_refresh` apart from its claim, and
the dashboard process apart from the pipeline: a restart forgets the state and
the reapers, not the pipelines.

**LiveFeed** is `live_blocking` with its backoff, plus the joins of `main`. With
a silent peer neither the handshake inside `tungstenite::connect`, which has no
timeout, nor the read returns: `set_read_timeout` comes after the first and
handles the plain stream only.

**FitUniverse** is the one-place cache of `fit_universe`. Its lock is held for
the look-up and for the store only, so scans of one day or of two overlap.

### Files and tables

**Journal** is the table. Each SQL statement commits by itself, so an update can
end after any of its three statements and an import after any line. The
sequence is never reset. **JournalSheet** reads a sheet into the rows an import
ingests: which line is the header, which column plays which role, and the two
positional shapes of a paste. A cell is what its text could be (a heading, a
number, a word), not its characters.

**EdgeMap** has every writer of the map and its sidecar. A write truncates, then
fills, then writes the sidecar, in three steps, each of which can be the last.
All records of one symbol from one generation of candles are one *block*.

**JournalViews** is what the rows say: the governor's ruling and the performance
page's equity curve. The rows change by every handler that writes to the journal:
a row is logged with or without a fill (`Take`), relabelled, filled, closed or
closed again (`Relabel`, `Enter`, `Finish`: the three statements of `update_state`),
imported with times of its own (`ImportRow`), deleted (`Drop`) or cleared (`Wipe`,
also the first half of an import that replaces). Where Journal follows statements, crashes
and duplicates, a row here has only its decision, its two stamps and its P&L. A stamp is
taken with the statement; the handler takes it just before it waits for the Mutex.

### From ticks and bars to a plan

**TickFold** is the analytics thread. A wire frame is parsed into ticks, a tick
is folded into its symbol's `LiveState` and a snapshot scores the edges. The
day's volume travels as a signed word, may be told late and may belong to an
older day. **Replay** extends it: `run_replay` sends archived bars as ticks, slot
by slot, where slot *k* is the *k*-th bar of each symbol, whatever its time.

**Signals** has every indicator and strategy as functions of a whole series; a
NaN is a bar outside the function's domain. `chart` grows bar by bar.
**BacktestFill** is `run_fill` with the legacy policy, which all callers use.
**TradeStats** is what a trade list says, as `history` grows by booked trades.
**Confidence** is `build_confidence` alone: points, penalties, caps, gates.
**Finder** runs the two passes of a search (collect every configuration, then
score each against all that were tried) for its three callers.
**TradePlan** is one emission's ranking and plan: `Consider` is one turn of
`rank`'s loop, `Select` sorts and truncates, `Walk` is one turn of
`build_plan`'s loop with one action per cap.

### Pages

**Tradability** is the index over every dump, whole or garbled, and every
surveillance list. **Desk** extends it with the pages built from the fit
universe: sizing, picks, staging, exit guard and charges. What a page shows is
a function of the ranked rows and the index; the properties relate the pages.
A request for picks or staging (`AskPicks`, `AskStaging`) is served from the slot
of its bucket (`CapRiskKey`), so `ask`, what was asked for, and `filled`, what the rows
were sized for, are two budgets: the slot may have been filled by the finder, which
takes what is typed, by picks, which clamps it, or by staging. Budgets are naturals.
**Holdings** is the portfolio page and its rotation, **Planner** the capital
planner over an archive that grows by trading days. In both, `statement` and
`tapeOf` are the inputs and everything else is derived, as in the code. Equal
candidates come out of a hash map in an order of its own (`EdgeSeat`, `Seat`), and
the stable sort keeps it. **Portfolio** puts the two beside each other.

### Instances

**MCKeyedCache**, **MCProcesses**, **MCRules** and **MCDesk** put components side
by side that share no variable. `part` says which of them a behaviour
exercises, the others rest, and the number of states is a sum, not a product.
**MCJournal**, **MCEdgeMap**, **MCFinder**, **MCPages**, **MCPortfolio** and
**MCPlanner** hold the values a `.cfg` cannot write.

### Shared definitions and proofs

**SeqFilter** is `iter().filter()` and `Vec::retain` (`Filter`: the elements of a
sequence that lie in a set, in their order) and `sort_by` (`Sorted`: the elements of
a set, each behind those before it). They replace `SelectSeq` and `SetToSortSeq`,
whose definitions the proof system does not open. **FoldFacts** states what the folds and sums of the
community modules, this filter and this sort compute; the proof modules that need it take
it with `INSTANCE ... WITH Op <- ...`. **SwrCacheProofs** is about SwrCache,
**SignalProofs** about Signals and SignalPush, **MoneyProofs** about CircuitBreaker, SignalDesk, Holdings, Planner and
Portfolio, **StoreProofs** about KeyedCache and EdgeMap, **DeskProofs** about Journal, FitUniverse, Desk and JournalViews,
**RuleProofs** about TradePlan, BacktestFill, Finder and TradeStats, **ProcessProofs**
about DataRefresh, TickFold and Replay.

## 3. Runs

| Run (module, cfg) | Explores | Properties |
|---|---|---|
| `swr` (SwrCache) | two requests, warm thread, scheduler, one archive change, one poll, panics and failures | `SingleFlight`, `MarkEffective`, refinement `ViewSpec`, `RequestsEnd`, `GuardReleased`, `MarkEventuallyShown` |
| `keyed_safety` (MCKeyedCache, KeyedCache.cfg) | two requests, four budgets in three keys, a map of two; or one onboarding and one command-line backtest over two stocks and two generations of candles, with crashes | `NeverSwapped`, `LatestSurvives`, `WaitersServed`; `MergeIsExact`, `StartHeals` |
| `breaker` (SignalDesk) | two days, moves of 1 %, threshold 2 %, emissions and one connection | `LiftedByHandOnly`, `FreezesOnCurrentJournal`, `BreachStopsTheDesk` |
| `push` (SignalPush) | one connection, two settings | `FreezeHolds`, `FreezeReachesClients`, `SettingsReachClients` |
| `processes` (MCProcesses) | the feed with delays 3 to 10 and chunks of 2; two refresh requests, three refreshes, restarts; a tape of two symbols with a word of 8; replays of two symbols with one of three histories each | `Reconnects`, `StopEnds`; `OneOwner`, `RunningEnds`; `CountedOnce`; `SessionVolume` |
| `rules` (MCRules) | charts of up to five bars; all series of four bars over two days; histories of up to four trades; searches of up to three configurations; rankings of up to three candidates | `NoLookahead`; `OneTradeAtATime`, `FirstTouchDecides`; `FiguresMeanWhatTheySay`; `GatedEverywhere`, `PicksTheBest`; `WithinCaps`, `NeverEmptyHanded`, `PlanIsGreedy` |
| `desk` (MCDesk) | the journal over two days and three ids; three trades taken, relabelled, filled, closed, closed again, imported, deleted or cleared in any order; three overlapping scans over three dates; pages over two names, two dumps, a tier, another budget of its bucket and one that is clamped; statements of up to four lines; plans over four trading days | `NeverHalfWritten`, `NoDoubleCount`; `RunByTheClock`, `ClosedStaysClosed`; `FitOfItsDay`; `PagesAgree`, `StagedWithinRisk`; `MoneyAddsUp` |
| `breaker_today`, `journal_reupload`, `edge_map_kept`, `exit_guard_unknown`, `planner_cap` | disagreements, below | one property each, **violated** |

Deadlock is checked in `swr`, `keyed_safety`, `breaker` and `push`. In
`processes`, `rules` and `desk` the program really stops: a feed that was told to,
a series, a search or a bounded list that is at its end.

**Why the bounds are enough.** Each is the smallest at which the case the
property is about occurs, and each mutant shows that it does occur:

* `swr`: two requests and two threads already give a winner, a waiter and two
  outside claimants. One archive change gives an old and a new scan. The poll
  bound only decides *when* a waiter gives up, so 1 stands for 1800. Its safety
  properties are proved without these bounds.
* `keyed_safety`: a map of two and three keys force an eviction; the fourth
  budget shares a key with another. Two generations and two stocks suffice for
  a merge that must drop old records and keep others.
* `breaker`: two days that each lose 1 % reach the threshold of 2 % together, and
  one day's recovery leaves it again. One connection suffices, because
  connections do not meet; `push` has the settings.
* `processes`: 3, 6, 10 is a doubling that ends at the ceiling and is no multiple
  of the chunk. A word of 8 and a day's volume of 5 make the signed word wrap.
  Histories of two and five bars over different days drift apart, and one day is
  skipped, so the window of three days cuts one history in the middle.
* `rules`: indicator periods of 1 to 3 stand for 9 to 26, so that five bars warm
  up every indicator, cross it and change the day. Three candidates overfill a
  basket of two, and one setting's risk (7 %) exceeds the portfolio cap (6 %).
  The bars include one that spans stop and target. Four trades make two losing
  runs, an out-of-sample part and three folds. Samples of the search are a
  strong, a losing, a small and a thin one, with a Sharpe ratio above and one
  below what luck shows.
* `desk`: three trades are the fewest whose order by id, by entry and by exit can
  differ in a run of two. A day has one time of the clock (`LastTime`) and statement lines one
  more, so that a line ends before, with or after a close by hand, or on the next day. Two losses
  of 4 pass the cap of 7, and a loss and a gain do not. The limit of four trades a day
  only warns at three ids; its edge is proved. A leverage of 1 lets buying power
  bind for one of the two names and risk for the other. Three scans over three dates let the oldest end last.
  Four lines hold a header, two lots of one stock and another stock. Four days
  let one stock be stale, one short of the window and one eligible.

**Numbers.** Prices and money are whole, ratios percent or basis points,
R hundredths; quotients are rounded down where the code keeps a float. Where a
property needs the exact comparison the model multiplies instead of dividing.
What depends on a float's rounding is not claimed (see *Also observed*).

**Fairness** is stated next to each specification and justified by what runs the
code. Tokio polls ready futures and the OS runs threads: weak fairness of their
steps. Nothing is assumed of users, clients, the network or the archive. A
pipeline is assumed to end (`PipelineEnds`). Strong fairness is used three times:

* `Apply` in CircuitBreaker, `Trip` in SignalDesk: the process is not restarted
  inside every single evaluation.
* `Push` in SignalPush: `select!` polls its branches in random order.
* The two blocking calls of LiveFeed, the handshake and the read: a peer that
  speaks or breaks the connection again and again ends them.

Liveness properties say plainly where the code gives no guarantee.
`GuardReleased` and `MarkEventuallyShown` except a guard leaked by a panic on a
bare thread, `RunningEnds` a refresh whose log file could not be opened, and
`StopEnds` and `Reconnects` a call that hangs for ever with a silent peer: the
handshake, and for `StopEnds` also the read. `BreachStopsTheDesk` speaks of
dashboards only where freezes are not lifted and the process is not restarted for ever. `MarkEventuallyShown` also assumes that
scans do not fail for ever.

### Disagreements with the documentation

* `breaker_today`: `evaluate` sums every accepted entry whatever its date,
  while `circuit_breaker.rs:4` and `types.rs:863` speak of *today's* P&L.
  Yesterday's loss freezes a day on which nothing was lost.
* `journal_reupload`: a statement row without a date is stamped with the time of
  the upload (`journal_import.rs:455`), and the stamp's day is part of the
  dedup key. Uploading it on another day counts it twice, against
  `server.rs:2155-2156`.
* `edge_map_kept`: an onboarding that loads the map while another is writing it
  reads a truncated file, takes it for empty, and saves a map of its own symbol
  only (`strategy_engine.rs:1220`), against lines 1202-1203.
* `exit_guard_unknown`: for a name outside the tradability index the guard has
  neither verdict nor turnover, skips both checks and answers "ok" when a
  circuit band is known (`exit_guard.rs:148`), against lines 14-17.
* `planner_cap`: cash that whole shares leave over is topped up on the name
  furthest below its slice without regard to the cap (`capital_planner.rs:535`),
  against lines 485 and 637. A dear pick that cannot be bought sends its slice
  into a cheap one.

### Also observed

These were met while modelling. No run is about them, because a property would
restate one line, or because the doc is not definite.

* *Caches.* A scan that began before an onboarding and stores after it erases the
  mark (`cache.rs:109`); the TTL repairs it. The poll timeout's inline fallback
  can run a second scan (`server.rs:622`) while the doc speaks of one. An answer
  of a keyed cache is sized for whichever budget of the bucket of Rs 1,000 and one
  basis point asked first (`cache.rs:137`). So staging, "sized to the capital pool at
  the chosen risk tier" (`server.rs:1043-1044`), may show orders sized for Rs 1,000,400 and
  2.004 % that a picks or finder request left in the slot. The key is deliberate
  (`cache.rs:126-129`), and `StagedWithinRisk` bounds what it can cost. `fit_universe` is "computed once", yet requests that
  miss together all scan, an older scan may overwrite a newer one, and a symbol
  downloaded again keeps its old place all day.
* *Refresh.* After a dashboard restart a second pipeline may start beside the
  first (`data_refresh.rs:174`, against line 10). One started just before 09:00
  runs into the session (`data_refresh.rs:159`). A log file that cannot be opened
  wedges `running` until a restart (`data_refresh.rs:184`).
* *Journal.* A fill typed in after the exit leaves the P&L of the old entry
  price, and closing an imported row without a quantity replaces its P&L by zero
  (`journal_sync.rs:138`). Errors of clearing or reading the journal in an import
  are ignored (`server.rs:2165`); a failed CSV export counts as done
  (`main.rs:794`). A headerless paste of five cells whose prices do not parse
  takes the quantity for the P&L (`journal_import.rs:419`).
* *Journal views.* Deleting, clearing, replacing or relabelling a trade of the day and
  closing one again, with a smaller loss or none, reopen a desk that the governor had closed: the ruling is
  about the rows as they stand and nothing remembers that it was closed.
  `Reopens` names these cases. Accepted rows without a fill do not count toward the day's
  trades; an imported exit stamp that is a time only is not today's; the governor
  sorts rows without an exit first, the performance page last.
* *Push.* The echo of a settings message carries the packet of before
  (`server.rs:755`).
* *Edge map.* The splice's count check can let a symbol appear twice when another
  writer got in between (`strategy_engine.rs:1230`).
* *Ticks.* Replay's `days_back` counts calendar days from each symbol's own last
  day, and the "session" VWAP is not reset between replayed days.
* *Fills.* `resolve_intrabar` starts at the day's first finer bar, before the
  entry (`strategy_engine.rs:712`). No caller selects that policy.
* *Plan.* `build_plan` allows for rounding with `f64::EPSILON`, which vanishes
  beside amounts in rupees (`trade_planner.rs:101`, `105`). TradePlan has exact
  amounts, so `NeverEmptyHanded` does not speak about rounding.
* *Statistics.* Configurations that are all alike give an overfit probability of
  100 %. The finder's penalty makes an adjusted 91 to 95 end below an adjusted
  90 (`stats.rs:714`). Conviction points sum to 70 at most although shown out of
  100. The scanner scores against other trials than the deep dive.
* *Pages.* Names with an unknown turnover or series still read "ok". A staged
  sell's limit above its entry can exceed the buying power slightly, which is why
  `StagedWithinRisk` bounds it for buys. A row without its own multiples falls
  back to the default reward-to-risk as an ATR multiple.
* *Holdings.* Correlations align series by their ends, not by date; names with too
  short a history are not listed as dropped when no correlation can be computed;
  a rotation's whole shares need not add up to the cash exactly.

## 4. Proofs

All proofs hold for every value of the constants that satisfies the named
`ASSUME`s of the module: any number of requests, writers, connections, symbols,
candidates, rows or bars. TLC evaluates these assumptions on the instances.

| Module, about | Theorems | Inductive invariant |
|---|---|---|
| SwrCacheProofs | `TypeCorrect`, `SingleFlightHolds`, `MarkEffectiveHolds`, `Refinement` | types, `SingleFlight`, `ScansCurrent` (a running scan read the archive no earlier than the published one), `OverlapSeen` |
| StoreProofs, KeyedCache | `SlotsNeverSwapped`, `WaitersAreServed` | `KeyedInv`: requests hold what their place in the code says, the map is well typed, and the key of whoever holds the write lock is still missing (`LockHeld`) |
| | `LatestSlotsSurvive` | `AgeInv`: with `KeyedInv`, the populated slots stand once each in build order (`OrderOK`), the map is within its cap (`MapFits`), and the victim chosen is still the oldest unless it has been rebuilt (`VictimOK`) |
| StoreProofs, EdgeMap | `OnboardingIsExact`, `StartsHealed` | `EdgeIInv`: a calm writer holds the map of the file (`CalmOK`), an onboarding found blocks of its own symbol only (`FoundOK`), a sidecar written alone lists the map |
| MoneyProofs, CircuitBreaker and SignalDesk | `FreezesCorrectly`, `LiftedCorrectly`, `DeskImplementsBreaker`, `DeskFreezesAndLifts` | the shape of the freeze, plus `VerdictCurrent`: a verdict not yet applied is about the journal as it stands |
| MoneyProofs, Holdings | `BookIsWhole`, `RotationIsWhole` | `HoldingTypes`: the lines are lines, the archive one of those there are; the rest is about operators: `IsBook` holds along the merge, a cluster found from one name is `Closed` |
| MoneyProofs, Planner | `PlanIsWhole` | `PlanTypes`: every stock has a price, the horizon is one of the five; along the loops: `IsChoice` for the picks, `IsFilling` for the water-filling, cash that never falls below 0 for the purchases |
| MoneyProofs, Portfolio | `MoneyIsWhole` | none of its own |
| SignalProofs, Signals | `NothingFromTheFuture` | `ChartInv`: the bars of a chart are of its last day or of days before; the rest is about functions (`Agree`, `Extends`) |
| SignalProofs, SignalPush | `TypeCorrect`, `FreezeStaysShown` | types, plus `HeldInv`: a frame that shows the present freeze was copied from a packet that still shows it |
| DeskProofs, Journal | `JournalTyped`, `RowsAreWhole`, `ImportsAreDistinct` | `JournalInv`: ids are below the sequence, which columns of a row are filled is what the statements of an update can leave (`RowOK`), imported rows that were read have keys of their own (`Distinct`) |
| DeskProofs, FitUniverse | `FitAlwaysOfItsDay` | the cell holds the data of the version it is labelled with (`CellTrue`), and so does every scan under way (`ScansTrue`) |
| DeskProofs, Desk | `PagesShowTheSame`, `StagingKeepsRisk` | `DeskIInv`: the fit universe lists a name once, and the rows come from a budget of the asked bucket; the rest is about operators |
| DeskProofs, JournalViews | `RunClock`, `ClosedStays` | `ViewInv`: stamps, results and rows are typed, ids are at most the sequence, and a row has a P&L exactly when it has an exit; the rest is about lines (`Linear`, `Lined`) |
| RuleProofs, TradePlan | `TypeCorrect`, `CapsHold`, `LeftOutCorrectly`, `OneTradeAllowed` | `WalkInv`: types, `Cheap` (every row alone fits the caps), `WithinCaps`, an empty basket has spent nothing, every row passed over does not fit |
| | `WalkIsGreedy` | `GreedyInv`: the accounts are counts and sums over the basket (`Accounted`), and the rows walked precede the rows to come, each taken exactly when it fitted beside those ahead of it (`InOrder`) |
| RuleProofs, BacktestFill | `FillTypeCorrect`, `OneAtATime`, `StopsStayHonest`, `FirstTouch` | no bar since the entry of the held trade touched a level (`HeldInv`); a booked trade is `Settled`, which depends on the bars and the direction alone |
| RuleProofs, Finder | `ShownIsGenuine`, `PicksAreBest` | `FindIInv`: each pick is well formed and holds against every candidate looked at so far |
| RuleProofs, TradeStats | `FiguresHold` | a trade list is typed (`TradesTyped`); per figure an invariant of its pass: the peak is the highest equity so far and the worst the deepest fall (`Measured`), the run is the longest barren stretch that reaches the end (`Streaked`) |
| ProcessProofs, DataRefresh | `RefreshTypeCorrect`, `OneOwnerHolds` | `RefreshInv`: at most one request holds the refresh (`Alone`), none beside a reaper (`NoneBeside`), one reaper at most (`OneReaper`), whatever holds it is shown as running (`ShownRunning`), and logs are named where they are used (`Opened`, `Named`) |
| ProcessProofs, TickFold | `VolumeCountedOnce` | `FoldIInv`: the anchor of a symbol is a volume its tape has shown since the count began, and what was counted fits below it (`Tally`) |
| ProcessProofs, Replay | `ReplayCarriesSession` | `ReplayIInv`: a symbol's counter is the volume of the last sent bar's own day up to that bar (`Carries`) |

Why a strengthening is needed, in the deepest cases:

* `ViewSpec` is not inductive: a store could publish an older scan unless every
  running scan is known to be at least as new as the entry. That holds because
  the single-flight guard lets no store happen during a scan. So `SingleFlight`
  and `ScansCurrent` carry each other.
* `NeverSwapped` speaks of one step, but whether that step may put a slot into
  the map depends on the recheck made when the lock was taken. `LockHeld` carries
  the recheck's result to the insertion, over an eviction between them.
* `LatestSurvives` speaks of the step that drops a slot, long after the slot was
  chosen. Scans store meanwhile, and each store takes its slot out of the order
  and puts it back at the end. `TakenOut` and `PutBack` show that this keeps all
  other slots in their order, so the oldest stays the oldest.
* `MergeIsExact` is about what an onboarding saves, which it computed from a map
  it loaded three steps before. The proof follows a *calm* writer, one beside
  whom nobody has written since. `StartHeals` rests on a start that reads the
  file itself: a map it cannot parse it rebuilds before it listens.
* `NoDoubleCount` is inductive only with the keys the ingest loop has seen. A row
  that a failed read hid from the loop is `excused`, as in the property.
* `NeverHalfWritten` becomes inductive as a statement about columns: after one,
  two or three statements of an update, `exit_ist` and `pnl` are still set
  together, and `fill`, `slippage` and `entry_ist` are.
* `OneOwner` counts. Its proof splits the count into which requests and which
  reapers there are, and adds the cardinalities up once at the end (`AloneCounts`).
* `DeskImplementsBreaker` needs no invariant: every step of the desk is a step of
  the breaker or leaves its variables alone. It carries the two theorems over.
* `LeftOutDoesNotFit` speaks of the finished basket, but rows are refused by
  the basket of that moment. The invariant says that refused rows stay misfits,
  and the proof is that the accumulators only grow. `PlanIsGreedy` is the other
  half: it defines the basket by sums over sets, and `SumAdd` equates each
  running total with its sum.
* `PicksTheBest` speaks of the end of a pass whose rule ("better than the best so
  far") need not look transitive. `KeptHolds` shows that a pick gives up
  nothing that it already held against.
* `CountedOnce` bounds a sum of differences of wrapped words. `SignedApart` shows
  that two readings differ as words by no more than they differ in truth, so a
  volume told late, a new day and an overflow all count too little, never twice.
* `SessionVolume` has symbols on different days in one slot. The counter is tied
  to its own symbol's last bar and nothing else.
* `FiguresMeanWhatTheySay` compares one pass with a definition over all pairs of
  points of the curve. `SeqInduct` (induction over sequences) and `FoldAppend` turn
  each fold into steps, and the proof is that one trade more keeps what the pass
  holds. Rounded averages lose less than one unit a trade (`MeanShort`).
* `PagesAgree` compares four computations over one ranking: two filters by side,
  a cut at `PerSide`, and sizes looked up by name. It needs that a name occurs
  once, which is the invariant.
* `RunByTheClock` counts closes after a row and sums closes up to it, over sets;
  the code sorts, filters and walks. `SortedIs` shows that the sort puts the rows in
  a line, `LinedBehind` and `LinedSums` count and sum along one, and `FallIs` that
  one pass along a curve ends with its deepest fall.
* `ClosedStaysClosed` is about one step, but a run is read off a list that the step
  may insert into anywhere. Every step but clearing touches one row (`OneRowAtATime`), and unless it
  `Reopens` the desk, the day keeps its trades and their closes (`KeptDay`). `RunIs` restates the run as a set of last closes. A loss
  more leaves in that set only closes that were in it, or itself (`RunStays`).
* `MoneyAddsUp` is about states, yet each state's page is the outcome of loops. That
  the book has all lots is an invariant of the merge (`MergeStep`). Exposures add up because
  each position has one sector and one broker label (`GroupsAddUp`), sales because a
  share rounded to tenths misses at most half of one (`PartsAddUp`). What is reached
  from a name is the least closed set that holds it, so clusters that meet are one
  (`ReachedApart`). The water-filling ends: a round freezes one name more or is the
  last (`RoundIs`), and as many rounds as names suffice. Weights
  rounded down lose less than one unit a name, twice (`FillingAddsUp`). The top-up ends:
  each turn spends the least price or nothing can be bought (`BuyIs`).
* `NoLookahead` compares all entries of two charts. The proof goes indicator by
  indicator: on the bars of the shorter chart the longer one's values are the same
  (`Agree`). A window sum reads only bars behind it. The recursive ones (both means, the
  trend) agree from value to value (`RecursionSame`), once it is known that the
  recursion has a solution at all (`SmoothedExists`, `TurningExists`), since TLA+ only
  chooses one. The levels of the day before are computed over the whole series, and
  agree because no bar appended is of an earlier day (`PriorDaySame`, `ChartInv`). No value of
  a bar but its day need be a number for this.
* `StagedWithinRisk` needs that dividing by a stop, rounding down to whole shares
  and multiplying back never gives more than one started with, through three caps, and
  that a budget that shares a tier's key is less than half a bucket above it
  (`Rounding`), since a tier sits in the middle of its bucket (`DeskAssumption`).

`BacktestFill!FirstTouchDecides` compares the walk with a definition over the
whole day (`ExitBar`, `ExitPrice`: minimum of the touched bars, else the last
bar). The proof shows that the walk's position *is* that minimum.

**Induction over data.** The induction theorems of the library take the
statement as a parameter, which the installed provers cannot instantiate.
FoldFacts gets round that with sets: the statement becomes membership of *n* in
`{n \in Nat : ...}`, and `NatInduct` of that module is the induction principle over
such sets. On it rest `FoldRuns` (a left fold passes through its sequence once,
from left to right) and the facts about filters and sums. A loop of the code is
then proved by an invariant of the run, like a state machine.

**Assumptions on the constants** and what in the code justifies them:

* naturals where the code has counts, prices, volumes and days; finite sets of
  slots, stocks and symbols, of which there are finitely many in memory.
* `InputAssumption` (Journal): a direction is BUY or SELL, which both parsers
  enforce; a statement is a sequence of rows with a date or none.
* `WriterAssumption` (EdgeMap): a writer is one of the three kinds. `Main`,
  onboarding requests and command-line processes are different tasks.
* `NoScoreAssumption` (Confidence): "no score yet" is no score; the code keeps an
  `Option`.
* `ConfigAssumption` (Finder): a block's statistics have the fields the gates read.
* `FoldAssumption` (TickFold): a word has an even number of values; a subscribed
  symbol is a tracked one; a frame carries prices as integers.
* `ReplayAssumption` (Replay): the bars of an archive are in order of days. The
  readers of `storage_kernel.rs` say `ORDER BY date` (lines 230-298).
* `DeskAssumption` (Desk): the stop's multiple of the ATR is at least 0.02 and the
  reward-to-risk at least 1; the smallest in the table `RR_CONFIGS`
  (`suggestion_engine.rs:46-52`) are 0.75 and 1.5. A tier's capital is in whole thousands and its
  risk in whole basis points: `CAPITAL_POOL` and `RiskTier::pct` (`config.rs`).
* `ViewAssumption` (JournalViews): the limits are counts, results and the cap whole
  numbers (the code's are floats; see section 3), a statement's line has an entry, an
  exit and a P&L, as every row that `to_journal_entry` accepts.
* `HoldingAssumption` (Holdings): a statement's cells are whole numbers where they
  are read as numbers; archives are closes by day for every name that may be asked for; no
  two stocks come out of the edge map at once.
* `PlannerAssumption` (Planner): closes are positive, which `load_universe` asks of the
  archive (`WHERE "adj close" > 0`, line 248) and `Moved` keeps; no two stocks come out
  of the map at once.
* `PeriodsAssumption`, `BoundAssumption` (Signals): periods are at least 1, as the constants
  in `compute_indicators` are (`strategy_engine.rs:257-294`), and the length of a chart
  has a bound.
* `SeriesAssumption` (BacktestFill): bars sorted by day, low ≤ close ≤ high.

`TypeOK` of SwrCache, SignalPush, TradePlan and Journal, `FillTypeOK`,
`RefreshTypeOK`, `LeftOutDoesNotFit` and `StopsAreHonest` are proved and are not
part of a run as well.

Only model-checked is all liveness (`RequestsEnd`, `BreachStopsTheDesk`, `Reconnects`,
...): fairness and `ENABLED` are out of the prover's reach. Every safety invariant and
every action property of the passing runs is stated by a theorem.

## 5. Hazards no property covers

Every other hazard of `PROJECT.json` names a property that fails when it strikes.

* Open trades have no part in the breaker's figure (`main.rs:693`); a property
  would only restate that the marks map is empty.
* A fill reported after the exit (`journal_sync.rs:138`); the model makes both
  updates, and the code's comment does not say which figure should win.

## 6. Plan and what is not modelled

Next, most important first:

1. Journal refining the profits per day that CircuitBreaker works on, so that
   SignalDesk reaches from a journal row to a dashboard without signals.
2. The exposure gauge and the basket Monte-Carlo beside the plan; the horizon
   page and the Kelly bands of the portfolio.
3. The Kite token file and the upload of holdings, together with their readers.

Not modelled, and why:

* `storage_kernel.rs`, the market context panels and the quote handlers only
  read files or HTTP and keep nothing.
* The calibration scorecard (`calibration.rs`) sets predicted beside realised win
  rates for display. It keeps nothing and nothing reads it.
* The news engine's fetch budget has no caller; the rest is HTTP and display.
* Normal quantiles, Student's *t* and the Deflated-Sharpe probability enter as
  "passes or not": their values mean nothing at sizes TLC can enumerate.
* Text formats of numbers, dates and column names, and fuzzy matching of company
  names, are represented by their outcome.
* Wording, labels and layout of cards, pages and exports.
* Browser pages and Python scripts, which appear as environment actions.
