------------------------------ MODULE EdgeMap ------------------------------
(***************************************************************************)
(* The edge map on disk, cache/edge_map_<tf>.json with its freshness       *)
(* sidecar, and everybody who writes it: `ram_istp backtest`, `serve` at   *)
(* startup when it cannot load the map, and the onboarding requests of a   *)
(* running server, which load, merge one symbol and save                   *)
(* (src/strategy_engine.rs, src/main.rs, src/server.rs).                   *)
(*                                                                         *)
(* There is no lock and no temporary file: `std::fs::write` truncates the  *)
(* file and then fills it, and a map that cannot be parsed is taken for an *)
(* empty one by an onboarding and rebuilt by a start.                      *)
(***************************************************************************)
EXTENDS SeqFilter, SequencesExt, FiniteSets

CONSTANTS
    Stocks,  \* symbols of the archive
    Tasks,   \* onboarding requests on the blocking pool
    Clis,    \* `ram_istp backtest` processes
    MaxGen,  \* bound: downloads per stock
    Signals  \* the <<stock, generation>> a backtest finds records for

ASSUME GenAssumption ==
    /\ MaxGen \in Nat /\ Signals \subseteq Stocks \X (1..MaxGen)
    /\ IsFiniteSet(Stocks)

Main == "main"  \* serve before it listens
ASSUME WriterAssumption == Main \notin Tasks \cup Clis /\ Tasks \cap Clis = {}

Writers == Tasks \cup Clis \cup {Main}

VARIABLES
    candles,  \* per stock: generation of its minute file, 0 when there is none
    file,     \* the map: is there one, can it be parsed, its records
    meta,     \* the symbols the sidecar lists, none when it cannot be read
    server,   \* is serve running, and the symbols of its EdgeIndex (those of the
              \* eligible records in the code, of all records here)
    work,     \* per writer: how far it is and what it works on
    synced,   \* auxiliary: the last write of map and sidecar was one writer's, alone
    kept      \* auxiliary: the symbols of the map as it was last whole

edgeVars == <<candles, file, meta, server, work, synced, kept>>

\* All records of one symbol, made from one generation of its candles. The model
\* counts records in such blocks.
Block == [sym : Stocks, gen : 1..MaxGen]
Symbols(map) == {map[i].sym : i \in DOMAIN map}
RestOf(map, s) == Filter(map, {b \in Block : b.sym # s})
OwnOf(map, s) == Filter(map, {b \in Block : b.sym = s})

\* `absent`, or `empty` (truncated, not yet filled), `whole`, `garbled`.
FileState == {"absent", "empty", "whole", "garbled"}
Absent == [state |-> "absent", map |-> <<>>]
Empty == [state |-> "empty", map |-> <<>>]
Garbled == [state |-> "garbled", map |-> <<>>]
Down == [pc |-> "down", index |-> {}]

\* load_edge_map(..).unwrap_or_default()
Loaded == IF file.state = "whole" THEN file.map ELSE <<>>

\* Mutant: the symbol's old records stay.
MergeIntoAppend(existing, s, new) == existing \o new

\* merge_into: drop the symbol's records, append the new ones.
MergeInto(existing, s, new) == RestOf(existing, s) \o new

Pc == {"idle", "tested", "splice", "save", "opened", "saved"}
NoWork == [pc |-> "idle", sym |-> "", new |-> <<>>, old |-> <<>>, out |-> <<>>, calm |-> FALSE]

\* Longer than Stocks: a splice into a map of the expected length that another
\* writer has put there may repeat a symbol.
Maps == UNION {[1..n -> Block] : n \in 0..3}

EdgeTypeOK ==
    /\ candles \in [Stocks -> 0..MaxGen]
    /\ file.state \in FileState /\ file.map \in Maps
    /\ file.state # "whole" => file.map = <<>>
    /\ meta \subseteq Stocks
    /\ server.pc \in {"down", "starting", "up"} /\ server.index \subseteq Stocks
    /\ \A t \in Writers :
          /\ work[t].pc \in Pc /\ work[t].calm \in BOOLEAN
          /\ work[t].old \in Maps /\ work[t].out \in Maps
          /\ work[t].pc = "idle" => work[t] = NoWork
    /\ \A t \in Tasks : server.pc # "up" => work[t] = NoWork
    /\ server.pc # "starting" => work[Main] = NoWork

EdgeInit ==
    /\ candles = [s \in Stocks |-> 0]
    /\ file = Absent /\ meta = {}
    /\ server = Down
    /\ work = [t \in Writers |-> NoWork]
    /\ synced = FALSE /\ kept = {}

\* Auxiliary: writer t touches the files; whoever else is under way is no longer
\* alone with them.
Step(t, w) ==
    work' = [u \in Writers |-> IF u = t THEN w ELSE [work[u] EXCEPT !.calm = FALSE]]
Move(t, w) == work' = [work EXCEPT ![t] = w]

-----------------------------------------------------------------------------
\* The archive: a download (add_stock, data refresh) renews a stock's candles.
Download(s) ==
    /\ candles[s] < MaxGen
    /\ candles' = [candles EXCEPT ![s] = @ + 1]
    /\ UNCHANGED <<file, meta, server, work, synced, kept>>

\* backtest_symbol is a pure function of the candles: the records of a stock, if
\* it has enough bars and signals.
Backtest(s) == IF <<s, candles[s]>> \in Signals THEN <<[sym |-> s, gen |-> candles[s]]>> ELSE <<>>

\* backtest_universe over the stocks S; one that is not on disk fails.
BacktestOf(S) ==
    SetToSeq({[sym |-> s, gen |-> candles[s]] : s \in {s \in S : Backtest(s) # <<>>}})

-----------------------------------------------------------------------------
\* Saving the map: three steps of any writer.

\* fs::write opens the file, which truncates it.
Open(t) ==
    /\ work[t].pc = "save"
    /\ file' = Empty
    /\ Step(t, [work[t] EXCEPT !.pc = "opened", !.new = <<>>, !.old = <<>>])
    /\ synced' = FALSE
    /\ UNCHANGED <<candles, meta, server, kept>>

\* It fills the file from the start. What another writer has put there meanwhile
\* is overwritten, and its tail sticks out when it was longer.
Fill(t) ==
    /\ work[t].pc = "opened"
    /\ \/ file' = [state |-> "whole", map |-> work[t].out] /\ kept' = Symbols(work[t].out)
       \/ file.state # "empty" /\ file' = Garbled /\ UNCHANGED kept
    /\ Step(t, [work[t] EXCEPT !.pc = "saved"])
    /\ synced' = FALSE
    /\ UNCHANGED <<candles, meta, server>>

\* The disk is full or a file cannot be opened: the write under way is cut off, the
\* caller gets the error, and serve does not come up.
SaveFails(t) ==
    /\ work[t].pc \in {"save", "opened", "saved"}
    /\ file' = IF work[t].pc = "opened" THEN Garbled ELSE file
    /\ meta' = IF work[t].pc = "saved" THEN {} ELSE meta
    /\ Step(t, NoWork)
    /\ server' = IF t = Main THEN Down ELSE server
    /\ synced' = FALSE
    /\ UNCHANGED <<candles, kept>>

\* save_edge_map_meta, and the writer is done; serve goes on with the records it
\* has built.
SaveMeta(t) ==
    /\ work[t].pc = "saved"
    /\ meta' = Symbols(work[t].out)
    /\ Step(t, NoWork)
    /\ synced' = work[t].calm
    /\ server' = IF t = Main THEN [pc |-> "up", index |-> Symbols(work[t].out)] ELSE server
    /\ UNCHANGED <<candles, file, kept>>

Save(t) == Open(t) \/ Fill(t) \/ SaveMeta(t) \/ SaveFails(t)

-----------------------------------------------------------------------------
\* `ram_istp backtest [symbols]`: test the stocks named, all on disk when none is,
\* and save their records alone.
CliBacktest(c) ==
    /\ work[c].pc = "idle"
    /\ \E S \in (SUBSET Stocks) \ {{}} :
          Move(c, [NoWork EXCEPT !.pc = "save", !.out = BacktestOf(S), !.calm = TRUE])
    /\ UNCHANGED <<candles, file, meta, server, synced, kept>>

\* Mutant: a map that does not load is taken for an empty one.
StartTrusting ==
    /\ server.pc = "down"
    /\ server' = [pc |-> "up", index |-> Symbols(Loaded)]
    /\ UNCHANGED <<candles, file, meta, work, synced, kept>>

\* serve starts: it loads the map, or else builds and saves one.
Start ==
    /\ server.pc = "down"
    /\ IF file.state = "whole"
       THEN server' = [pc |-> "up", index |-> Symbols(file.map)] /\ UNCHANGED work
       ELSE /\ server' = [server EXCEPT !.pc = "starting"]
            /\ Move(Main, [NoWork EXCEPT !.pc = "save", !.out = BacktestOf(Stocks), !.calm = TRUE])
    /\ UNCHANGED <<candles, file, meta, synced, kept>>

\* serve dies or is stopped, with whatever it was writing.
Crash ==
    /\ server.pc # "down"
    /\ server' = Down
    /\ work' = [t \in Writers |-> IF t \in Clis THEN work[t] ELSE NoWork]
    /\ UNCHANGED <<candles, file, meta, synced, kept>>

-----------------------------------------------------------------------------
\* onboard_symbol_handler and merge_edge_records.

\* backtest_symbol, an error without candles.
Onboard(t, s) ==
    /\ server.pc = "up" /\ work[t].pc = "idle" /\ candles[s] > 0
    /\ Move(t, [NoWork EXCEPT !.pc = "tested", !.sym = s, !.new = Backtest(s)])
    /\ UNCHANGED <<candles, file, meta, server, synced, kept>>

\* Load the map; a new symbol is to be spliced into the file's text, else merge.
Load(t) ==
    /\ work[t].pc = "tested"
    /\ LET s == work[t].sym
           brandNew == Loaded # <<>> /\ s \notin Symbols(Loaded)
       IN Move(t, [work[t] EXCEPT
              !.pc = IF brandNew THEN "splice" ELSE "save",
              !.old = Loaded,
              !.out = IF brandNew THEN <<>> ELSE MergeInto(Loaded, s, work[t].new),
              !.calm = file.state \in {"absent", "whole"}])
    /\ UNCHANGED <<candles, file, meta, server, synced, kept>>

\* Read the file again as text and append to it, if the result parses and has as
\* many records as expected; otherwise merge into what was loaded.
Splice(t) ==
    /\ work[t].pc = "splice"
    /\ LET fits == file.state = "whole" /\ Len(file.map) = Len(work[t].old)
       IN Move(t, [work[t] EXCEPT
              !.pc = "save",
              !.out = IF fits THEN file.map \o work[t].new
                      ELSE MergeInto(work[t].old, work[t].sym, work[t].new)])
    /\ UNCHANGED <<candles, file, meta, server, synced, kept>>

-----------------------------------------------------------------------------
EdgeNext ==
    \/ \E s \in Stocks : Download(s)
    \/ \E t \in Writers : Save(t)
    \/ \E c \in Clis : CliBacktest(c)
    \/ Start \/ Crash
    \/ \E t \in Tasks : Load(t) \/ Splice(t) \/ \E s \in Stocks : Onboard(t, s)

EdgeSpec == EdgeInit /\ [][EdgeNext]_edgeVars

-----------------------------------------------------------------------------
\* An onboarding that was alone with a readable map since it loaded it goes on to
\* save that map with its own symbol's records replaced and no others, whether it
\* spliced or merged; and the sidecar of a writer that was alone with the files lists
\* the symbols of the map beside it, so the freshness panel tells the truth then.
MergeIsExact ==
    /\ \A t \in Tasks :
          work[t].pc = "save" /\ work[t].calm =>
              /\ RestOf(work[t].out, work[t].sym) = RestOf(file.map, work[t].sym)
              /\ OwnOf(work[t].out, work[t].sym) = work[t].new
    /\ synced => file.state = "whole" /\ meta = Symbols(file.map)

\* serve never comes up on half a map: when it starts to listen with no backtest
\* running beside it, the file is whole and its index is that of the file,
\* whatever crash or full disk the last run ended in.
StartHeals ==
    [][server.pc # "up" /\ server'.pc = "up" /\ (\A c \in Clis : work[c].pc = "idle")
          /\ (work[Main].pc = "idle" \/ work[Main].calm)
          => file'.state = "whole" /\ server'.index = Symbols(file'.map)]_edgeVars

\* "replacing only that symbol's rows and leaving every other symbol's records
\* byte-identical" (strategy_engine.rs): no onboarding removes another symbol.
OtherSymbolsKept ==
    [][\A t \in Tasks :
          work[t].pc = "opened" /\ work'[t].pc = "saved" /\ file'.state = "whole"
              => kept \ {work[t].sym} \subseteq Symbols(file'.map)]_edgeVars
=============================================================================
