------------------------------ MODULE Journal ------------------------------
(***************************************************************************)
(* The manual validation journal: the DuckDB table of src/journal_sync.rs, *)
(* the handlers of src/server.rs that write it under one Mutex, and the    *)
(* broker-statement import of src/journal_import.rs.                       *)
(*                                                                         *)
(* The table survives a crash. Each SQL statement commits by itself, so a  *)
(* failing statement or a dying process leaves the ones before it done; no *)
(* handler sees another half way, because all of them hold the Mutex.      *)
(* An optional column is <<>> or <<value>>.                                *)
(***************************************************************************)
EXTENDS Integers, Sequences, SequencesExt, FiniteSets

CONSTANTS
    MaxDay,      \* bound: days explored
    MaxRows,     \* bound: ids handed out
    Prices,      \* prices typed by the user
    Decisions,   \* lifecycle states the user picks
    Staged,      \* signals the desk may log: [sym, dir, intended, qty]
    Statements   \* broker statements: sequences of TradeRow

VARIABLES
    today,   \* date part of now_ist_string()
    rows,    \* the table: id -> JournalEntry
    nextId,  \* journal_seq
    excused  \* auxiliary, named by properties only: ids the user has edited, or
             \* that an import failed to see or to clear

vars == <<today, rows, nextId, excused>>

ASSUME JournalAssumption ==
    /\ MaxDay \in Nat \ {0} /\ MaxRows \in Nat
    /\ Prices \subseteq Nat

Days == 1..MaxDay
None == <<>>
Some(x) == <<x>>
Option(S) == {None} \cup {Some(x) : x \in S}
OrElse(a, b) == IF a # None THEN a ELSE b
Coalesce(a, b) == IF a # None THEN a[1] ELSE b

States == {"Generated", "Manually_Accepted", "Manually_Rejected", "Skipped"}
ASSUME DecisionAssumption == Decisions \subseteq States

ASSUME InputAssumption ==
    /\ \A s \in Staged : s.dir \in {"BUY", "SELL"}
    /\ \A b \in Statements :
          /\ b \in Seq(Range(b))
          /\ \A k \in DOMAIN b : b[k].direction \in {"BUY", "SELL"} /\ b[k].date \in Option(Days)

Dir(r) == IF r.direction = "SELL" THEN -1 ELSE 1

TypeOK ==
    /\ today \in Days
    /\ nextId \in 1..MaxRows + 1
    /\ DOMAIN rows \subseteq 1..nextId - 1
    /\ excused \subseteq 1..nextId - 1
    /\ \A i \in DOMAIN rows :
          /\ rows[i].state \in States
          /\ rows[i].direction \in {"BUY", "SELL"}
          /\ rows[i].entry_ist \in Option(Days)
          /\ rows[i].exit_ist \in Option(Days)

Init ==
    /\ today = 1
    /\ rows = <<>>
    /\ nextId = 1
    /\ excused = {}

-----------------------------------------------------------------------------
\* journal_sync::insert_entry on a table, with the sequence's next value n.
InsertRow(tbl, n, e) == [i \in DOMAIN tbl \cup {n} |-> IF i = n THEN e ELSE tbl[i]]

\* The row journal_log_handler builds.
LogEntry(s, st, fill) ==
    [symbol |-> s.sym, direction |-> s.dir, strategy |-> "Intraday Staging",
     intended |-> s.intended, fill |-> fill, exit |-> None, qty |-> s.qty,
     state |-> st, pnl |-> None,
     slippage |-> IF fill = None THEN None
                  ELSE Some((fill[1] - s.intended) * (IF s.dir = "BUY" THEN 1 ELSE -1)),
     entry_ist |-> IF fill = None THEN None ELSE Some(today), exit_ist |-> None]

\* POST /api/journal/log. A failed INSERT has used up its id.
Log(s, st, fill) ==
    /\ nextId <= MaxRows
    /\ nextId' = nextId + 1
    /\ rows' \in {InsertRow(rows, nextId, LogEntry(s, st, fill)), rows}
    /\ UNCHANGED <<today, excused>>

-----------------------------------------------------------------------------
\* update_state: three UPDATE statements in order, each conditional.
SetState(r, st) == [r EXCEPT !.state = st]

SetFill(r, fill) ==
    IF fill = None THEN r
    ELSE [r EXCEPT !.fill = fill, !.entry_ist = Some(today),
                   !.slippage = Some(IF Dir(r) < 0 THEN r.intended - fill[1]
                                     ELSE fill[1] - r.intended)]

\* Mutant: pnl is left to a later statement.
SetExitOnly(r, fill, exit) ==
    IF exit = None THEN r
    ELSE [r EXCEPT !.exit = exit, !.exit_ist = Some(today)]

\* pnl is computed from the row as read before the first UPDATE.
SetExit(r, fill, exit) ==
    IF exit = None THEN r
    ELSE [r EXCEPT !.exit = exit, !.exit_ist = Some(today),
                   !.pnl = Some(r.qty * Dir(r)
                       * (exit[1] - Coalesce(OrElse(fill, r.fill), r.intended)))]

\* POST /api/journal/update; `done` of the statements took effect.
Update(i, st, fill, exit, done) ==
    LET one == SetState(rows[i], st)
        two == SetFill(one, fill)
        three == SetExit(two, fill, exit)
    IN  /\ rows' = [rows EXCEPT ![i] = <<one, two, three>>[done]]
        /\ excused' = excused \cup {i}
        /\ UNCHANGED <<today, nextId>>

-----------------------------------------------------------------------------
\* to_journal_entry (strategy is only the tag of an imported row here): the date
\* falls back to now, and a statement without prices
\* or quantity leaves them 0. An unusable line has neither a P&L nor both legs.
Usable(t) == t.pnl # None \/ (t.entry # None /\ t.exit # None /\ t.qty > 0)

ToEntry(t) ==
    LET dir == IF t.direction = "SELL" THEN -1 ELSE 1
        day == Coalesce(t.date, today)
    IN  [symbol |-> t.symbol, direction |-> t.direction, strategy |-> "Imported",
         intended |-> Coalesce(OrElse(t.order, OrElse(t.entry, t.exit)), 0),
         fill |-> t.entry, exit |-> t.exit, qty |-> t.qty,
         state |-> "Manually_Accepted",
         pnl |-> IF t.pnl # None THEN t.pnl
                 ELSE Some(t.qty * (t.exit[1] - t.entry[1]) * dir),
         slippage |-> IF t.order # None /\ t.entry # None
                      THEN Some((t.entry[1] - t.order[1]) * dir) ELSE None,
         entry_ist |-> Some(day), exit_ist |-> Some(day)]

\* dedup_key: symbol, side, quantity, P&L and exit date.
DedupKey(e) ==
    <<e.symbol, e.direction, e.qty, Coalesce(e.pnl, 0), Coalesce(e.exit_ist, 0)>>

\* Mutant: the keys of the batch itself are not remembered.
IngestForgetful(acc, t) ==
    IF ~Usable(t) \/ DedupKey(ToEntry(t)) \in acc.seen THEN acc
    ELSE [acc EXCEPT !.tbl = IF acc.next = acc.bad THEN @
                             ELSE InsertRow(acc.tbl, acc.next, ToEntry(t)),
                     !.next = @ + 1]

\* One line of the ingest loop: unusable and seen lines are skipped. A line
\* whose INSERT fails keeps its key in `seen` and uses up its id.
IngestLine(acc, t) ==
    IF ~Usable(t) THEN acc
    ELSE LET e == ToEntry(t)
             key == DedupKey(e)
         IN  IF key \in acc.seen THEN acc
             ELSE [acc EXCEPT !.seen = @ \cup {key},
                              !.tbl = IF acc.next = acc.bad THEN @ ELSE InsertRow(@, acc.next, e),
                              !.next = @ + 1]

\* ingest_trades: replace clears the table, otherwise the existing keys are read;
\* `worked` tells whether that succeeded, and nothing is done when it did not.
\* `bad` is the id whose INSERT fails (0: none).
IngestTrades(trades, replace, worked, bad) ==
    FoldLeft(IngestLine,
             [tbl |-> IF replace /\ worked THEN <<>> ELSE rows, next |-> nextId, bad |-> bad,
              seen |-> IF ~replace /\ worked THEN {DedupKey(rows[i]) : i \in DOMAIN rows}
                       ELSE {}],
             trades)

\* POST /api/journal/import and import_text of the first `upto` lines of a
\* statement: fewer than all of them when the process dies on the way.
Import(b, upto, replace) ==
    \E worked \in BOOLEAN, bad \in {0} \cup nextId..Min({MaxRows, nextId + upto - 1}) :
        LET acc == IngestTrades(SubSeq(b, 1, upto), replace, worked, bad)
        IN  /\ acc.next <= MaxRows + 1
            /\ rows' = acc.tbl
            /\ nextId' = acc.next
            /\ excused' = (IF worked THEN excused ELSE DOMAIN rows) \cap DOMAIN acc.tbl
            /\ UNCHANGED today

\* POST /api/journal/delete
Delete(i) ==
    /\ rows' = [j \in DOMAIN rows \ {i} |-> rows[j]]
    /\ excused' = excused \ {i}
    /\ UNCHANGED <<today, nextId>>

\* POST /api/journal/clear
ClearAll ==
    /\ rows' = <<>>
    /\ excused' = {}
    /\ UNCHANGED <<today, nextId>>

NextDay ==
    /\ today < MaxDay
    /\ today' = today + 1
    /\ UNCHANGED <<rows, nextId, excused>>

-----------------------------------------------------------------------------
Typed == Option(Prices)

Next ==
    \/ \E s \in Staged, st \in Decisions, fill \in Typed : Log(s, st, fill)
    \/ \E i \in DOMAIN rows, st \in Decisions, fill, exit \in Typed, done \in 1..3 :
          Update(i, st, fill, exit, done)
    \/ \E b \in Statements, replace \in BOOLEAN :
          \E upto \in 0..Len(b) : Import(b, upto, replace)
    \/ \E i \in DOMAIN rows : Delete(i)
    \/ ClearAll \/ NextDay

Spec == Init /\ [][Next]_vars

-----------------------------------------------------------------------------
Imported(r) == r.strategy = "Imported"

\* No row is half closed or half filled, wherever an update stopped: exit stamp
\* and P&L come together, and so do fill, entry stamp and slippage.
NeverHalfWritten ==
    \A i \in DOMAIN rows :
        /\ rows[i].exit_ist = None <=> rows[i].pnl = None
        /\ ~Imported(rows[i]) =>
              /\ rows[i].fill = None <=> rows[i].slippage = None
              /\ rows[i].fill = None <=> rows[i].entry_ist = None

\* However often statements are uploaded, whole or cut off, no two imported rows
\* stand for the same trade.
NoDoubleCount ==
    \A i, j \in DOMAIN rows \ excused :
        Imported(rows[i]) /\ Imported(rows[j])
            /\ DedupKey(rows[i]) = DedupKey(rows[j]) => i = j

\* server.rs:2155-2156, "deduping against existing rows so a re-uploaded report
\* doesn't double-count": one statement line yields one row.
ReuploadIsIdempotent ==
    \A i, j \in DOMAIN rows \ excused :
        Imported(rows[i]) /\ Imported(rows[j])
            /\ rows[i].symbol = rows[j].symbol => i = j
=============================================================================
