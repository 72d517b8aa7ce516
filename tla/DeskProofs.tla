----------------------------- MODULE DeskProofs -----------------------------
(***************************************************************************)
(* The record of the trades, the universe and the pages, for every         *)
(* instance.                                                               *)
(*                                                                         *)
(* Journal, for any rows, sheets and updates: which columns of a row are   *)
(* filled depends on how far the update got that wrote it, and an import   *)
(* books what its seen keys and ids say is not booked yet.                 *)
(*                                                                         *)
(* FitUniverse, for every number of requests, dates and symbols: what a    *)
(* request is answered with belongs to the version it asked for.           *)
(*                                                                         *)
(* Desk, for any fits and settings: the pages and the console read one     *)
(* ranking, and cut it differently; a plan keeps to the risk it was made   *)
(* for, whole lots and leverage included.                                  *)
(*                                                                         *)
(* JournalViews, for every book: the governor and the performance page put *)
(* closes in a line by the clock, so what they read off it does not depend *)
(* on the order of booking, and a loss more never reopens the desk.        *)
(***************************************************************************)
EXTENDS Journal, FitUniverse, Desk, JournalViews, SequenceTheorems, FiniteSetTheorems, TLAPS

Lines == INSTANCE FoldFacts WITH Op <- IngestLine

-----------------------------------------------------------------------------
\* The columns of a row, and what holds of every row wherever an update stopped.
Columns == {"symbol", "direction", "strategy", "intended", "fill", "exit", "qty", "state",
            "pnl", "slippage", "entry_ist", "exit_ist"}

RowOK(r) ==
    /\ DOMAIN r = Columns /\ r = [c \in Columns |-> r[c]]
    /\ r.state \in States /\ r.direction \in {"BUY", "SELL"}
    /\ r.entry_ist \in Option(Days) /\ r.exit_ist \in Option(Days)
    /\ r.exit_ist = None <=> r.pnl = None
    /\ ~Imported(r) => /\ r.fill = None <=> r.slippage = None
                       /\ r.fill = None <=> r.entry_ist = None

\* Ids below the sequence's next value, and rows as they should be.
TableOK(tbl, n) == \A i \in DOMAIN tbl : i \in 1..n - 1 /\ RowOK(tbl[i])

\* A row the desk logs.
LEMMA LogRow ==
    ASSUME NEW s \in Staged, NEW st \in States, NEW fill, today \in Days
    PROVE  RowOK(LogEntry(s, st, fill)) /\ ~Imported(LogEntry(s, st, fill))
  BY InputAssumption DEF RowOK, LogEntry, Imported, Columns, None, Some, Option

\* The three statements of an update.
LEMMA UpdateRow ==
    ASSUME NEW r, RowOK(r), NEW st \in States, NEW fill, NEW exit, NEW done \in 1..3,
           today \in Days
    PROVE  LET one == SetState(r, st)
               two == SetFill(one, fill)
               three == SetExit(two, fill, exit)
           IN  RowOK(<<one, two, three>>[done])
  <1>. DEFINE one == SetState(r, st)
              two == SetFill(one, fill)
              three == SetExit(two, fill, exit)
  <1>1. RowOK(one)
    BY DEF RowOK, SetState, Imported, Columns
  <1>. HIDE DEF one
  <1>2. RowOK(two)
    BY <1>1 DEF RowOK, SetFill, Imported, Columns, None, Some, Option
  <1>. HIDE DEF two
  <1>3. RowOK(three)
    BY <1>2 DEF RowOK, SetExit, Imported, Columns, None, Some, Option
  <1>. HIDE DEF three
  <1>4. RowOK(<<one, two, three>>[done])
    BY <1>1, <1>2, <1>3
  <1>. QED BY <1>4 DEF one, two, three

\* A usable line of a statement.
LEMMA ImportedRow ==
    ASSUME NEW t, t.direction \in {"BUY", "SELL"}, t.date \in Option(Days), Usable(t),
           today \in Days
    PROVE  RowOK(ToEntry(t)) /\ Imported(ToEntry(t))
  <1>1. Coalesce(t.date, today) \in Days
    BY DEF Option, Some, None, Coalesce
  <1>. QED BY <1>1 DEF RowOK, ToEntry, Imported, Columns, None, Some, Option, States

-----------------------------------------------------------------------------
\* Of the rows outside `exc` no two imported ones have one key.
Distinct(tbl, exc) ==
    \A i, j \in DOMAIN tbl \ exc :
        Imported(tbl[i]) /\ Imported(tbl[j]) /\ DedupKey(tbl[i]) = DedupKey(tbl[j]) => i = j

\* What the ingest loop keeps: a table in order, and the keys of all rows it did
\* not fail to read.
AccOK(acc, exc) ==
    /\ acc = [tbl |-> acc.tbl, next |-> acc.next, bad |-> acc.bad, seen |-> acc.seen]
    /\ acc.next \in Nat \ {0}
    /\ TableOK(acc.tbl, acc.next)
    /\ \A i \in DOMAIN acc.tbl \ exc : DedupKey(acc.tbl[i]) \in acc.seen
    /\ Distinct(acc.tbl, exc)

\* A new row keeps the table in order.
LEMMA RowAdded ==
    ASSUME NEW tbl, NEW n \in Nat \ {0}, TableOK(tbl, n), NEW e, RowOK(e),
           NEW new, new = InsertRow(tbl, n, e)
    PROVE  /\ TableOK(new, n + 1)
           /\ n \notin DOMAIN tbl
           /\ new[n] = e
           /\ \A i \in DOMAIN new : i = n \/ (i \in DOMAIN tbl /\ new[i] = tbl[i])
  <1>1. n \notin DOMAIN tbl
    BY DEF TableOK
  <1>2. new[n] = e /\ \A i \in DOMAIN new : i = n \/ (i \in DOMAIN tbl /\ new[i] = tbl[i])
    BY <1>1 DEF InsertRow
  <1>3. ASSUME NEW i \in DOMAIN new
        PROVE  i \in 1..(n + 1) - 1 /\ RowOK(new[i])
    <2>1. CASE i = n
      BY <2>1, <1>2
    <2>2. CASE i \in DOMAIN tbl /\ new[i] = tbl[i]
      BY <2>2 DEF TableOK
    <2>. QED BY <1>2, <2>1, <2>2
  <1>. QED BY <1>1, <1>2, <1>3 DEF TableOK

\* A table that is in order for a value of the sequence is so for the next.
LEMMA RowSkipped ==
    ASSUME NEW tbl, NEW n \in Nat \ {0}, TableOK(tbl, n)
    PROVE  TableOK(tbl, n + 1)
  BY DEF TableOK

\* One line of the loop: skipped, or one row more under a key that was not there,
\* or, when its INSERT fails, only the key.
LEMMA LineStep ==
    ASSUME NEW acc, NEW exc, AccOK(acc, exc), today \in Days,
           NEW t, t.direction \in {"BUY", "SELL"}, t.date \in Option(Days),
           NEW new, new = IngestLine(acc, t)
    PROVE  AccOK(new, exc)
  <1>. SUFFICES ASSUME NEW e, e = ToEntry(t),
                       NEW tbl, tbl = IF acc.next = acc.bad THEN acc.tbl
                                      ELSE InsertRow(acc.tbl, acc.next, e)
                PROVE  AccOK(new, exc)
    OBVIOUS
  <1>. DEFINE key == DedupKey(e)
  <1>1. CASE ~Usable(t) \/ key \in acc.seen
    <2>1. new = acc
      BY <1>1 DEF IngestLine
    <2>. QED BY <2>1
  <1>2. CASE Usable(t) /\ key \notin acc.seen
    <2>1. new = [tbl |-> tbl, next |-> acc.next + 1, bad |-> acc.bad, seen |-> acc.seen \cup {key}]
      <3>1. acc = [tbl |-> acc.tbl, next |-> acc.next, bad |-> acc.bad, seen |-> acc.seen]
        BY DEF AccOK
      <3>2. new = [acc EXCEPT !.seen = @ \cup {key},
                     !.tbl = IF acc.next = acc.bad THEN @ ELSE InsertRow(@, acc.next, e),
                     !.next = @ + 1]
        BY <1>2 DEF IngestLine
      <3>. QED BY <3>1, <3>2
    <2>2. RowOK(e) /\ Imported(e)
      BY <1>2, ImportedRow
    <2>3. acc.next \in Nat \ {0} /\ acc.next + 1 \in Nat \ {0} /\ TableOK(acc.tbl, acc.next)
      BY DEF AccOK
    <2>. HIDE DEF key
    <2>4. CASE acc.next = acc.bad
      <3>1. tbl = acc.tbl
        BY <2>4
      <3>2. TableOK(acc.tbl, acc.next + 1)
        BY <2>3, RowSkipped
      <3>3. /\ new.tbl = acc.tbl /\ new.next = acc.next + 1 /\ new.seen = acc.seen \cup {key}
            /\ new = [tbl |-> new.tbl, next |-> new.next, bad |-> new.bad, seen |-> new.seen]
        BY <2>1, <3>1
      <3>4. \A i \in DOMAIN acc.tbl \ exc : DedupKey(acc.tbl[i]) \in acc.seen \cup {key}
        BY DEF AccOK
      <3>5. Distinct(acc.tbl, exc)
        BY DEF AccOK
      <3>. QED BY ONLY <2>3, <3>2, <3>3, <3>4, <3>5 DEF AccOK
    <2>5. CASE acc.next # acc.bad
      <3>1. tbl = InsertRow(acc.tbl, acc.next, e)
        BY <2>5
      <3>2. /\ TableOK(tbl, acc.next + 1)
            /\ acc.next \notin DOMAIN acc.tbl
            /\ tbl[acc.next] = e
            /\ \A i \in DOMAIN tbl :
                  i = acc.next \/ (i \in DOMAIN acc.tbl /\ tbl[i] = acc.tbl[i])
        BY <2>2, <2>3, <3>1, RowAdded
      <3>3. \A i \in DOMAIN acc.tbl \ exc : DedupKey(acc.tbl[i]) \in acc.seen
        BY DEF AccOK
      <3>4. DedupKey(tbl[acc.next]) = key
        BY <3>2 DEF key
      <3>5. \A i \in DOMAIN tbl \ exc : DedupKey(tbl[i]) \in acc.seen \cup {key}
        BY <3>2, <3>3, <3>4
      <3>9. \A i \in DOMAIN tbl \ exc :
               i = acc.next \/ (i \in DOMAIN acc.tbl \ exc /\ tbl[i] = acc.tbl[i]
                                  /\ DedupKey(tbl[i]) # key)
        BY <1>2, <3>2, <3>3
      <3>6. Distinct(tbl, exc)
        <4>. SUFFICES ASSUME NEW i \in DOMAIN tbl \ exc, NEW j \in DOMAIN tbl \ exc,
                             Imported(tbl[i]), Imported(tbl[j]),
                             DedupKey(tbl[i]) = DedupKey(tbl[j])
                      PROVE  i = j
          BY DEF Distinct
        <4>1. CASE i # acc.next /\ j # acc.next
          BY <3>9, <4>1 DEF AccOK, Distinct
        <4>2. CASE i = acc.next \/ j = acc.next
          BY <3>4, <3>9, <4>2
        <4>. QED BY <4>1, <4>2
      <3>7. /\ new.tbl = tbl /\ new.next = acc.next + 1 /\ new.seen = acc.seen \cup {key}
            /\ new = [tbl |-> new.tbl, next |-> new.next, bad |-> new.bad, seen |-> new.seen]
        BY <2>1
      <3>. QED BY ONLY <2>3, <3>2, <3>5, <3>6, <3>7 DEF AccOK
    <2>. QED BY <2>4, <2>5
  <1>. QED BY <1>1, <1>2

\* However many lines, cut off or not.
LEMMA AllLines ==
    ASSUME today \in Days, NEW base, NEW exc, AccOK(base, exc),
           NEW b, NEW n \in Nat, DOMAIN b = 1..n,
           \A k \in 1..n : b[k].direction \in {"BUY", "SELL"} /\ b[k].date \in Option(Days),
           NEW acc, acc = FoldLeft(IngestLine, base, b)
    PROVE  AccOK(acc, exc)
  <1>1. PICK run : /\ run[0] = base
                   /\ \A k \in 1..n : run[k] = IngestLine(run[k - 1], b[k])
                   /\ acc = run[n]
    <2>1. acc = Lines!Folded(base, b)
      BY DEF Lines!Folded, Lines!FoldLeft, FoldLeft, Lines!MapThenFoldSet, MapThenFoldSet,
             Lines!Max, Max
    <2>. QED BY <2>1, Lines!FoldRuns DEF Lines!Through
  <1>. DEFINE Good == {k \in Nat : k <= n => AccOK(run[k], exc)}
  <1>2. 0 \in Good
    BY <1>1
  <1>3. ASSUME NEW k \in Nat, k \in Good, k + 1 <= n PROVE AccOK(run[k + 1], exc)
    <2>1. AccOK(run[k], exc) /\ k + 1 \in 1..n /\ (k + 1) - 1 = k
      BY <1>3
    <2>2. run[k + 1] = IngestLine(run[k], b[k + 1])
      BY <1>1, <2>1
    <2>3. b[k + 1].direction \in {"BUY", "SELL"} /\ b[k + 1].date \in Option(Days)
      BY <2>1
    <2>. QED BY <2>1, <2>2, <2>3, LineStep
  <1>6. \A k \in Nat : k \in Good => k + 1 \in Good
    BY <1>3
  <1>. HIDE DEF Good
  <1>4. Nat \subseteq Good
    BY <1>2, <1>6, Lines!NatInduct
  <1>. QED BY <1>1, <1>4 DEF Good

-----------------------------------------------------------------------------
\* The inductive invariant.
JournalInv ==
    /\ today \in Days
    /\ nextId \in 1..MaxRows + 1
    /\ TableOK(rows, nextId)
    /\ excused \subseteq DOMAIN rows
    /\ Distinct(rows, excused)

\* An empty table, and a sheet nobody saved.
LEMMA JournalInitOK == Init => JournalInv
  BY JournalAssumption DEF Init, JournalInv, Days, TableOK, Distinct

\* An import, whole or cut off, with or without a failing clear or read.
LEMMA ImportStep ==
    ASSUME JournalInv, NEW b \in Statements, NEW replace \in BOOLEAN, NEW upto \in 0..Len(b),
           Import(b, upto, replace)
    PROVE  JournalInv'
  <1>1. PICK worked \in BOOLEAN, bad \in {0} \cup nextId..Min({MaxRows, nextId + upto - 1}) :
           LET acc == IngestTrades(SubSeq(b, 1, upto), replace, worked, bad)
           IN  /\ acc.next <= MaxRows + 1
               /\ rows' = acc.tbl
               /\ nextId' = acc.next
               /\ excused' = (IF worked THEN excused ELSE DOMAIN rows) \cap DOMAIN acc.tbl
               /\ UNCHANGED today
    BY DEF Import
  <1>. SUFFICES ASSUME NEW base, NEW acc, NEW exc, NEW lines,
                       lines = SubSeq(b, 1, upto),
                       exc = IF worked THEN excused ELSE DOMAIN rows,
                       base = [tbl |-> IF replace /\ worked THEN <<>> ELSE rows,
                               next |-> nextId, bad |-> bad,
                               seen |-> IF ~replace /\ worked
                                        THEN {DedupKey(rows[i]) : i \in DOMAIN rows} ELSE {}],
                       acc = FoldLeft(IngestLine, base, lines),
                       acc.next <= MaxRows + 1, rows' = acc.tbl, nextId' = acc.next,
                       excused' = exc \cap DOMAIN acc.tbl, today' = today
                PROVE  JournalInv'
    BY <1>1 DEF IngestTrades
  <1>2. nextId \in Nat \ {0} /\ TableOK(rows, nextId) /\ Distinct(rows, excused)
    BY JournalAssumption DEF JournalInv
  <1>3. base.next = nextId /\ base = [tbl |-> base.tbl, next |-> base.next,
                                      bad |-> base.bad, seen |-> base.seen]
    OBVIOUS
  <1>4. AccOK(base, exc)
    <2>1. CASE worked /\ replace
      <3>1. base.tbl = <<>> /\ DOMAIN base.tbl = {}
        BY <2>1
      <3>. QED BY <1>2, <1>3, <3>1 DEF AccOK, TableOK, Distinct
    <2>2. CASE worked /\ ~replace
      <3>1. base.tbl = rows /\ exc = excused
            /\ base.seen = {DedupKey(rows[i]) : i \in DOMAIN rows}
        BY <2>2
      <3>. QED BY <1>2, <1>3, <3>1 DEF AccOK
    <2>3. CASE ~worked
      <3>1. base.tbl = rows /\ exc = DOMAIN rows
        BY <2>3
      <3>. QED BY <1>2, <1>3, <3>1 DEF AccOK, Distinct
    <2>. QED BY <2>1, <2>2, <2>3
  <1>5. /\ upto \in Nat /\ DOMAIN lines = 1..upto
        /\ \A k \in 1..upto : lines[k].direction \in {"BUY", "SELL"}
                              /\ lines[k].date \in Option(Days)
    <2>1. b \in Seq(Range(b)) /\ Len(b) \in Nat /\ upto - 1 + 1 = upto
      BY InputAssumption, LenProperties
    <2>2. \A k \in 1..Len(b) : b[k].direction \in {"BUY", "SELL"} /\ b[k].date \in Option(Days)
      BY <2>1, InputAssumption, LenProperties
    <2>3. Len(lines) = upto /\ lines \in Seq(Range(b)) /\ \A k \in 1..upto : lines[k] = b[k]
      BY <2>1, SubSeqProperties
    <2>. QED BY <2>1, <2>2, <2>3, LenProperties
  <1>6. AccOK(acc, exc)
    BY <1>4, <1>5, AllLines DEF JournalInv
  <1>7. nextId' \in 1..MaxRows + 1
    BY <1>6, JournalAssumption DEF AccOK
  <1>8. TableOK(rows', nextId') /\ Distinct(acc.tbl, exc)
    BY <1>6 DEF AccOK
  <1>9. DOMAIN rows' \ excused' = DOMAIN acc.tbl \ exc /\ excused' \subseteq DOMAIN rows'
    OBVIOUS
  <1>10. Distinct(rows', excused')
    BY <1>8, <1>9 DEF Distinct
  <1>11. today' \in Days
    BY DEF JournalInv
  <1>. QED BY <1>7, <1>8, <1>9, <1>10, <1>11 DEF JournalInv

\* Logging a signal.
LEMMA LogStep ==
    ASSUME JournalInv, NEW s \in Staged, NEW st \in Decisions, NEW fill, Log(s, st, fill)
    PROVE  JournalInv'
  <1>. SUFFICES ASSUME NEW e, e = LogEntry(s, st, fill) PROVE JournalInv'
    OBVIOUS
  <1>1. RowOK(e) /\ ~Imported(e)
    BY LogRow, DecisionAssumption DEF JournalInv
  <1>2. nextId \in Nat \ {0} /\ TableOK(rows, nextId) /\ nextId' = nextId + 1
    BY JournalAssumption DEF JournalInv, Log
  <1>3. nextId' \in 1..MaxRows + 1 /\ today' \in Days /\ excused' = excused
    BY JournalAssumption DEF JournalInv, Log
  <1>4. CASE rows' = rows
    BY <1>2, <1>3, <1>4, RowSkipped DEF JournalInv
  <1>5. CASE rows' = InsertRow(rows, nextId, e)
    <2>1. /\ TableOK(rows', nextId')
          /\ rows'[nextId] = e
          /\ \A i \in DOMAIN rows' : i = nextId \/ (i \in DOMAIN rows /\ rows'[i] = rows[i])
      BY <1>1, <1>2, <1>5, RowAdded
    <2>2. Distinct(rows', excused')
      BY <1>1, <1>3, <2>1 DEF JournalInv, Distinct
    <2>3. excused' \subseteq DOMAIN rows'
      BY <1>3, <1>5 DEF JournalInv, InsertRow
    <2>. QED BY <1>3, <2>1, <2>2, <2>3 DEF JournalInv
  <1>. QED BY <1>4, <1>5 DEF Log

\* Updating a row, wherever the handler stops.
LEMMA UpdateStep ==
    ASSUME JournalInv, NEW i \in DOMAIN rows, NEW st \in Decisions, NEW fill, NEW exit,
           NEW done \in 1..3, Update(i, st, fill, exit, done)
    PROVE  JournalInv'
  <1>. SUFFICES ASSUME NEW new, RowOK(new), rows' = [rows EXCEPT ![i] = new] PROVE JournalInv'
    BY UpdateRow, DecisionAssumption DEF JournalInv, TableOK, Update
  <1>1. DOMAIN rows' = DOMAIN rows /\ rows'[i] = new
        /\ \A j \in DOMAIN rows : j # i => rows'[j] = rows[j]
    OBVIOUS
  <1>2. excused' = excused \cup {i} /\ nextId' = nextId /\ today' = today
    BY DEF Update
  <1>3. TableOK(rows', nextId')
    BY <1>1, <1>2 DEF JournalInv, TableOK
  <1>4. Distinct(rows', excused')
    BY <1>1, <1>2 DEF JournalInv, Distinct
  <1>. QED BY <1>1, <1>2, <1>3, <1>4 DEF JournalInv

\* Deleting a row.
LEMMA DeleteStep ==
    ASSUME JournalInv, NEW i \in DOMAIN rows, Delete(i)
    PROVE  JournalInv'
  <1>1. DOMAIN rows' = DOMAIN rows \ {i} /\ \A j \in DOMAIN rows' : rows'[j] = rows[j]
    BY DEF Delete
  <1>2. excused' = excused \ {i} /\ nextId' = nextId /\ today' = today
    BY DEF Delete
  <1>3. TableOK(rows', nextId')
    BY <1>1, <1>2 DEF JournalInv, TableOK
  <1>4. Distinct(rows', excused')
    BY <1>1, <1>2 DEF JournalInv, Distinct
  <1>. QED BY <1>1, <1>2, <1>3, <1>4 DEF JournalInv

\* One operation after another keeps the invariant.
LEMMA JournalNextOK == JournalInv /\ [Next]_vars => JournalInv'
  <1>. SUFFICES ASSUME JournalInv, [Next]_vars PROVE JournalInv'
    OBVIOUS
  <1>1. CASE \E s \in Staged, st \in Decisions, fill \in Typed : Log(s, st, fill)
    BY <1>1, LogStep
  <1>2. CASE \E i \in DOMAIN rows, st \in Decisions, fill, exit \in Typed, done \in 1..3 :
                Update(i, st, fill, exit, done)
    BY <1>2, UpdateStep
  <1>3. CASE \E b \in Statements, replace \in BOOLEAN :
                \E upto \in 0..Len(b) : Import(b, upto, replace)
    BY <1>3, ImportStep
  <1>4. CASE \E i \in DOMAIN rows : Delete(i)
    BY <1>4, DeleteStep
  <1>5. CASE ClearAll
    BY <1>5 DEF ClearAll, JournalInv, TableOK, Distinct
  <1>6. CASE NextDay
    BY <1>6, JournalAssumption DEF NextDay, JournalInv, Days
  <1>7. CASE UNCHANGED vars
    BY <1>7 DEF vars, JournalInv
  <1>. QED BY <1>1, <1>2, <1>3, <1>4, <1>5, <1>6, <1>7 DEF Next

\* The inductive invariant holds in every reachable state.
THEOREM JournalInvariant == Spec => []JournalInv
  BY JournalInitOK, JournalNextOK, PTL DEF Spec

\* Type correctness.
THEOREM JournalTyped == Spec => []TypeOK
  <1>1. JournalInv => TypeOK
    BY DEF JournalInv, TypeOK, TableOK, RowOK
  <1>. QED BY <1>1, JournalInvariant, PTL

\* No row is half closed or half filled, wherever the three statements of an
\* update stopped.
THEOREM RowsAreWhole == Spec => []NeverHalfWritten
  <1>1. JournalInv => NeverHalfWritten
    BY DEF JournalInv, NeverHalfWritten, TableOK, RowOK
  <1>. QED BY <1>1, JournalInvariant, PTL

\* However often statements are uploaded, whole, cut off or with a failing
\* INSERT, no trade is counted twice.
THEOREM ImportsAreDistinct == Spec => []NoDoubleCount
  <1>1. JournalInv => NoDoubleCount
    BY DEF JournalInv, NoDoubleCount, Distinct
  <1>. QED BY <1>1, JournalInvariant, PTL

-----------------------------------------------------------------------------
Versions == [date : Int, count : Int]

\* Types of the variables, as wide as the proof needs them.
UniverseTypeOK ==
    /\ date \in Int /\ stocks \in Int
    /\ cell \in [version : Versions, data : Versions]
    /\ finder \in [Finders -> [pc : {"idle", "listed", "scanning", "answered"},
                               version : Versions, data : Versions]]

\* The cell never says of data that it is of another version than it is: a scan
\* carries the version it was started for, and stores the two together.
CellTrue == cell.data = cell.version
ScansTrue == \A f \in Finders : finder[f].pc = "scanning" => finder[f].data = finder[f].version

UniverseInv == UniverseTypeOK /\ CellTrue /\ ScansTrue /\ FitOfItsDay

\* A version of two integers is a version.
LEMMA VersionType == ASSUME NEW d \in Int, NEW n \in Int PROVE Version(d, n) \in Versions
  BY DEF Version, Versions

\* The server starts with an empty cell and no request.
LEMMA UniverseInitHolds == UniverseInit => UniverseInv
  BY VersionType DEF UniverseInit, UniverseInv, UniverseTypeOK, CellTrue, ScansTrue, FitOfItsDay,
     EmptyCell, NoAnswer, NoVersion

\* Listing the symbols starts nothing and answers nothing.
LEMMA DiscoverKeeps ==
  ASSUME UniverseInv, NEW f \in Finders, Discover(f)
  PROVE  UniverseInv'
  <1> DEFINE next == [pc |-> "listed", version |-> Version(0, stocks), data |-> NoVersion]
  <1>1. next \in [pc : {"idle", "listed", "scanning", "answered"},
                  version : Versions, data : Versions]
    <2>1. Version(0, stocks) \in Versions /\ NoVersion \in Versions
      BY VersionType DEF UniverseInv, UniverseTypeOK, NoVersion
    <2> QED BY <2>1
  <1>2. next.pc = "listed"
    OBVIOUS
  <1>3. finder' = [finder EXCEPT ![f] = next]
    BY DEF Discover
  <1>4. UniverseTypeOK'
    BY <1>1, <1>3 DEF UniverseInv, UniverseTypeOK, Discover
  <1>5. ScansTrue' /\ FitOfItsDay'
    BY <1>2, <1>3 DEF UniverseInv, UniverseTypeOK, ScansTrue, FitOfItsDay
  <1> QED BY <1>4, <1>5 DEF UniverseInv, CellTrue, Discover

\* A hit copies a true cell; a miss starts a scan of the version asked for.
LEMMA LookUpKeeps ==
  ASSUME UniverseInv, NEW f \in Finders, LookUp(f)
  PROVE  UniverseInv'
  <1> DEFINE v == Version(date, finder[f].version.count)
             next == IF cell.version = v
                     THEN [pc |-> "answered", version |-> v, data |-> cell.data]
                     ELSE [pc |-> "scanning", version |-> v, data |-> v]
  <1>1. v \in Versions
    <2>1. finder[f].version \in Versions /\ date \in Int
      BY DEF UniverseInv, UniverseTypeOK
    <2>2. finder[f].version.count \in Int
      BY <2>1 DEF Versions
    <2> QED BY <2>1, <2>2, VersionType
  <1>2. /\ next \in [pc : {"idle", "listed", "scanning", "answered"},
                     version : Versions, data : Versions]
        /\ next.data = next.version
    <2> HIDE DEF v
    <2> QED BY <1>1 DEF UniverseInv, UniverseTypeOK, CellTrue
  <1>3. finder' = [finder EXCEPT ![f] = next] /\ UNCHANGED <<date, stocks, cell>>
    BY DEF LookUp
  <1> HIDE DEF next
  <1>4. UniverseTypeOK'
    BY <1>2, <1>3 DEF UniverseInv, UniverseTypeOK
  <1>5. ScansTrue' /\ FitOfItsDay'
    BY <1>2, <1>3 DEF UniverseInv, UniverseTypeOK, ScansTrue, FitOfItsDay
  <1> QED BY <1>3, <1>4, <1>5 DEF UniverseInv, CellTrue

\* The scan that ends puts its own version beside its data.
LEMMA StoreKeeps ==
  ASSUME UniverseInv, NEW f \in Finders, Store(f)
  PROVE  UniverseInv'
  <1>1. finder[f].pc = "scanning" /\ finder[f].data = finder[f].version
    BY DEF Store, UniverseInv, ScansTrue
  <1>2. UniverseTypeOK'
    BY DEF UniverseInv, UniverseTypeOK, Store
  <1>3. CellTrue'
    BY <1>1 DEF Store, CellTrue
  <1>4. ScansTrue' /\ FitOfItsDay'
    BY <1>1 DEF UniverseInv, UniverseTypeOK, ScansTrue, FitOfItsDay, Store
  <1> QED BY <1>2, <1>3, <1>4 DEF UniverseInv

\* Sending forgets the request.
LEMMA SentKeeps ==
  ASSUME UniverseInv, NEW f \in Finders, Sent(f)
  PROVE  UniverseInv'
  <1>1. /\ NoAnswer \in [pc : {"idle", "listed", "scanning", "answered"},
                         version : Versions, data : Versions]
        /\ NoAnswer.pc = "idle"
    BY VersionType DEF NoAnswer, NoVersion
  <1>2. UniverseTypeOK'
    BY <1>1 DEF UniverseInv, UniverseTypeOK, Sent
  <1>3. ScansTrue' /\ FitOfItsDay'
    BY <1>1 DEF UniverseInv, UniverseTypeOK, ScansTrue, FitOfItsDay, Sent
  <1> QED BY <1>2, <1>3 DEF UniverseInv, CellTrue, Sent

\* Every step keeps the invariant.
LEMMA UniverseStep == UniverseInv /\ [UniverseNext]_fitVars => UniverseInv'
  <1> SUFFICES ASSUME UniverseInv, [UniverseNext]_fitVars PROVE UniverseInv'
    OBVIOUS
  <1>1. CASE Midnight
    BY <1>1 DEF Midnight, UniverseInv, UniverseTypeOK, CellTrue, ScansTrue, FitOfItsDay
  <1>2. CASE NewStock
    BY <1>2 DEF NewStock, UniverseInv, UniverseTypeOK, CellTrue, ScansTrue, FitOfItsDay
  <1>3. CASE \E f \in Finders : Discover(f) \/ LookUp(f) \/ Store(f) \/ Sent(f)
    BY <1>3, DiscoverKeeps, LookUpKeeps, StoreKeeps, SentKeeps
  <1>4. CASE UNCHANGED fitVars
    BY <1>4 DEF fitVars, UniverseInv, UniverseTypeOK, CellTrue, ScansTrue, FitOfItsDay
  <1> QED BY <1>1, <1>2, <1>3, <1>4 DEF UniverseNext

\* The invariant holds in every reachable state (fit_universe, its lock taken
\* for the look-up and the store only).
THEOREM UniverseInvariant == UniverseSpec => []UniverseInv
  BY UniverseInitHolds, UniverseStep, PTL DEF UniverseSpec

\* Whoever asks on a date is answered from a scan begun on that date over as
\* many symbols as it listed (fit_universe, suggestion_engine.rs).
THEOREM FitAlwaysOfItsDay == UniverseSpec => []FitOfItsDay
  <1>1. UniverseInv => FitOfItsDay
    BY DEF UniverseInv
  <1> QED BY <1>1, UniverseInvariant, PTL

-----------------------------------------------------------------------------
Ranks == INSTANCE FoldFacts WITH Op <- Placed
Firsts == INSTANCE FoldFacts WITH Op <- FirstOfName

\* Ranking the rows, insertion by insertion, is a fold that FoldFacts speaks of.
LEMMA RankFold == \A base, s : FoldLeft(Placed, base, s) = Ranks!Folded(base, s)
  BY DEF Ranks!Folded, Ranks!FoldLeft, FoldLeft, Ranks!MapThenFoldSet, MapThenFoldSet,
         Ranks!Max, Max

\* Letting the first of a name through, likewise.
LEMMA FirstFold == \A base, s : FoldLeft(FirstOfName, base, s) = Firsts!Folded(base, s)
  BY DEF Firsts!Folded, Firsts!FoldLeft, FoldLeft, Firsts!MapThenFoldSet, MapThenFoldSet,
         Firsts!Max, Max

\* The filter of the pages is the filter FoldFacts speaks of.
LEMMA SiftIs == \A s, S : Filter(s, S) = Ranks!Filter(s, S)
  BY DEF Filter, Ranks!Filter

-----------------------------------------------------------------------------
\* A list without two rows of a name.
Apart(list) == \A i, j \in 1..Len(list) : i # j => list[i].sym # list[j].sym

\* The list of n rows with r behind the first c of them.
Opened(new, list, n, c, r) ==
    /\ Len(new) = n + 1
    /\ \A i \in 1..n + 1 :
          new[i] = IF i <= c THEN list[i] ELSE IF i = c + 1 THEN r ELSE list[i - 1]

\* InsertAt opens the list at one place.
LEMMA Inserted ==
    ASSUME NEW T, NEW list \in Seq(T), NEW n \in Nat, Len(list) = n, NEW r \in T, NEW c \in 0..n
    PROVE  /\ InsertAt(list, c + 1, r) \in Seq(T)
           /\ Opened(InsertAt(list, c + 1, r), list, n, c, r)
  <1>1. PICK front : front = SubSeq(list, 1, c)
    OBVIOUS
  <1>2. PICK back : back = SubSeq(list, c + 1, n)
    OBVIOUS
  <1>3. front \in Seq(T) /\ Len(front) = c /\ \A i \in 1..c : front[i] = list[i]
    <2>1. CASE c = 0
      <3>1. front = <<>> /\ Len(front) = 0
        BY <1>1, <2>1, SubSeqProperties
      <3>. QED BY <2>1, <3>1
    <2>2. CASE c # 0
      BY <1>1, <2>2, SubSeqProperties
    <2>. QED BY <2>1, <2>2
  <1>4. back \in Seq(T) /\ Len(back) = n - c /\ \A i \in 1..n - c : back[i] = list[c + i]
    BY <1>2, SubSeqProperties
  <1>5. PICK one : one = <<r>>
    OBVIOUS
  <1>6. one \in Seq(T) /\ Len(one) = 1 /\ one[1] = r
    BY <1>5
  <1>7. PICK left : left = front \o one
    OBVIOUS
  <1>8. /\ left \in Seq(T) /\ Len(left) = c + 1 /\ left[c + 1] = r
        /\ \A i \in 1..c : left[i] = list[i]
    <2>1. /\ left \in Seq(T) /\ Len(left) = Len(front) + Len(one)
          /\ \A i \in 1..Len(front) + Len(one) :
                left[i] = IF i <= Len(front) THEN front[i] ELSE one[i - Len(front)]
      BY ONLY <1>3, <1>6, <1>7, ConcatProperties
    <2>. QED BY <1>3, <1>6, <2>1
  <1>9. PICK new : new = left \o back
    OBVIOUS
  <1>10. /\ new \in Seq(T) /\ Len(new) = Len(left) + Len(back)
         /\ \A i \in 1..Len(left) + Len(back) :
               new[i] = IF i <= Len(left) THEN left[i] ELSE back[i - Len(left)]
    BY ONLY <1>4, <1>8, <1>9, ConcatProperties
  <1>11. Len(new) = n + 1
    BY <1>4, <1>8, <1>10
  <1>12. ASSUME NEW i \in 1..n + 1
         PROVE  new[i] = IF i <= c THEN list[i] ELSE IF i = c + 1 THEN r ELSE list[i - 1]
    <2>1. CASE i <= c + 1
      BY <1>4, <1>8, <1>10, <2>1
    <2>2. CASE i > c + 1
      <3>1. PICK m \in 1..n - c : m = i - (c + 1)
        BY <2>2
      <3>2. new[i] = back[m] /\ c + m = i - 1
        BY <1>4, <1>8, <1>10, <2>2, <3>1
      <3>. QED BY <1>4, <2>2, <3>1, <3>2
    <2>. QED BY <2>1, <2>2
  <1>13. InsertAt(list, c + 1, r) = new
    <2>1. (c + 1) - 1 = c /\ Len(list) = n
      OBVIOUS
    <2>2. InsertAt(list, c + 1, r) = (SubSeq(list, 1, (c + 1) - 1) \o <<r>>) \o SubSeq(list, c + 1, Len(list))
      BY DEF InsertAt
    <2>. QED BY ONLY <1>1, <1>2, <1>5, <1>7, <1>9, <2>1, <2>2
  <1>14. Opened(new, list, n, c, r)
    BY <1>11, <1>12 DEF Opened
  <1>. QED BY ONLY <1>10, <1>13, <1>14

\* A row that goes to its place leaves the others as they were.
LEMMA PlacedKeeps ==
    ASSUME NEW T, NEW list \in Seq(T), NEW r \in T, Apart(list),
           \A k \in 1..Len(list) : list[k].sym # r.sym
    PROVE  /\ Placed(list, r) \in Seq(T) /\ Apart(Placed(list, r))
           /\ \A j \in 1..Len(Placed(list, r)) :
                 Placed(list, r)[j] = r \/ \E k \in 1..Len(list) : Placed(list, r)[j] = list[k]
  <1>1. PICK n \in Nat : n = Len(list) /\ DOMAIN list = 1..n
    BY LenProperties
  <1>2. PICK c \in 0..n : Placed(list, r) = InsertAt(list, c + 1, r)
    <2>1. PICK behind : behind = {k \in DOMAIN list : ~FitAbove(r, list[k])}
      OBVIOUS
    <2>2. IsFiniteSet(1..n) /\ Cardinality(1..n) = n
      BY ONLY n \in Nat, FS_Interval
    <2>3. behind \subseteq 1..n
      BY ONLY <1>1, <2>1
    <2>4. Cardinality(behind) \in 0..n
      <3>1. IsFiniteSet(behind) /\ Cardinality(behind) <= n
        BY ONLY <2>2, <2>3, n \in Nat, FS_Subset
      <3>2. Cardinality(behind) \in Nat
        BY ONLY <3>1, FS_CardinalityType
      <3>. QED BY ONLY <3>1, <3>2, n \in Nat
    <2>5. Placed(list, r) = InsertAt(list, Cardinality(behind) + 1, r)
      BY ONLY <2>1 DEF Placed
    <2>. QED BY ONLY <2>4, <2>5
  <1>3. PICK new : new = Placed(list, r)
    OBVIOUS
  <1>4. /\ new \in Seq(T) /\ Len(new) = n + 1
        /\ \A i \in 1..n + 1 : new[i] = IF i <= c THEN list[i] ELSE IF i = c + 1 THEN r ELSE list[i - 1]
    <2>1. Len(list) = n
      BY <1>1
    <2>2. new = InsertAt(list, c + 1, r)
      BY <1>2, <1>3
    <2>3. InsertAt(list, c + 1, r) \in Seq(T) /\ Opened(InsertAt(list, c + 1, r), list, n, c, r)
      BY <2>1, Inserted
    <2>4. new \in Seq(T) /\ Opened(new, list, n, c, r)
      BY ONLY <2>2, <2>3
    <2>. QED BY <2>4 DEF Opened
  <1>5. ASSUME NEW i \in 1..n + 1
        PROVE  \/ i = c + 1 /\ new[i] = r
               \/ \E p \in 1..n : /\ i # c + 1 /\ new[i] = list[p]
                                  /\ p = IF i <= c THEN i ELSE i - 1
    <2>1. CASE i <= c
      <3>1. i \in 1..n /\ i # c + 1
        BY ONLY <2>1, n \in Nat, c \in 0..n, i \in 1..n + 1
      <3>. QED BY ONLY <1>4, <2>1, <3>1, i \in 1..n + 1
    <2>2. CASE i = c + 1
      BY ONLY <1>4, <2>2, n \in Nat, c \in 0..n, i \in 1..n + 1
    <2>3. CASE i > c + 1
      <3>1. i - 1 \in 1..n /\ ~(i <= c) /\ i # c + 1
        BY ONLY <2>3, n \in Nat, c \in 0..n, i \in 1..n + 1
      <3>. QED BY ONLY <1>4, <3>1, i \in 1..n + 1
    <2>. QED BY ONLY <2>1, <2>2, <2>3, n \in Nat, c \in 0..n, i \in 1..n + 1
  <1>6. ASSUME NEW i \in 1..n + 1, NEW j \in 1..n + 1, i # j PROVE new[i].sym # new[j].sym
    <2>1. CASE i = c + 1
      <3>1. j # c + 1
        BY <1>6, <2>1
      <3>2. PICK q \in 1..n : new[j] = list[q]
        BY <1>5, <3>1
      <3>3. new[i] = r
        BY <1>5, <2>1
      <3>. QED BY <1>1, <3>2, <3>3
    <2>2. CASE j = c + 1
      <3>1. i # c + 1
        BY <1>6, <2>2
      <3>2. PICK q \in 1..n : new[i] = list[q]
        BY <1>5, <3>1
      <3>3. new[j] = r
        BY <1>5, <2>2
      <3>. QED BY <1>1, <3>2, <3>3
    <2>3. CASE i # c + 1 /\ j # c + 1
      <3>1. PICK p \in 1..n : new[i] = list[p] /\ p = IF i <= c THEN i ELSE i - 1
        BY <1>5, <2>3
      <3>2. PICK q \in 1..n : new[j] = list[q] /\ q = IF j <= c THEN j ELSE j - 1
        BY <1>5, <2>3
      <3>3. p # q
        BY ONLY <1>6, <2>3, <3>1, <3>2, n \in Nat, c \in 0..n, i \in 1..n + 1, j \in 1..n + 1
      <3>4. list[p].sym # list[q].sym
        BY <1>1, <3>3 DEF Apart
      <3>. QED BY ONLY <3>1, <3>2, <3>4
    <2>. QED BY <2>1, <2>2, <2>3
  <1>7. Apart(new)
    BY <1>4, <1>6 DEF Apart
  <1>8. \A j \in 1..n + 1 : new[j] = r \/ \E k \in 1..n : new[j] = list[k]
    BY <1>5
  <1>. QED BY ONLY <1>1, <1>3, <1>4, <1>7, <1>8

\* So ranking loses no name and adds none.
LEMMA RankKeeps ==
    ASSUME NEW T, NEW s \in Seq(T), Apart(s)
    PROVE  FoldLeft(Placed, <<>>, s) \in Seq(T) /\ Apart(FoldLeft(Placed, <<>>, s))
  <1>1. PICK n \in Nat : n = Len(s) /\ DOMAIN s = 1..n
    BY LenProperties
  <1>2. PICK run : /\ run[0] = <<>>
                   /\ \A k \in 1..n : run[k] = Placed(run[k - 1], s[k])
                   /\ Ranks!Folded(<<>>, s) = run[n]
    <2>1. DOMAIN s = 1..n
      BY <1>1
    <2>2. PICK run : Ranks!Through(run, <<>>, s, n)
      BY <2>1, Ranks!FoldRuns
    <2>3. /\ run[0] = <<>>
          /\ \A k \in 1..n : run[k] = Placed(run[k - 1], s[k])
          /\ Ranks!Folded(<<>>, s) = run[n]
      BY <2>2 DEF Ranks!Through
    <2>. QED BY <2>3
  <1>3. \A k \in 1..n : s[k] \in T
    BY <1>1, ElementOfSeq
  <1>. DEFINE Whole(m) ==
                 /\ run[m] \in Seq(T) /\ Apart(run[m])
                 /\ \A j \in 1..Len(run[m]) : \E k \in 1..m : run[m][j] = s[k]
              Good == {m \in Nat : m <= n => Whole(m)}
  <1>4. 0 \in Good
    <2>1. run[0] \in Seq(T) /\ Len(run[0]) = 0 /\ 1..0 = {}
      BY <1>2
    <2>. QED BY <2>1 DEF Apart
  <1>5. ASSUME NEW m \in Nat, m \in Good, m + 1 <= n PROVE Whole(m + 1)
    <2>1. Whole(m) /\ m + 1 \in 1..n /\ (m + 1) - 1 = m
      BY <1>5
    <2>. DEFINE old == run[m]
                r == s[m + 1]
                new == run[m + 1]
    <2>2. new = Placed(old, r) /\ r \in T
      BY <1>2, <1>3, <2>1
    <2>3. /\ old \in Seq(T) /\ Apart(old)
          /\ \A j \in 1..Len(old) : \E k \in 1..m : old[j] = s[k]
      BY <2>1
    <2>. HIDE DEF old, new
    <2>4. ASSUME NEW j \in 1..Len(old) PROVE old[j].sym # r.sym
      <3>1. PICK k \in 1..m : old[j] = s[k]
        BY <2>3
      <3>2. k \in 1..Len(s) /\ m + 1 \in 1..Len(s) /\ k # m + 1
        BY <1>1, <2>1
      <3>. QED BY <3>1, <3>2 DEF Apart
    <2>. HIDE DEF r
    <2>5. /\ new \in Seq(T) /\ Apart(new)
          /\ \A j \in 1..Len(new) : new[j] = r \/ \E k \in 1..Len(old) : new[j] = old[k]
      BY <2>2, <2>3, <2>4, PlacedKeeps
    <2>6. ASSUME NEW j \in 1..Len(new) PROVE \E k \in 1..m + 1 : new[j] = s[k]
      <3>1. CASE new[j] = r
        <4>1. m + 1 \in 1..m + 1
          OBVIOUS
        <4>. QED BY <3>1, <4>1 DEF r
      <3>2. CASE \E k \in 1..Len(old) : new[j] = old[k]
        <4>1. PICK i \in 1..Len(old) : new[j] = old[i]
          BY <3>2
        <4>2. PICK k \in 1..m : old[i] = s[k]
          BY <2>3
        <4>3. k \in 1..m + 1
          OBVIOUS
        <4>. QED BY <4>1, <4>2, <4>3
      <3>. QED BY <2>5, <3>1, <3>2
    <2>. QED BY <2>5, <2>6 DEF new
  <1>6. \A m \in Nat : m \in Good => m + 1 \in Good
    <2>. HIDE DEF Whole
    <2>. QED BY <1>5
  <1>7. Whole(n)
    <2>1. n \in Good
      <3>. HIDE DEF Good
      <3>. QED BY <1>1, <1>4, <1>6, Ranks!NatInduct
    <2>. HIDE DEF Whole
    <2>. QED BY <1>1, <2>1
  <1>. QED BY <1>2, <1>7, RankFold

\* Where no name comes twice, none is skipped.
LEMMA FirstsAreAll ==
    ASSUME NEW T, NEW s \in Seq(T), Apart(s)
    PROVE  FoldLeft(FirstOfName, <<>>, s) = s
  <1>1. PICK n \in Nat : n = Len(s) /\ DOMAIN s = 1..n
    BY LenProperties
  <1>2. PICK run : /\ run[0] = <<>>
                   /\ \A k \in 1..n : run[k] = FirstOfName(run[k - 1], s[k])
                   /\ Firsts!Folded(<<>>, s) = run[n]
    <2>1. DOMAIN s = 1..n
      BY <1>1
    <2>2. PICK run : Firsts!Through(run, <<>>, s, n)
      BY <2>1, Firsts!FoldRuns
    <2>3. /\ run[0] = <<>>
          /\ \A k \in 1..n : run[k] = FirstOfName(run[k - 1], s[k])
          /\ Firsts!Folded(<<>>, s) = run[n]
      BY <2>2 DEF Firsts!Through
    <2>. QED BY <2>3
  <1>3. \A k \in 1..n : s[k] \in T
    BY <1>1, ElementOfSeq
  <1>. DEFINE Whole(m) == run[m] \in Seq(T) /\ Len(run[m]) = m /\ \A j \in 1..m : run[m][j] = s[j]
              Good == {m \in Nat : m <= n => Whole(m)}
  <1>4. 0 \in Good
    <2>1. run[0] \in Seq(T) /\ Len(run[0]) = 0 /\ 1..0 = {}
      BY <1>2
    <2>. QED BY <2>1
  <1>5. ASSUME NEW m \in Nat, m \in Good, m + 1 <= n PROVE Whole(m + 1)
    <2>1. Whole(m) /\ m + 1 \in 1..n /\ (m + 1) - 1 = m
      BY <1>5
    <2>. DEFINE old == run[m]
                r == s[m + 1]
    <2>2. run[m + 1] = FirstOfName(old, r) /\ r \in T
      BY <1>2, <1>3, <2>1
    <2>3. old \in Seq(T) /\ Len(old) = m /\ \A j \in 1..m : old[j] = s[j]
      BY <2>1
    <2>4. \A j \in 1..m : old[j].sym # r.sym
      <3>1. \A j \in 1..m : j \in 1..Len(s) /\ m + 1 \in 1..Len(s) /\ j # m + 1
        BY <1>1, <2>1
      <3>. QED BY <2>3, <3>1 DEF Apart
    <2>5. DOMAIN old = 1..m
      BY <2>3, LenProperties
    <2>. HIDE DEF old, r
    <2>6. run[m + 1] = Append(old, r)
      BY <2>2, <2>4, <2>5 DEF FirstOfName
    <2>7. /\ Append(old, r) \in Seq(T) /\ Len(Append(old, r)) = m + 1
          /\ Append(old, r)[m + 1] = r /\ \A j \in 1..m : Append(old, r)[j] = old[j]
      BY <2>2, <2>3, AppendProperties
    <2>8. \A j \in 1..m + 1 : run[m + 1][j] = s[j]
      <3>1. \A j \in 1..m + 1 : j \in 1..m \/ j = m + 1
        OBVIOUS
      <3>. QED BY <2>3, <2>6, <2>7, <3>1 DEF r
    <2>. QED BY <2>6, <2>7, <2>8
  <1>6. \A m \in Nat : m \in Good => m + 1 \in Good
    <2>. HIDE DEF Whole
    <2>. QED BY <1>5
  <1>7. Whole(n)
    <2>1. n \in Good
      <3>. HIDE DEF Good
      <3>. QED BY <1>1, <1>4, <1>6, Firsts!NatInduct
    <2>. HIDE DEF Whole
    <2>. QED BY <1>1, <2>1
  <1>8. run[n] = s
    BY <1>1, <1>7, SeqEqual
  <1>. QED BY <1>2, <1>8, FirstFold

\* A filter of a list without two rows of a name is one.
LEMMA SiftApart ==
    ASSUME NEW T, NEW s \in Seq(T), Apart(s), NEW S
    PROVE  Filter(s, S) \in Seq(T \cap S) /\ Apart(Filter(s, S))
  <1>. DEFINE R == {p \in T \X T : p[1].sym # p[2].sym}
  <1>1. PICK f : f = Filter(s, S)
    OBVIOUS
  <1>2. f \in Seq(T \cap S)
    BY <1>1, SiftIs, Ranks!FilterElements
  <1>3. Ranks!Falls(s, R)
    <2>1. \A i \in 1..Len(s) : s[i] \in T
      BY ElementOfSeq
    <2>2. \A i, j \in 1..Len(s) : i < j => i # j
      <3>1. Len(s) \in Nat
        BY LenProperties
      <3>. QED BY <3>1
    <2>. QED BY <2>1, <2>2 DEF Ranks!Falls, Apart
  <1>4. Ranks!Falls(f, R)
    <2>. HIDE DEF R
    <2>. QED BY <1>1, <1>3, SiftIs, Ranks!FilterFalls
  <1>5. Apart(f)
    <2>1. Len(f) \in Nat
      BY <1>2, LenProperties
    <2>2. ASSUME NEW i \in 1..Len(f), NEW j \in 1..Len(f), i < j PROVE f[i].sym # f[j].sym
      <3>1. <<f[i], f[j]>> \in R
        BY <1>4, <2>2 DEF Ranks!Falls
      <3>. QED BY <3>1
    <2>3. \A i, j \in 1..Len(f) : i # j => i < j \/ j < i
      BY <2>1
    <2>. QED BY <2>2, <2>3 DEF Apart
  <1>. QED BY ONLY <1>1, <1>2, <1>5

-----------------------------------------------------------------------------
\* Fits of distinct names, whether they can be sized or not.
DeskIInv ==
    /\ fits \in Seq(Fits) /\ Apart(fits)
    /\ filled \in SharingSlot(ask)

\* A page is shown only what was asked for, in budgets.
LEMMA FillersAreBudgets == Fillers \subseteq Budgets
  <1>1. ASSUME NEW v \in Nat, NEW range \in {CapitalRange, RiskRange} PROVE Clamp(v, range) \in Nat
    <2>1. range \in Nat \X Nat
      BY DeskAssumption
    <2>2. range[1] \in Nat /\ range[2] \in Nat
      BY <2>1
    <2>. QED BY <1>1, <2>2 DEF Clamp
  <1>2. \A b \in Dialled : OnPicks(b) \in Budgets
    BY <1>1, DeskAssumption DEF Budgets, OnPicks
  <1>. QED BY <1>2, DeskAssumption DEF Fillers

\* Edges that can be sized, and what is made of them.
Sizable == {b \in Fits : StopDist(b) > 0 /\ b.entry > 0}
Rows == {Sized(b) : b \in Sizable}

\* The ranking lists sized fits, each name once.
LEMMA RankedOK == DeskIInv => Ranked \in Seq(Rows) /\ Apart(Ranked)
  <1>. SUFFICES ASSUME DeskIInv PROVE Ranked \in Seq(Rows) /\ Apart(Ranked)
    OBVIOUS
  <1>1. PICK scan : scan = fits
    OBVIOUS
  <1>2. scan \in Seq(Fits) /\ Apart(scan)
    BY <1>1 DEF DeskIInv
  <1>3. PICK U : U = {b \in Range(scan) : StopDist(b) > 0 /\ b.entry > 0}
    OBVIOUS
  <1>4. PICK usable : usable = Filter(scan, U)
    OBVIOUS
  <1>5. usable \in Seq(Fits \cap U) /\ Apart(usable)
    BY <1>2, <1>4, SiftApart
  <1>6. PICK n \in Nat : n = Len(usable) /\ DOMAIN usable = 1..n
    BY <1>5, LenProperties
  <1>7. \A k \in 1..n : usable[k] \in Sizable
    <2>1. \A k \in 1..n : usable[k] \in Fits \cap U
      BY <1>5, <1>6, ElementOfSeq
    <2>. QED BY <1>3, <2>1 DEF Sizable
  <1>8. PICK T : T = Rows
    OBVIOUS
  <1>9. PICK sized : sized = [k \in DOMAIN usable |-> Sized(usable[k])]
    OBVIOUS
  <1>10. /\ DOMAIN sized = 1..n
         /\ \A k \in 1..n : sized[k] \in T /\ sized[k].sym = usable[k].sym
    BY <1>6, <1>7, <1>8, <1>9 DEF Rows, Sized
  <1>11. sized \in [1..n -> T]
    <2>1. sized = [k \in 1..n |-> sized[k]]
      BY <1>6, <1>9
    <2>. QED BY <1>10, <2>1
  <1>12. sized \in Seq(T) /\ Len(sized) = n
    BY <1>11, SeqDef
  <1>13. Apart(sized)
    BY <1>5, <1>6, <1>10, <1>12 DEF Apart
  <1>14. PICK V : V = {r \in Range(sized) : r.shares >= 1}
    OBVIOUS
  <1>15. PICK list : list = Filter(sized, V)
    OBVIOUS
  <1>16. list \in Seq(T \cap V) /\ Apart(list)
    BY <1>12, <1>13, <1>15, SiftApart
  <1>17. list \in Seq(T)
    <2>1. PICK m \in Nat : list \in [1..m -> T \cap V]
      BY <1>16, SeqDef
    <2>2. list \in [1..m -> T]
      BY <2>1
    <2>. QED BY <2>2, SeqDef
  <1>18. FoldLeft(Placed, <<>>, list) \in Seq(T) /\ Apart(FoldLeft(Placed, <<>>, list))
    BY <1>16, <1>17, RankKeeps
  <1>19. Ranked = FoldLeft(Placed, <<>>, list)
    BY <1>1, <1>3, <1>4, <1>9, <1>14, <1>15 DEF Ranked
  <1>. QED BY <1>8, <1>18, <1>19

\* The two pages: the console shows the brackets of the rows that the picks show.
LEMMA Shown ==
    ASSUME DeskIInv, NEW dir
    PROVE  \E n \in Nat :
              /\ Len(TopSide(dir)) = n /\ Len(Console(dir)) = n /\ DOMAIN Console(dir) = 1..n
              /\ \A k \in 1..n : /\ TopSide(dir)[k] \in Rows
                                 /\ TopSide(dir)[k].dir = dir /\ Stages(TopSide(dir)[k])
                                 /\ Console(dir)[k] = Bracket(TopSide(dir)[k])
  <1>1. PICK T : T = Rows
    OBVIOUS
  <1>2. PICK ranked : ranked = Ranked
    OBVIOUS
  <1>3. ranked \in Seq(T) /\ Apart(ranked)
    BY <1>1, <1>2, RankedOK
  <1>4. PICK V : V = {r \in Range(ranked) : r.dir = dir /\ Stages(r)}
    OBVIOUS
  <1>5. PICK list : list = Filter(ranked, V)
    OBVIOUS
  <1>6. list \in Seq(T \cap V) /\ Apart(list)
    BY <1>3, <1>5, SiftApart
  <1>7. FoldLeft(FirstOfName, <<>>, list) = list
    BY <1>6, FirstsAreAll
  <1>8. TopSide(dir) = FirstOf(list, PerSide)
    <2>1. V = {r \in Range(Ranked) :
                  /\ r.dir = dir /\ VerdictOf(r.sym) # "blocked"
                  /\ r.exp > 0 /\ r.shares > 0 /\ ~StandAside(r.entry, r.stop, r.exp)}
      BY <1>2, <1>4 DEF Stages
    <2>2. TopSide(dir) = FirstOf(FoldLeft(FirstOfName, <<>>, Filter(Ranked, V)), PerSide)
      BY <2>1 DEF TopSide
    <2>. QED BY <1>2, <1>5, <1>7, <2>2
  <1>9. PICK len \in Nat : len = Len(list) /\ DOMAIN list = 1..len
    BY <1>6, LenProperties
  <1>10. PICK orders : orders = [k \in DOMAIN list |-> Bracket(list[k])]
    OBVIOUS
  <1>11. Console(dir) = FirstOf(orders, PerSide)
    BY <1>2, <1>4, <1>5, <1>10 DEF Console
  <1>12. PICK B : B = {Bracket(list[k]) : k \in 1..len}
    OBVIOUS
  <1>13. orders \in [1..len -> B] /\ \A k \in 1..len : orders[k] = Bracket(list[k])
    BY <1>9, <1>10, <1>12
  <1>14. orders \in Seq(B) /\ Len(orders) = len
    BY <1>13, SeqDef
  <1>15. PICK n \in 0..len : n = Least(PerSide, len)
    BY DeskAssumption DEF Least
  <1>16. TopSide(dir) = SubSeq(list, 1, n) /\ Console(dir) = SubSeq(orders, 1, n)
    BY <1>8, <1>9, <1>11, <1>14, <1>15 DEF FirstOf
  <1>17. ASSUME NEW S, NEW s \in Seq(S), Len(s) = len
         PROVE  /\ Len(SubSeq(s, 1, n)) = n /\ DOMAIN SubSeq(s, 1, n) = 1..n
                /\ \A k \in 1..n : SubSeq(s, 1, n)[k] = s[k]
    <2>1. CASE n = 0
      <3>1. SubSeq(s, 1, n) = <<>>
        BY <1>17, <2>1, SubSeqProperties
      <3>. QED BY <2>1, <3>1
    <2>2. CASE n # 0
      <3>1. /\ SubSeq(s, 1, n) \in Seq(S) /\ Len(SubSeq(s, 1, n)) = n
            /\ \A k \in 1..n : SubSeq(s, 1, n)[k] = s[k]
        BY <1>17, <2>2, SubSeqProperties
      <3>. QED BY <3>1, LenProperties
    <2>. QED BY <2>1, <2>2
  <1>18. \A k \in 1..n : list[k] \in T \cap V /\ k \in 1..len
    BY <1>6, <1>9, ElementOfSeq
  <1>19. /\ Len(TopSide(dir)) = n /\ \A k \in 1..n : TopSide(dir)[k] = list[k]
    BY <1>6, <1>9, <1>16, <1>17
  <1>20. /\ Len(Console(dir)) = n /\ DOMAIN Console(dir) = 1..n
         /\ \A k \in 1..n : Console(dir)[k] = Bracket(list[k])
    BY <1>13, <1>14, <1>16, <1>17, <1>18
  <1>21. \A k \in 1..n : list[k] \in Rows /\ list[k].dir = dir /\ Stages(list[k])
    BY <1>1, <1>4, <1>18
  <1>. QED BY <1>19, <1>20, <1>21

-----------------------------------------------------------------------------
\* No fit yet.
LEMMA DeskInitOK == DeskInit => DeskIInv
  <1>. SUFFICES ASSUME DeskInit PROVE DeskIInv
    OBVIOUS
  <1>1. fits = <<>> /\ filled \in SharingSlot(ask)
    BY DEF DeskInit
  <1>2. fits \in Seq(Fits) /\ Len(fits) = 0
    BY <1>1
  <1>. QED BY <1>1, <1>2 DEF DeskIInv, Apart

\* Another fit, another request, and whatever the tradability index does, keep one fit
\* per name and rows of the asked bucket.
LEMMA DeskNextOK == DeskIInv /\ [DeskNext]_deskVars => DeskIInv'
  <1>. SUFFICES ASSUME DeskIInv, [DeskNext]_deskVars PROVE DeskIInv'
    OBVIOUS
  <1>1. CASE UNCHANGED <<fits, ask, filled>>
    BY <1>1 DEF DeskIInv, Apart, SharingSlot
  <1>2. CASE FitNext
    <2>1. PICK b \in Fits : /\ \A k \in DOMAIN fits : fits[k].sym # b.sym
                           /\ fits' = Append(fits, b)
      BY <1>2 DEF FitNext
    <2>2. ask' = ask /\ filled' = filled /\ fits \in Seq(Fits) /\ Apart(fits)
      BY <1>2 DEF FitNext, DeskIInv
    <2>3. PICK n \in Nat : n = Len(fits) /\ DOMAIN fits = 1..n
      BY <2>2, LenProperties
    <2>4. /\ fits' \in Seq(Fits) /\ Len(fits') = n + 1 /\ fits'[n + 1] = b
          /\ \A k \in 1..n : fits'[k] = fits[k]
      BY <2>1, <2>2, <2>3, AppendProperties
    <2>5. ASSUME NEW i \in 1..n + 1, NEW j \in 1..n + 1, i # j PROVE fits'[i].sym # fits'[j].sym
      <3>1. \A k \in 1..n : fits'[k].sym # b.sym
        BY <2>1, <2>3, <2>4
      <3>2. (i \in 1..n \/ i = n + 1) /\ (j \in 1..n \/ j = n + 1)
        OBVIOUS
      <3>3. CASE i \in 1..n /\ j \in 1..n
        BY <2>2, <2>3, <2>4, <2>5, <3>3 DEF Apart
      <3>. QED BY <2>4, <2>5, <3>1, <3>2, <3>3
    <2>6. Apart(fits)'
      BY <2>4, <2>5 DEF Apart
    <2>. QED BY <2>2, <2>4, <2>6 DEF DeskIInv, SharingSlot
  <1>3. ASSUME NEW b, Request(b) PROVE DeskIInv'
    BY <1>3 DEF DeskIInv, Request, Apart, SharingSlot
  <1>. QED BY <1>1, <1>2, <1>3 DEF DeskNext, AskPicks, AskStaging, deskVars

\* The picks and the console agree, and the guard clears nothing they warn of:
\* picks::top_side, staging_handler and assess_exit, over every fit universe, index,
\* quote and capital.
THEOREM PagesShowTheSame == DeskSpec => []PagesAgree
  <1>1. DeskIInv => PagesAgree
    <2>. SUFFICES ASSUME DeskIInv, NEW dir \in {"BUY", "SELL"}
                  PROVE  /\ Len(TopSide(dir)) = Len(Console(dir))
                         /\ \A k \in DOMAIN Console(dir) :
                              /\ Console(dir)[k].sym = TopSide(dir)[k].sym
                              /\ Console(dir)[k].qty = TopSide(dir)[k].shares
                              /\ Console(dir)[k].note = NoteOf(TopSide(dir)[k].sym)
                              /\ LET o == Console(dir)[k] IN
                                 \A band \in Bands :
                                    Guard(o.sym, dir, o.limit, o.stop, o.qty * o.limit, band) = "ok"
                                        => o.note \in {"none", "unverified"}
      BY DEF PagesAgree
    <2>1. PICK n \in Nat :
              /\ Len(TopSide(dir)) = n /\ Len(Console(dir)) = n /\ DOMAIN Console(dir) = 1..n
              /\ \A k \in 1..n : /\ TopSide(dir)[k] \in Rows
                                 /\ TopSide(dir)[k].dir = dir /\ Stages(TopSide(dir)[k])
                                 /\ Console(dir)[k] = Bracket(TopSide(dir)[k])
      BY Shown
    <2>2. ASSUME NEW k \in 1..n
          PROVE  /\ Console(dir)[k].sym = TopSide(dir)[k].sym
                 /\ Console(dir)[k].qty = TopSide(dir)[k].shares
                 /\ Console(dir)[k].note = NoteOf(TopSide(dir)[k].sym)
      BY <2>1 DEF Bracket
    <2>3. ASSUME NEW s, NEW entry, NEW stop, NEW notional, NEW band,
                 Guard(s, dir, entry, stop, notional, band) = "ok"
          PROVE  NoteOf(s) \in {"none", "unverified"}
      <3>1. CASE s \in DOMAIN index
        <4>1. PICK picture : picture = index[s]
          OBVIOUS
        <4>2. picture.verdict \notin {"high_risk", "caution"}
          BY <2>3, <3>1, <4>1 DEF Guard
        <4>3. VerdictOf(s) = picture.verdict
          BY <3>1, <4>1 DEF VerdictOf
        <4>. QED BY <4>2, <4>3 DEF NoteOf
      <3>2. CASE s \notin DOMAIN index
        BY <3>2 DEF NoteOf, VerdictOf
      <3>. QED BY <3>1, <3>2
    <2>. QED BY <2>1, <2>2, <2>3
  <1>. QED BY <1>1, DeskInitOK, DeskNextOK, PTL DEF DeskSpec

-----------------------------------------------------------------------------
\* The quotient of naturals.
LEMMA Quotient ==
    ASSUME NEW a \in Nat, NEW d \in Nat \ {0}
    PROVE  a \div d \in Nat /\ d * (a \div d) <= a /\ a < d * (a \div d) + d
  OBVIOUS

\* A product of naturals grows with its second factor.
LEMMA Grows ==
    ASSUME NEW n \in Nat, NEW a \in Nat, NEW b \in Nat, a <= b
    PROVE  n * a <= n * b /\ n * a \in Nat /\ n * b \in Nat
  OBVIOUS

\* What a staged order is made of: the row's own bracket, measured again in whole
\* percents of the ATR, never reaches further than the distance it was sized at.
LEMMA StagedOK ==
    ASSUME filled \in Budgets, NEW b \in Sizable,
           NEW o, o = Bracket(Sized(b)), Sized(b).shares > 0
    PROVE  /\ o.qty \in Nat /\ Abs(o.limit - o.stop) \in Nat /\ o.limit \in Int
           /\ 100000 * o.qty * Abs(o.limit - o.stop) <= filled.capital * filled.risk
           /\ b.dir = "BUY" => o.qty * o.limit <= MaxLeverage * filled.capital
  <1>1. PICK cap \in Nat, risk \in Nat : cap = filled.capital /\ risk = filled.risk
    BY DEF Budgets
  <1>2. PICK dist \in Nat : dist = StopDist(b)
    BY DeskAssumption, Quotient DEF Sizable, StopDist
  <1>3. PICK entry \in Nat, atr \in Nat, sl \in Nat, rr \in Nat :
            entry = b.entry /\ atr = b.atr /\ sl = b.slPct /\ rr = b.rr
    BY DeskAssumption DEF Sizable
  <1>4. dist > 0 /\ entry > 0 /\ sl >= 2 /\ rr >= 100 /\ MaxLeverage \in Nat /\ LimitPct \in Nat
    BY <1>2, <1>3, DeskAssumption DEF Sizable
  <1>5. PICK side \in {1, -1} : side = SideOf(b.dir)
    BY DEF SideOf
  <1>. DEFINE row == Sized(b)
  <1>6. /\ row.entry = entry /\ row.atr = atr /\ row.dir = b.dir /\ row.shares = Shares(b)
        /\ row.stop = entry - side * dist
        /\ row.target = entry + side * ((rr * dist) \div 100)
    BY <1>2, <1>3, <1>5 DEF Sized
  <1>7. atr > 0 /\ atr < 100 * dist
    <2>1. dist = (sl * atr) \div 100
      BY <1>2, <1>3 DEF StopDist
    <2>2. sl * atr \in Nat
      OBVIOUS
    <2>3. 100 * dist <= sl * atr /\ sl * atr < 100 * dist + 100
      BY <2>1, <2>2, Quotient
    <2>4. atr * 2 <= atr * sl
      BY <1>4, Grows
    <2>5. atr * sl = sl * atr
      OBVIOUS
    <2>6. atr # 0
      <3>1. atr = 0 => sl * atr = 0
        OBVIOUS
      <3>. QED BY <1>4, <2>3, <3>1
    <2>. QED BY <1>4, <2>2, <2>3, <2>4, <2>5, <2>6
  <1>8. PICK far \in Nat : far = (rr * dist) \div 100 /\ far >= dist
    <2>1. rr * dist \in Nat
      OBVIOUS
    <2>2. dist * 100 <= dist * rr
      BY <1>4, Grows
    <2>3. dist * rr = rr * dist
      OBVIOUS
    <2>. QED BY <2>1, <2>2, <2>3, Quotient
  <1>9. Abs(row.entry - row.stop) = dist /\ Abs(row.target - row.entry) = far
    <2>1. PICK stop : stop = row.stop /\ stop = entry - side * dist
      BY <1>6
    <2>2. PICK target : target = row.target /\ target = entry + side * far
      BY <1>6, <1>8
    <2>3. Abs(entry - stop) = dist
      BY <1>4, <1>5, <2>1 DEF Abs
    <2>4. Abs(target - entry) = far
      BY <1>4, <1>5, <1>8, <2>2 DEF Abs
    <2>. QED BY ONLY <1>6, <2>1, <2>2, <2>3, <2>4
  <1>10. PICK pct \in Nat : pct = (100 * dist) \div atr /\ pct > 0 /\ pct * atr <= 100 * dist
    <2>1. /\ (100 * dist) \div atr \in Nat /\ atr * ((100 * dist) \div atr) <= 100 * dist
          /\ 100 * dist < atr * ((100 * dist) \div atr) + atr
      BY <1>7, Quotient
    <2>2. PICK q \in Nat : q = (100 * dist) \div atr
      BY <2>1
    <2>3. q # 0
      <3>1. q = 0 => atr * q = 0
        OBVIOUS
      <3>. QED BY <1>7, <2>1, <2>2, <3>1
    <2>4. q * atr = atr * q /\ q > 0
      BY <2>3
    <2>5. q * atr <= 100 * dist
      BY <2>1, <2>2, <2>4
    <2>. QED BY ONLY q \in Nat, <2>2, <2>4, <2>5
  <1>11. (100 * far) \div atr > 0 /\ (100 * far) \div atr \in Nat
    <2>1. /\ (100 * far) \div atr \in Nat
          /\ 100 * far < atr * ((100 * far) \div atr) + atr
      BY <1>7, Quotient
    <2>2. PICK q \in Nat : q = (100 * far) \div atr
      BY <2>1
    <2>3. q # 0
      <3>1. q = 0 => atr * q = 0
        OBVIOUS
      <3>2. 100 * dist <= 100 * far
        BY <1>8
      <3>. QED BY <1>7, <2>1, <2>2, <3>1, <3>2
    <2>. QED BY <2>2, <2>3
  <1>12. RowBracket(row)[1] = pct
    BY <1>4, <1>6, <1>7, <1>9, <1>10, <1>11 DEF RowBracket
  <1>13. PICK d \in Nat : d = (pct * atr) \div 100 /\ d <= dist
    <2>1. pct * atr \in Nat
      OBVIOUS
    <2>2. (pct * atr) \div 100 \in Nat /\ 100 * ((pct * atr) \div 100) <= pct * atr
      BY <2>1, Quotient
    <2>. QED BY <1>10, <2>1, <2>2
  <1>14. PICK inside \in Nat : inside = (LimitPct * atr) \div 100
    <2>1. LimitPct * atr \in Nat
      BY <1>4
    <2>. QED BY <2>1, Quotient
  <1>15. PICK limit \in Int : limit = entry - side * inside
    BY <1>5
  <1>16. /\ o.qty = Shares(b) /\ o.limit = limit /\ o.stop = limit - side * d
    BY <1>5, <1>6, <1>12, <1>13, <1>14, <1>15 DEF Bracket
  <1>17. Abs(o.limit - o.stop) = d
    BY <1>5, <1>15, <1>16 DEF Abs
  <1>18. PICK qty \in Nat : qty = Shares(b) /\ (100000 * dist) * qty <= cap * risk
                             /\ entry * qty <= cap * MaxLeverage
    <2>1. cap * risk \in Nat /\ cap * MaxLeverage \in Nat /\ 100000 * dist \in Nat \ {0}
      BY <1>4
    <2>2. PICK r \in Nat : r = ByRisk(b) /\ (100000 * dist) * r <= cap * risk
      <3>1. ByRisk(b) = (cap * risk) \div (100000 * dist)
        BY <1>1, <1>2 DEF ByRisk
      <3>. QED BY <2>1, <3>1, Quotient
    <2>3. PICK a \in Nat : a = Affordable(b) /\ entry * a <= cap * MaxLeverage
      <3>1. Affordable(b) = (cap * MaxLeverage) \div entry
        BY <1>1, <1>3 DEF Affordable
      <3>. QED BY <1>4, <2>1, <3>1, Quotient
    <2>4. PICK q \in Nat : q = Shares(b) /\ q <= r /\ q <= a
      BY <2>2, <2>3 DEF Shares, Least
    <2>5. (100000 * dist) * q <= (100000 * dist) * r /\ (100000 * dist) * r \in Nat
          /\ (100000 * dist) * q \in Nat
      BY <2>1, <2>4, Grows
    <2>6. entry * q <= entry * a /\ entry * q \in Nat /\ entry * a \in Nat
      BY <2>4, Grows
    <2>. QED BY <2>1, <2>2, <2>3, <2>4, <2>5, <2>6
  <1>19. 100000 * qty * d <= cap * risk
    <2>1. (100000 * qty) * d <= (100000 * qty) * dist
      BY <1>13, Grows
    <2>2. (100000 * qty) * dist = (100000 * dist) * qty
      OBVIOUS
    <2>3. (100000 * qty) * d \in Nat /\ (100000 * qty) * dist \in Nat /\ cap * risk \in Nat
      OBVIOUS
    <2>. QED BY <1>18, <2>1, <2>2, <2>3
  <1>20. ASSUME b.dir = "BUY" PROVE qty * limit <= MaxLeverage * cap
    <2>1. limit = entry - inside /\ limit <= entry
      BY <1>5, <1>15, <1>20 DEF SideOf
    <2>2. qty * limit <= qty * entry
      <3>1. qty * limit = qty * entry - qty * inside
        BY <2>1
      <3>2. qty * inside \in Nat /\ qty * entry \in Nat
        OBVIOUS
      <3>. QED BY <3>1, <3>2
    <2>3. qty * entry = entry * qty /\ cap * MaxLeverage = MaxLeverage * cap
      BY <1>4
    <2>4. qty * limit \in Int /\ qty * entry \in Nat /\ MaxLeverage * cap \in Nat
      BY <1>4
    <2>. QED BY <1>18, <2>2, <2>3, <2>4
  <1>. QED BY <1>1, <1>15, <1>16, <1>17, <1>18, <1>19, <1>20

\* A budget that shares a tier's slot exceeds it by less than half a bucket each way.
LEMMA Rounding ==
    ASSUME NEW a \in Tiers, NEW c \in SharingSlot(a)
    PROVE  /\ c \in Budgets /\ a \in Budgets
           /\ c.capital * c.risk < (a.capital + 500) * (a.risk + 5)
           /\ MaxLeverage * c.capital <= MaxLeverage * (a.capital + 500)
  <1>1. a \in Budgets /\ c \in Budgets /\ CapRiskKey(c) = CapRiskKey(a)
    BY FillersAreBudgets, DeskAssumption DEF SharingSlot
  <1>2. PICK cap \in Nat, risk \in Nat : cap = a.capital /\ risk = a.risk
    BY <1>1 DEF Budgets
  <1>3. PICK had \in Nat, at \in Nat : had = c.capital /\ at = c.risk
    BY <1>1 DEF Budgets
  <1>4. /\ (had + 500) \div 1000 = (cap + 500) \div 1000 /\ (at + 5) \div 10 = (risk + 5) \div 10
        /\ cap % 1000 = 0 /\ risk % 10 = 0
    BY <1>1, <1>2, <1>3, DeskAssumption DEF CapRiskKey
  <1>5. had < cap + 500 /\ at < risk + 5
    BY <1>4
  <1>6. had * at < (cap + 500) * (risk + 5)
    <2>1. had * at <= had * (risk + 5)
      BY <1>5, Grows
    <2>2. (risk + 5) * had <= (risk + 5) * (cap + 499)
      BY <1>5, Grows
    <2>3. had * (risk + 5) = (risk + 5) * had
      OBVIOUS
    <2>4. (cap + 500) * (risk + 5) = (risk + 5) * (cap + 499) + (risk + 5)
      OBVIOUS
    <2>5. had * at \in Nat /\ (risk + 5) * had \in Nat /\ (risk + 5) * (cap + 499) \in Nat
      OBVIOUS
    <2>. QED BY <2>1, <2>2, <2>3, <2>4, <2>5
  <1>7. MaxLeverage * had <= MaxLeverage * (cap + 500)
    BY <1>5, Grows, DeskAssumption
  <1>. QED BY <1>1, <1>2, <1>3, <1>6, <1>7

\* No staged order exceeds its tier by more than half a bucket, nor needs more buying
\* power than that if it buys: CapRiskKey, find_capital_fit, row_bracket_mults and
\* stage_bracket.
THEOREM StagingKeepsRisk == DeskSpec => []StagedWithinRisk
  <1>1. DeskIInv => StagedWithinRisk
    <2>. SUFFICES ASSUME DeskIInv, NEW dir \in {"BUY", "SELL"}, NEW k \in DOMAIN Console(dir),
                         NEW o, o = Console(dir)[k], ask \in Tiers
                  PROVE  /\ 100000 * o.qty * Abs(o.limit - o.stop)
                                < (ask.capital + 500) * (ask.risk + 5)
                         /\ dir = "BUY" => o.qty * o.limit <= MaxLeverage * (ask.capital + 500)
      BY DEF StagedWithinRisk
    <2>1. /\ TopSide(dir)[k] \in Rows /\ TopSide(dir)[k].dir = dir
          /\ Stages(TopSide(dir)[k]) /\ o = Bracket(TopSide(dir)[k])
      BY Shown
    <2>2. PICK b \in Sizable : TopSide(dir)[k] = Sized(b)
      BY <2>1 DEF Rows
    <2>3. Sized(b).shares > 0 /\ Sized(b).dir = dir
      BY <2>1, <2>2 DEF Stages
    <2>4. b.dir = dir
      BY <2>3 DEF Sized
    <2>5. PICK cap \in Nat, risk \in Nat, had \in Nat, at \in Nat :
              /\ cap = ask.capital /\ risk = ask.risk /\ had = filled.capital /\ at = filled.risk
              /\ filled \in Budgets /\ had * at < (cap + 500) * (risk + 5)
              /\ MaxLeverage * had <= MaxLeverage * (cap + 500)
      <3>1. filled \in SharingSlot(ask) /\ ask \in Tiers
        BY DEF DeskIInv
      <3>2. /\ filled \in Budgets /\ ask \in Budgets
            /\ filled.capital * filled.risk < (ask.capital + 500) * (ask.risk + 5)
            /\ MaxLeverage * filled.capital <= MaxLeverage * (ask.capital + 500)
        BY <3>1, Rounding
      <3>3. {ask.capital, ask.risk, filled.capital, filled.risk} \subseteq Nat
        BY <3>2 DEF Budgets
      <3>. QED BY <3>2, <3>3
    <2>6. PICK qty \in Nat, far \in Nat, limit \in Int :
              /\ qty = o.qty /\ far = Abs(o.limit - o.stop) /\ limit = o.limit
              /\ 100000 * qty * far <= had * at
              /\ dir = "BUY" => qty * limit <= MaxLeverage * had
      BY <2>1, <2>2, <2>3, <2>4, <2>5, StagedOK
    <2>7. /\ 100000 * qty * far \in Nat /\ had * at \in Nat /\ (cap + 500) * (risk + 5) \in Nat
          /\ qty * limit \in Int /\ MaxLeverage * had \in Nat /\ MaxLeverage * (cap + 500) \in Nat
      <3>1. MaxLeverage \in Nat
        BY DeskAssumption
      <3>2. 100000 * qty * far \in Nat /\ had * at \in Nat
        OBVIOUS
      <3>3. (cap + 500) * (risk + 5) \in Nat
        OBVIOUS
      <3>4. qty * limit \in Int
        OBVIOUS
      <3>5. MaxLeverage * had \in Nat /\ MaxLeverage * (cap + 500) \in Nat
        BY <3>1
      <3>. QED BY <3>2, <3>3, <3>4, <3>5
    <2>8. 100000 * qty * far < (cap + 500) * (risk + 5)
      BY <2>5, <2>6, <2>7
    <2>9. dir = "BUY" => qty * limit <= MaxLeverage * (cap + 500)
      BY <2>5, <2>6, <2>7
    <2>. QED BY <2>5, <2>6, <2>8, <2>9
  <1>. QED BY <1>1, DeskInitOK, DeskNextOK, PTL DEF DeskSpec

-----------------------------------------------------------------------------
Views == INSTANCE FoldFacts WITH Op <- Booked

\* Stamps, results and rows as they may be; a row has a P&L when it has an exit.
Moments == {NoStamp} \cup (Nat \X Nat)
Pnls == {NoPnl} \cup {<<x>> : x \in Int}
BookRows ==
    {r \in [state : Decision, entered : Moments, exited : Moments, pnl : Pnls] :
        r.pnl = NoPnl <=> r.exited = NoStamp}

\* Finitely many of them by their ids.
Ledger(b) ==
    /\ b = [i \in DOMAIN b |-> b[i]]
    /\ IsFiniteSet(DOMAIN b) /\ DOMAIN b \subseteq Nat
    /\ \A i \in DOMAIN b : b[i] \in BookRows

ViewInv == now \in Nat \X Nat /\ now[1] # 0 /\ lastId \in Nat /\ Ledger(book)

\* A stamp or a result is not none.
LEMMA NotNone ==
    /\ \A x : <<x>> # NoPnl
    /\ \A s \in Nat \X Nat : s # NoStamp
  BY DEF NoPnl, NoStamp

\* A row under a new id.
LEMMA InsertOK ==
    ASSUME ViewInv, NEW row \in BookRows, Insert(row)
    PROVE  /\ ViewInv' /\ now' = now /\ lastId + 1 \in DOMAIN book'
           /\ \A i \in DOMAIN book' \ {lastId + 1} : i \in DOMAIN book /\ book'[i] = book[i]
  <1>1. PICK x : x = lastId + 1
    OBVIOUS
  <1>2. x \in Nat /\ lastId' = x /\ now' = now
        /\ book' = [i \in DOMAIN book \cup {x} |-> IF i = x THEN row ELSE book[i]]
    BY <1>1 DEF Insert, ViewInv
  <1>3. DOMAIN book' = DOMAIN book \cup {x}
        /\ \A i \in DOMAIN book' : book'[i] = IF i = x THEN row ELSE book[i]
    BY <1>2
  <1>4. IsFiniteSet(DOMAIN book')
    BY <1>3, FS_AddElement DEF ViewInv, Ledger
  <1>5. Ledger(book')
    BY <1>2, <1>3, <1>4 DEF ViewInv, Ledger
  <1>. QED BY <1>1, <1>2, <1>3, <1>5 DEF ViewInv, Ledger

\* A row rewritten.
LEMMA RewriteOK ==
    ASSUME ViewInv, NEW i \in DOMAIN book, NEW row \in BookRows,
           book' = [book EXCEPT ![i] = row], UNCHANGED <<now, lastId>>
    PROVE  /\ ViewInv' /\ now' = now
           /\ \A j \in DOMAIN book' \ {i} : j \in DOMAIN book /\ book'[j] = book[j]
  <1>1. DOMAIN book' = DOMAIN book
        /\ \A j \in DOMAIN book : book'[j] = IF j = i THEN row ELSE book[j]
    BY DEF ViewInv, Ledger
  <1>2. Ledger(book')
    BY <1>1 DEF ViewInv, Ledger
  <1>. QED BY <1>1, <1>2 DEF ViewInv

\* Rows gone.
LEMMA FewerOK ==
    ASSUME ViewInv, NEW ids \in SUBSET DOMAIN book, book' = [i \in ids |-> book[i]],
           UNCHANGED <<now, lastId>>
    PROVE  /\ ViewInv' /\ now' = now
           /\ \A j \in DOMAIN book' : j \in DOMAIN book /\ book'[j] = book[j]
  <1>1. DOMAIN book' = ids /\ \A j \in ids : book'[j] = book[j]
    OBVIOUS
  <1>2. Ledger(book')
    BY <1>1, FS_Subset DEF ViewInv, Ledger
  <1>. QED BY <1>1, <1>2 DEF ViewInv

\* Every step keeps the rows as they may be and touches one of them at most, but for
\* those it takes away.
LEMMA OneRowAtATime ==
    ASSUME ViewInv, [ViewNext]_viewVars
    PROVE  /\ ViewInv'
           /\ \E x : \A i \in DOMAIN book' \ {x} : i \in DOMAIN book /\ book'[i] = book[i]
  <1>1. CASE book' = book /\ lastId' = lastId /\ now' \in Nat \X Nat /\ now'[1] # 0
    BY <1>1 DEF ViewInv, Ledger
  <1>2. CASE UNCHANGED viewVars
    BY <1>1, <1>2 DEF viewVars, ViewInv
  <1>3. ASSUME NEW state \in Decision, NEW entered \in {NoStamp, now}, Take(state, entered)
        PROVE  ViewInv' /\ \E x : \A i \in DOMAIN book' \ {x} : i \in DOMAIN book /\ book'[i] = book[i]
    <2>1. [state |-> state, entered |-> entered, exited |-> NoStamp, pnl |-> NoPnl] \in BookRows
      BY DEF ViewInv, BookRows, Moments, Pnls
    <2>. QED BY <1>3, <2>1, InsertOK DEF Take
  <1>4. ASSUME NEW line \in Sheet, ImportRow(line)
        PROVE  ViewInv' /\ \E x : \A i \in DOMAIN book' \ {x} : i \in DOMAIN book /\ book'[i] = book[i]
    <2>1. line.entered \in Nat \X Nat /\ line.exited \in Nat \X Nat /\ line.pnl \in Int
      BY ViewAssumption
    <2>2. [state |-> "Manually_Accepted", entered |-> line.entered, exited |-> line.exited,
           pnl |-> <<line.pnl>>] \in BookRows
      BY <2>1, NotNone DEF BookRows, Moments, Pnls, Decision
    <2>. QED BY <1>4, <2>2, InsertOK DEF ImportRow
  <1>5. ASSUME NEW i \in DOMAIN book,
               \/ \E state \in Decision : Relabel(i, state)
               \/ Enter(i)
               \/ \E pnl \in Results : Finish(i, pnl)
        PROVE  ViewInv' /\ \E x : \A j \in DOMAIN book' \ {x} : j \in DOMAIN book /\ book'[j] = book[j]
    <2>1. PICK r : r = book[i]
      OBVIOUS
    <2>2. r \in BookRows /\ now \in Moments /\ now # NoStamp
      BY <2>1, NotNone DEF ViewInv, Ledger, Moments
    <2>3. CASE \E state \in Decision : Relabel(i, state)
      <3>1. PICK state \in Decision : Relabel(i, state)
        BY <2>3
      <3>2. [r EXCEPT !.state = state] \in BookRows
        BY <2>2 DEF BookRows
      <3>3. book' = [book EXCEPT ![i] = [r EXCEPT !.state = state]] /\ UNCHANGED <<now, lastId>>
        BY <2>1, <3>1 DEF Relabel
      <3>. QED BY <3>2, <3>3, RewriteOK
    <2>4. CASE Enter(i)
      <3>1. [r EXCEPT !.entered = now] \in BookRows
        BY <2>2 DEF BookRows
      <3>2. book' = [book EXCEPT ![i] = [r EXCEPT !.entered = now]] /\ UNCHANGED <<now, lastId>>
        BY <2>1, <2>4 DEF Enter
      <3>. QED BY <3>1, <3>2, RewriteOK
    <2>5. CASE \E pnl \in Results : Finish(i, pnl)
      <3>1. PICK pnl \in Results : Finish(i, pnl)
        BY <2>5
      <3>2. pnl \in Int /\ <<pnl>> # NoPnl
        BY ViewAssumption, NotNone
      <3>3. [r EXCEPT !.exited = now, !.pnl = <<pnl>>] \in BookRows
        BY <2>2, <3>2 DEF BookRows, Pnls
      <3>4. book' = [book EXCEPT ![i] = [r EXCEPT !.exited = now, !.pnl = <<pnl>>]]
            /\ UNCHANGED <<now, lastId>>
        <4>1. book' = [book EXCEPT ![i].exited = now, ![i].pnl = <<pnl>>] /\ UNCHANGED <<now, lastId>>
          BY <3>1 DEF Finish
        <4>. QED BY <2>1, <4>1
      <3>. QED BY <3>3, <3>4, RewriteOK
    <2>. QED BY <1>5, <2>3, <2>4, <2>5
  <1>6. ASSUME NEW i \in DOMAIN book, Drop(i)
        PROVE  ViewInv' /\ \E x : \A j \in DOMAIN book' \ {x} : j \in DOMAIN book /\ book'[j] = book[j]
    <2>1. book' = [j \in DOMAIN book \ {i} |-> book[j]] /\ UNCHANGED <<now, lastId>>
      BY <1>6 DEF Drop, Restrict
    <2>. QED BY <2>1, FewerOK
  <1>7. CASE Wipe
    <2>1. book' = <<>> /\ UNCHANGED <<now, lastId>>
      BY <1>7 DEF Wipe
    <2>2. book' = [j \in {} |-> book[j]]
      BY <2>1
    <2>. QED BY <2>1, <2>2, FewerOK
  <1>8. CASE Pass
    <2>1. book' = book /\ lastId' = lastId
      BY <1>8 DEF Pass
    <2>2. now' \in Nat \X Nat /\ now'[1] # 0
      BY <1>8 DEF Pass, ViewInv
    <2>. QED BY <1>1, <2>1, <2>2
  <1>. QED BY <1>2, <1>3, <1>4, <1>5, <1>6, <1>7, <1>8 DEF ViewNext

\* The invariant: a clock, and rows as they may be.
LEMMA ViewInvHolds == ViewSpec => []ViewInv
  <1>1. ASSUME ViewInit PROVE ViewInv
    <2>1. DOMAIN book = {} /\ book = [i \in DOMAIN book |-> book[i]]
      BY <1>1 DEF ViewInit
    <2>2. IsFiniteSet({})
      BY FS_EmptySet
    <2>. QED BY <1>1, <2>1, <2>2 DEF ViewInit, ViewInv, Ledger
  <1>2. ASSUME ViewInv, [ViewNext]_viewVars PROVE ViewInv'
    BY <1>2, OneRowAtATime
  <1>. QED BY <1>1, <1>2, PTL DEF ViewSpec

\* Stamps come one after another.
LEMMA ClockOrder ==
    /\ \A s \in Moments : ~Before(s, s)
    /\ \A s, t \in Moments : s = t \/ Before(s, t) \/ Before(t, s)
    /\ \A s, t, u \in Moments : Before(s, t) /\ Before(t, u) => Before(s, u)
  <1>1. \A s \in Moments :
          s = NoStamp \/ (s # NoStamp /\ s = <<s[1], s[2]>> /\ s[1] \in Nat /\ s[2] \in Nat)
    BY DEF Moments, NoStamp
  <1>2. \A s \in Moments : ~Before(s, s)
    BY <1>1 DEF Before
  <1>3. ASSUME NEW s \in Moments, NEW t \in Moments PROVE s = t \/ Before(s, t) \/ Before(t, s)
    BY <1>1 DEF Before
  <1>4. ASSUME NEW s \in Moments, NEW t \in Moments, NEW u \in Moments, Before(s, t), Before(t, u)
        PROVE  Before(s, u)
    BY <1>1, <1>4 DEF Before
  <1>. QED BY <1>2, <1>3, <1>4

\* So the closes of some rows are in a line, open ones first or last.
ByClock(ledger, ids) == {p \in ids \X ids : Earlier(ledger, p[1], p[2])}
ByCompletion(ledger, ids) == {p \in ids \X ids : CompletedBefore(ledger, p[1], p[2])}

\* What a book of such rows has: the ended rows are those with an exit.
LEMMA RowFacts ==
    ASSUME NEW ledger, Ledger(ledger)
    PROVE  /\ DOMAIN ledger \subseteq Int
           /\ \A i \in DOMAIN ledger : ledger[i].exited \in Moments /\ ledger[i].pnl \in Pnls
           /\ Ended(ledger) = {i \in DOMAIN ledger : ledger[i].exited # NoStamp}
           /\ \A i \in Ended(ledger) : ledger[i].pnl[1] \in Int
  <1>1. DOMAIN ledger \subseteq Int
    BY DEF Ledger
  <1>2. \A i \in DOMAIN ledger : ledger[i] \in BookRows
    BY DEF Ledger
  <1>3. \A i \in DOMAIN ledger :
          /\ ledger[i].exited \in Moments /\ ledger[i].pnl \in Pnls
          /\ ledger[i].pnl = NoPnl <=> ledger[i].exited = NoStamp
    BY <1>2 DEF BookRows
  <1>4. \A x \in Pnls : x # NoPnl => x[1] \in Int
    BY DEF Pnls
  <1>5. Ended(ledger) = {i \in DOMAIN ledger : ledger[i].exited # NoStamp}
    <2>1. \A i \in DOMAIN ledger : ledger[i].pnl # NoPnl <=> ledger[i].exited # NoStamp
      BY <1>3
    <2>. QED BY ONLY <2>1 DEF Ended
  <1>6. ASSUME NEW i \in Ended(ledger) PROVE ledger[i].pnl[1] \in Int
    <2>1. i \in DOMAIN ledger /\ ledger[i].pnl # NoPnl
      BY DEF Ended
    <2>. QED BY <1>3, <1>4, <2>1
  <1>. QED BY <1>1, <1>3, <1>5, <1>6

\* By exit and id, any two rows come one after the other; among ended ones the
\* performance page's order is the governor's.
LEMMA EarlierFacts ==
    ASSUME NEW ledger, Ledger(ledger)
    PROVE  /\ \A i \in DOMAIN ledger : ~Earlier(ledger, i, i)
           /\ \A i, j \in DOMAIN ledger : i = j \/ Earlier(ledger, i, j) \/ Earlier(ledger, j, i)
           /\ \A i, j, k \in DOMAIN ledger :
                 Earlier(ledger, i, j) /\ Earlier(ledger, j, k) => Earlier(ledger, i, k)
           /\ \A i, j \in Ended(ledger) : CompletedBefore(ledger, i, j) <=> Earlier(ledger, i, j)
  <1>. DEFINE at(i) == ledger[i].exited
  <1>1. \A i \in DOMAIN ledger : at(i) \in Moments /\ i \in Int
    BY RowFacts
  <1>2. \A i, j : Earlier(ledger, i, j) <=> (Before(at(i), at(j)) \/ (at(i) = at(j) /\ i < j))
    BY DEF Earlier
  <1>3. \A i, j \in Ended(ledger) : CompletedBefore(ledger, i, j) <=> Earlier(ledger, i, j)
    BY RowFacts DEF CompletedBefore, Earlier
  <1>. HIDE DEF at
  <1>4. \A i \in DOMAIN ledger : ~Earlier(ledger, i, i)
    BY <1>1, <1>2, ClockOrder
  <1>5. ASSUME NEW i \in DOMAIN ledger, NEW j \in DOMAIN ledger
        PROVE  i = j \/ Earlier(ledger, i, j) \/ Earlier(ledger, j, i)
    BY <1>1, <1>2, ClockOrder
  <1>6. ASSUME NEW i \in DOMAIN ledger, NEW j \in DOMAIN ledger, NEW k \in DOMAIN ledger,
               Earlier(ledger, i, j), Earlier(ledger, j, k)
        PROVE  Earlier(ledger, i, k)
    <2>1. at(i) \in Moments /\ at(j) \in Moments /\ at(k) \in Moments
          /\ i \in Int /\ j \in Int /\ k \in Int
      BY <1>1
    <2>2. /\ Before(at(i), at(j)) \/ (at(i) = at(j) /\ i < j)
          /\ Before(at(j), at(k)) \/ (at(j) = at(k) /\ j < k)
      BY <1>2, <1>6
    <2>3. CASE at(i) = at(j) /\ i < j /\ at(j) = at(k) /\ j < k
      <3>1. i < k
        BY <2>1, <2>3
      <3>. QED BY <1>2, <2>3, <3>1
    <2>4. CASE Before(at(i), at(j)) /\ Before(at(j), at(k))
      BY <1>2, <2>1, <2>4, ClockOrder
    <2>5. CASE Before(at(i), at(j)) /\ at(j) = at(k)
      BY <1>2, <2>5
    <2>6. CASE at(i) = at(j) /\ Before(at(j), at(k))
      BY <1>2, <2>6
    <2>. QED BY <2>2, <2>3, <2>4, <2>5, <2>6
  <1>. QED BY <1>3, <1>4, <1>5, <1>6

\* So any rows are in a line by their closes, and all the ended ones by completion.
LEMMA ClockLine ==
    ASSUME NEW ledger, Ledger(ledger), NEW ids, ids \subseteq DOMAIN ledger, NEW E \in SUBSET ids
    PROVE  Views!Linear(ByClock(ledger, ids), E)
  <1>1. \A x, y \in E : <<x, y>> \in ByClock(ledger, ids) <=> Earlier(ledger, x, y)
    BY DEF ByClock
  <1>2. E \subseteq DOMAIN ledger
    OBVIOUS
  <1>. QED BY <1>1, <1>2, EarlierFacts, Zenon DEF Views!Linear

\* The performance page's line.
LEMMA CompletionLine ==
    ASSUME NEW ledger, Ledger(ledger)
    PROVE  Views!Linear(ByCompletion(ledger, Ended(ledger)), Ended(ledger))
  <1>. DEFINE E == Ended(ledger)
  <1>1. E \subseteq DOMAIN ledger
    BY DEF Ended
  <1>2. \A x, y \in E : <<x, y>> \in ByCompletion(ledger, E) <=> CompletedBefore(ledger, x, y)
    BY DEF ByCompletion
  <1>. HIDE DEF E
  <1>3. \A x, y \in E : <<x, y>> \in ByCompletion(ledger, E) <=> Earlier(ledger, x, y)
    BY <1>2, EarlierFacts DEF E
  <1>4. Views!Linear(ByCompletion(ledger, E), E)
    BY <1>1, <1>3, EarlierFacts, Zenon DEF Views!Linear
  <1>. QED BY <1>4 DEF E

\* What the lemmas on lines speak of is what is used here.
LEMMA FiniteViews == \A S : (Views!IsFiniteSet(S) <=> IsFiniteSet(S))
                            /\ Views!Cardinality(S) = Cardinality(S)
  BY DEF IsFiniteSet, Views!IsFiniteSet, Cardinality, Views!Cardinality

\* The sort of the views.
LEMMA SortViews == \A S, R : Sorted(S, R) = Views!Sorted(S, R)
  BY DEF Sorted, Views!Sorted, Cardinality, Views!Cardinality, IsFiniteSet, Views!IsFiniteSet

\* The filter of the views.
LEMMA FilterViews == \A s, S : Filter(s, S) = Views!Filter(s, S)
  BY DEF Filter, Views!Filter

\* The sum of the views.
LEMMA TotalViews == \A f, S : SumFunctionOnSet(f, S) = Views!Total(f, S)
  BY DEF Views!Total, SumFunctionOnSet, Views!SumFunctionOnSet, FoldFunctionOnSet,
         Views!FoldFunctionOnSet, MapThenFoldSet, Views!MapThenFoldSet

-----------------------------------------------------------------------------
\* The day's closes are in a line.
TodaysEnded(ledger, day) == Ended(ledger) \cap Todays(ledger, day)

\* Rows are finitely many.
LEMMA RowsAreFinite ==
    ASSUME NEW ledger, Ledger(ledger), NEW ids \in SUBSET DOMAIN ledger
    PROVE  IsFiniteSet(ids) /\ Cardinality(ids) \in Nat
  BY FS_Subset, FS_CardinalityType DEF Ledger

\* The governor's list of the day's closes is their line.
LEMMA ClosedLine ==
    ASSUME NEW ledger, Ledger(ledger), NEW day
    PROVE  /\ Views!Linear(ByClock(ledger, Todays(ledger, day)), TodaysEnded(ledger, day))
           /\ Views!Lined(Closed(ledger, day), TodaysEnded(ledger, day),
                          ByClock(ledger, Todays(ledger, day)),
                          Cardinality(TodaysEnded(ledger, day)))
  <1>. DEFINE T == Todays(ledger, day)
              E == TodaysEnded(ledger, day)
              R == ByClock(ledger, T)
              s == CloseOrder(ledger, day)
              q == Closed(ledger, day)
  <1>1. T \subseteq DOMAIN ledger /\ E = T \cap Ended(ledger) /\ E \in SUBSET T /\ T \in SUBSET T
    BY DEF Todays, TodaysEnded
  <1>2. IsFiniteSet(T) /\ Cardinality(T) \in Nat /\ Cardinality(E) \in Nat
    <2>. HIDE DEF T, E
    <2>. QED BY <1>1, RowsAreFinite
  <1>3. Views!Linear(R, T) /\ Views!Linear(R, E)
    <2>. HIDE DEF T, E
    <2>. QED BY <1>1, ClockLine
  <1>4. s = Views!Sorted(T, R) /\ q = Views!Filter(s, Ended(ledger))
    BY SortViews, FilterViews DEF CloseOrder, ByClock, Closed
  <1>. HIDE DEF T, E, R, s, q
  <1>5. Views!Lined(s, T, R, Cardinality(T))
    <2>1. Views!IsFiniteSet(T)
      BY <1>2, FiniteViews
    <2>. QED BY <1>3, <1>4, <2>1, Views!SortedIs, FiniteViews
  <1>6. /\ s \in Seq(T) /\ Len(s) = Cardinality(T) /\ Views!Falls(s, R)
        /\ \A x \in T : \E k \in 1..Len(s) : s[k] = x
    BY <1>5 DEF Views!Lined
  <1>7. q \in Seq(E) /\ Views!Sifts(q, s, Ended(ledger))
    BY <1>1, <1>4, <1>6, Views!FilterElements
  <1>8. Views!Falls(q, R)
    BY <1>4, <1>6, Views!FilterFalls
  <1>9. ASSUME NEW x \in E PROVE \E j \in 1..Len(q) : q[j] = x
    <2>1. x \in T /\ x \in Ended(ledger)
      BY <1>1
    <2>2. PICK k \in 1..Len(s) : s[k] = x
      BY <1>6, <2>1
    <2>. QED BY <1>7, <2>1, <2>2 DEF Views!Sifts
  <1>10. Len(q) \in Nat /\ Views!Lined(q, E, R, Len(q))
    BY <1>7, <1>8, <1>9, LenProperties DEF Views!Lined
  <1>11. Cardinality(E) = Len(q)
    BY <1>3, <1>10, Views!LinedCount, FiniteViews
  <1>12. Views!Lined(q, E, R, Cardinality(E))
    BY <1>10, <1>11
  <1>. QED BY <1>3, <1>12 DEF E, R, T, q

\* The run reaches n when the last n closes of the day were losses.
LastLost(ledger, ids, n) ==
    \A i \in ids : Cardinality({j \in ids : Earlier(ledger, i, j)}) < n => ledger[i].pnl[1] < 0

\* This is what the governor's run says.
LEMMA RunIs ==
    ASSUME NEW ledger, Ledger(ledger), NEW day, NEW n \in 1..Cardinality(TodaysEnded(ledger, day))
    PROVE  Run(ledger, day) >= n <=> LastLost(ledger, TodaysEnded(ledger, day), n)
  <1>. DEFINE E == TodaysEnded(ledger, day)
              R == ByClock(ledger, Todays(ledger, day))
              q == Closed(ledger, day)
              m == Cardinality(E)
              stops == {k \in DOMAIN q : ledger[q[k]].pnl[1] >= 0}
  <1>1. m \in Nat /\ E \subseteq DOMAIN ledger /\ E \subseteq Ended(ledger)
    <2>1. E \in SUBSET DOMAIN ledger /\ E \subseteq Ended(ledger)
      BY DEF TodaysEnded, Todays
    <2>. HIDE DEF E
    <2>. QED BY <2>1, RowsAreFinite
  <1>2. Views!Linear(R, E) /\ Views!Lined(q, E, R, m)
    BY ClosedLine
  <1>3. q \in Seq(E) /\ DOMAIN q = 1..m /\ Len(q) = m /\ \A x \in E : \E k \in 1..m : q[k] = x
    BY <1>2, LenProperties DEF Views!Lined
  <1>4. \A x, y \in E : <<x, y>> \in R <=> Earlier(ledger, x, y)
    BY DEF ByClock, TodaysEnded
  <1>5. Run(ledger, day) = IF stops = {} THEN m ELSE m - Max(stops)
    BY <1>3 DEF Run
  <1>. HIDE DEF R, q, E
  <1>6. ASSUME NEW k \in 1..m
        PROVE  /\ q[k] \in E /\ Cardinality({j \in E : Earlier(ledger, q[k], j)}) = m - k
               /\ ledger[q[k]].pnl[1] \in Int
    <2>1. q[k] \in E
      BY <1>3, ElementOfSeq
    <2>2. {j \in E : Earlier(ledger, q[k], j)} = {j \in E : <<q[k], j>> \in R}
      BY <1>4, <2>1
    <2>3. Views!Cardinality({j \in E : <<q[k], j>> \in R}) = m - k
      BY <1>1, <1>2, Views!LinedBehind
    <2>. QED BY <1>1, <2>1, <2>2, <2>3, FiniteViews, RowFacts
  <1>. HIDE DEF m
  <1>7. LastLost(ledger, E, n) <=> \A k \in 1..m : m - k < n => ledger[q[k]].pnl[1] < 0
    <2>1. ASSUME \A k \in 1..m : m - k < n => ledger[q[k]].pnl[1] < 0,
                 NEW i \in E, Cardinality({j \in E : Earlier(ledger, i, j)}) < n
          PROVE  ledger[i].pnl[1] < 0
      <3>1. PICK k \in 1..m : q[k] = i
        BY <1>3
      <3>2. Cardinality({j \in E : Earlier(ledger, q[k], j)}) = m - k
        BY <1>6
      <3>. QED BY <2>1, <3>1, <3>2
    <2>2. ASSUME LastLost(ledger, E, n), NEW k \in 1..m, m - k < n
          PROVE  ledger[q[k]].pnl[1] < 0
      <3>1. q[k] \in E /\ Cardinality({j \in E : Earlier(ledger, q[k], j)}) < n
        BY <1>6, <2>2
      <3>. QED BY <2>2, <3>1 DEF LastLost
    <2>. QED BY <2>1, <2>2 DEF LastLost
  <1>8. \A k \in 1..m : (k \in stops) <=> ~(ledger[q[k]].pnl[1] < 0)
    <2>1. ASSUME NEW k \in 1..m PROVE (k \in stops) <=> ~(ledger[q[k]].pnl[1] < 0)
      <3>1. (k \in stops) <=> ledger[q[k]].pnl[1] >= 0
        BY <1>3
      <3>2. ledger[q[k]].pnl[1] \in Int
        BY <1>6
      <3>. QED BY <3>1, <3>2
    <2>. QED BY <2>1
  <1>9. stops \subseteq 1..m
    BY <1>3
  <1>. HIDE DEF stops
  <1>10. LastLost(ledger, E, n) <=> \A k \in stops : k <= m - n
    <2>1. n \in Nat /\ m \in Nat
      BY <1>1 DEF m, E
    <2>2. \A k \in 1..m : m - k < n <=> ~(k <= m - n)
      BY <2>1
    <2>. QED BY <1>7, <1>8, <1>9, <2>2
  <1>11. n \in 1..m
    BY DEF m, E
  <1>12. CASE stops = {}
    BY <1>1, <1>5, <1>10, <1>11, <1>12 DEF E
  <1>13. CASE stops # {}
    <2>1. Views!Max(stops) \in stops /\ \A k \in stops : k <= Views!Max(stops)
      <3>1. 1 \in Int /\ m \in Int
        BY <1>1
      <3>. QED BY <1>9, <1>13, <3>1, Views!MaxIs
    <2>2. Max(stops) = Views!Max(stops)
      BY DEF Max, Views!Max
    <2>3. PICK t : t = Max(stops)
      OBVIOUS
    <2>4. t \in stops /\ t \in 1..m /\ \A k \in stops : k <= t
      BY <1>9, <2>1, <2>2, <2>3
    <2>a. \A k \in stops : k \in Int
      BY <1>9
    <2>5. Run(ledger, day) = m - t
      BY <1>5, <1>13, <2>3
    <2>6. (\A k \in stops : k <= m - n) <=> t <= m - n
      BY <1>1, <1>11, <2>4, <2>a
    <2>. QED BY <1>1, <1>10, <1>11, <2>4, <2>5, <2>6 DEF E
  <1>. QED BY <1>12, <1>13

-----------------------------------------------------------------------------
\* What had been earned by the i-th row's close.
BankedBy(ledger, i) == Earned(ledger, {j \in Ended(ledger) : ~Earlier(ledger, i, j)})

\* The line of completed trades, and what it sums up to.
PnlAt(ledger) == [i \in Ended(ledger) |-> ledger[i].pnl[1]]

\* The page's list is the line of the ended rows, and what it sums up to is the sum
\* of those not behind.
LEMMA CompletedSums ==
    ASSUME NEW ledger, Ledger(ledger)
    PROVE  LET E == Ended(ledger)
               R == ByCompletion(ledger, E)
           IN  /\ Cardinality(E) \in Nat /\ Views!Linear(R, E)
               /\ Views!Lined(Completed(ledger), E, R, Cardinality(E))
               /\ Views!SumsUp(PnlAt(ledger), Completed(ledger), E, R, Cardinality(E))
  <1>. DEFINE E == Ended(ledger)
              R == ByCompletion(ledger, E)
              f == PnlAt(ledger)
  <1>1. E \in SUBSET DOMAIN ledger
    BY DEF Ended
  <1>2. IsFiniteSet(E) /\ Cardinality(E) \in Nat /\ Views!IsFiniteSet(E)
    <2>. HIDE DEF E
    <2>. QED BY <1>1, RowsAreFinite, FiniteViews
  <1>3. Views!Linear(R, E)
    BY CompletionLine
  <1>4. Completed(ledger) = Views!Sorted(E, R)
    BY SortViews DEF Completed, ByCompletion
  <1>5. \A i \in E : f[i] = ledger[i].pnl[1] /\ f[i] \in Int
    BY RowFacts DEF PnlAt
  <1>. HIDE DEF E, R, f
  <1>6. Views!Lined(Completed(ledger), E, R, Cardinality(E))
    BY <1>2, <1>3, <1>4, Views!SortedIs, FiniteViews
  <1>7. Views!SumsUp(f, Completed(ledger), E, R, Cardinality(E))
    BY <1>2, <1>3, <1>5, <1>6, Views!LinedSums
  <1>. QED BY <1>2, <1>3, <1>6, <1>7 DEF E, R, f

\* A greatest element is the Max.
LEMMA MaxOf ==
    ASSUME NEW S, S \subseteq Int, NEW w \in S, \A x \in S : x <= w
    PROVE  Max(S) = w
  <1>1. Max(S) \in S /\ \A x \in S : Max(S) >= x
    <2>1. \E m \in S : \A x \in S : m >= x
      <3>1. \A x \in S : w >= x
        OBVIOUS
      <3>. QED BY <3>1
    <2>. QED BY <2>1 DEF Max
  <1>2. PICK m \in Int : m = Max(S)
    BY <1>1
  <1>3. m >= w /\ m <= w /\ w \in Int
    BY <1>1, <1>2
  <1>. QED BY <1>2, <1>3

\* One pass over the completed trades ends with the deepest fall of the curve of what
\* they sum up to.
Summed(ledger) ==
    [k \in 0..Cardinality(Ended(ledger)) |-> Views!UpTo(PnlAt(ledger), Completed(ledger), k)]

\* What one trade more does to cum, peak and fall.
LEMMA BookedFields ==
    ASSUME NEW e, NEW x
    PROVE  LET b == Booked(e, x)
           IN  /\ b.cum = e.cum + x
               /\ b.peak = IF b.cum > e.peak THEN b.cum ELSE e.peak
               /\ b.fall = IF b.peak - b.cum > e.fall THEN b.peak - b.cum ELSE e.fall
  BY DEF Booked

\* The drawdown of the page is the deepest fall of that curve.
LEMMA EquityIs ==
    ASSUME NEW ledger, Ledger(ledger)
    PROVE  Views!DeepestFall(Summed(ledger), Cardinality(Ended(ledger)),
                             Equity(PnlsOf(ledger, Completed(ledger))).fall)
  <1>. DEFINE E == Ended(ledger)
              n == Cardinality(E)
              q == Completed(ledger)
              f == PnlAt(ledger)
              curve == Summed(ledger)
              pnls == PnlsOf(ledger, q)
              base == [curve |-> <<>>, cum |-> 0, peak |-> 0, fall |-> 0]
  <1>1. /\ n \in Nat /\ Views!Lined(q, E, ByCompletion(ledger, E), n)
        /\ Views!SumsUp(f, q, E, ByCompletion(ledger, E), n)
    BY CompletedSums
  <1>2. \A k \in 0..n : curve[k] = Views!UpTo(f, q, k)
    BY DEF Summed
  <1>3. /\ curve[0] = 0
        /\ \A k \in 0..n : curve[k] \in Int
        /\ \A k \in 1..n : curve[k] = curve[k - 1] + f[q[k]]
    <2>. HIDE DEF curve, q, f, n, E
    <2>1. \A k \in 1..n : k \in 0..n /\ k - 1 \in 0..n
      BY <1>1
    <2>2. 0 \in 0..n
      BY <1>1
    <2>. QED BY <1>1, <1>2, <2>1, <2>2 DEF Views!SumsUp
  <1>4. DOMAIN q = 1..n /\ \A k \in 1..n : q[k] \in E
    BY <1>1, LenProperties, ElementOfSeq DEF Views!Lined
  <1>5. DOMAIN pnls = 1..n /\ \A k \in 1..n : pnls[k] = f[q[k]] /\ pnls[k] \in Int
    <2>. HIDE DEF n, q, E
    <2>1. DOMAIN pnls = 1..n /\ \A k \in 1..n : pnls[k] = ledger[q[k]].pnl[1]
      BY <1>4 DEF PnlsOf
    <2>2. \A i \in E : f[i] = ledger[i].pnl[1] /\ ledger[i].pnl[1] \in Int
      BY RowFacts DEF PnlAt, E
    <2>. QED BY <1>4, <2>1, <2>2
  <1>. HIDE DEF n, q, E, f, curve, pnls
  <1>6. PICK run : Views!Through(run, base, pnls, n)
    BY <1>1, <1>5, Views!FoldRuns
  <1>7. /\ run[0] = base
        /\ \A k \in 1..n : run[k] = Booked(run[k - 1], pnls[k])
        /\ Views!Folded(base, pnls) = run[n]
    BY <1>6 DEF Views!Through
  <1>8. Equity(pnls) = run[n]
    <2>1. Equity(pnls) = Views!Folded(base, pnls)
      BY DEF Equity, Views!Folded, FoldLeft, Views!FoldLeft, MapThenFoldSet,
             Views!MapThenFoldSet, Max, Views!Max
    <2>. QED BY <1>7, <2>1
  <1>. HIDE DEF base
  <1>9. \A k \in 1..n :
          /\ run[k].cum = run[k - 1].cum + pnls[k]
          /\ run[k].peak = IF run[k].cum > run[k - 1].peak THEN run[k].cum ELSE run[k - 1].peak
          /\ run[k].fall = IF run[k].peak - run[k].cum > run[k - 1].fall
                           THEN run[k].peak - run[k].cum ELSE run[k - 1].fall
    BY <1>7, BookedFields
  <1>10. \A k \in 0..n : run[k].cum = curve[k]
    <2>. DEFINE G == {k \in Nat : k <= n => run[k].cum = curve[k]}
    <2>1. 0 \in G
      BY <1>3, <1>7 DEF base
    <2>2. ASSUME NEW k \in Nat, k \in G PROVE k + 1 \in G
      <3>. SUFFICES ASSUME k + 1 <= n PROVE run[k + 1].cum = curve[k + 1]
        OBVIOUS
      <3>1. k + 1 \in 1..n /\ (k + 1) - 1 = k /\ k <= n
        BY <1>1
      <3>. QED BY <1>3, <1>5, <1>9, <2>2, <3>1
    <2>3. Nat \subseteq G
      <3>. HIDE DEF G
      <3>. QED BY <2>1, <2>2, Views!NatInduct
    <2>. QED BY <1>1, <2>3
  <1>. DEFINE peak == [k \in 0..n |-> run[k].peak]
              fall == [k \in 0..n |-> run[k].fall]
  <1>11. Views!Passing(curve, peak, fall, n)
    <2>1. \A k \in 0..n : peak[k] = run[k].peak /\ fall[k] = run[k].fall
      OBVIOUS
    <2>. HIDE DEF peak, fall
    <2>2. 0 \in 0..n /\ \A k \in 1..n : k \in 0..n /\ k - 1 \in 0..n
      BY <1>1
    <2>3. peak[0] = curve[0] /\ fall[0] = 0
      BY <1>3, <1>7, <2>1, <2>2 DEF base
    <2>4. ASSUME NEW k \in 1..n
          PROVE  /\ peak[k] = IF curve[k] > peak[k - 1] THEN curve[k] ELSE peak[k - 1]
                 /\ fall[k] = IF peak[k] - curve[k] > fall[k - 1] THEN peak[k] - curve[k]
                              ELSE fall[k - 1]
      BY <1>9, <1>10, <2>1, <2>2
    <2>. QED BY <1>3, <2>3, <2>4 DEF Views!Passing
  <1>12. fall[n] = run[n].fall
    BY <1>1
  <1>. HIDE DEF peak, fall
  <1>13. Views!DeepestFall(curve, n, fall[n])
    BY <1>1, <1>11, Views!FallIs
  <1>. QED BY <1>8, <1>12, <1>13 DEF n, q, E, curve, pnls

\* The curve at the k-th close is what had been earned by it.
LEMMA BankedIs ==
    ASSUME NEW ledger, Ledger(ledger), NEW k \in 1..Cardinality(Ended(ledger))
    PROVE  /\ Completed(ledger)[k] \in Ended(ledger)
           /\ BankedBy(ledger, Completed(ledger)[k]) = Summed(ledger)[k]
  <1>. DEFINE E == Ended(ledger)
              R == ByCompletion(ledger, E)
              n == Cardinality(E)
              q == Completed(ledger)
              f == PnlAt(ledger)
              i == q[k]
              past == {j \in E : ~Earlier(ledger, i, j)}
              own == [j \in past |-> ledger[j].pnl[1]]
  <1>1. n \in Nat /\ Views!Linear(R, E) /\ Views!Lined(q, E, R, n) /\ Views!SumsUp(f, q, E, R, n)
    BY CompletedSums
  <1>2. i \in E
    BY <1>1, ElementOfSeq DEF Views!Lined
  <1>3. past = {j \in E : <<i, j>> \notin R}
    <2>1. \A j \in E : CompletedBefore(ledger, i, j) <=> Earlier(ledger, i, j)
      BY <1>2, EarlierFacts
    <2>. QED BY <1>2, <2>1 DEF ByCompletion
  <1>4. \A j \in past : own[j] = f[j] /\ f[j] \in Int
    BY RowFacts DEF PnlAt
  <1>5. IsFiniteSet(past)
    <2>1. past \in SUBSET DOMAIN ledger
      BY DEF Ended
    <2>. HIDE DEF past
    <2>. QED BY <2>1, RowsAreFinite
  <1>6. BankedBy(ledger, i) = Views!Total(own, past)
    BY TotalViews DEF BankedBy, Earned
  <1>7. Summed(ledger)[k] = Views!UpTo(f, q, k)
    <2>1. k \in 0..n
      BY <1>1
    <2>. QED BY <2>1 DEF Summed
  <1>. HIDE DEF own, past, E, R, n, q, f, i
  <1>8. Views!Total(own, past) = Views!Total(f, past)
    <2>1. Views!Numbers(f, past)
      BY <1>4, <1>5, FiniteViews DEF Views!Numbers
    <2>. QED BY <1>4, <2>1, Views!SumSame
  <1>9. Views!UpTo(f, q, k) = Views!Total(f, {j \in E : <<i, j>> \notin R})
    BY <1>1 DEF Views!SumsUp, i, n, E
  <1>. QED BY <1>2, <1>3, <1>6, <1>7, <1>8, <1>9 DEF i, q, E

\* Both together.
LEMMA DeskByTheClock ==
    ASSUME ViewInv
    PROVE  RunByTheClock
  <1>. DEFINE ended == Ended(book)
              todays == ended \cap Todays(book, now[1])
              After(i, j) == \/ Before(book[j].exited, book[i].exited)
                             \/ book[i].exited = book[j].exited /\ j < i
              LastOnes(n) == {i \in todays : Cardinality({j \in todays : After(j, i)}) < n}
              By(i) == Earned(book, {j \in ended : ~After(j, i)})
              falls == {-By(i) : i \in ended} \cup
                       {By(p[1]) - By(p[2]) : p \in {q \in ended \X ended : ~After(q[1], q[2])}}
  <1>a. Ledger(book)
    BY DEF ViewInv
  <1>b. \A i, j : After(i, j) <=> Earlier(book, j, i)
    BY DEF Earlier
  <1>. HIDE DEF After
  <1>1. ASSUME NEW n \in 1..Cardinality(todays)
        PROVE  (Run(book, now[1]) >= n) <=> \A i \in LastOnes(n) : book[i].pnl[1] < 0
    <2>1. \A i : {j \in todays : After(j, i)} = {j \in todays : Earlier(book, i, j)}
      BY <1>b
    <2>2. LastLost(book, todays, n) <=> \A i \in LastOnes(n) : book[i].pnl[1] < 0
      BY <2>1 DEF LastLost
    <2>3. todays = TodaysEnded(book, now[1])
      BY DEF TodaysEnded
    <2>. QED BY <2>2, <2>3, RunIs, <1>a
  <1>2. PICK w : w = Equity(PnlsOf(book, Completed(book))).fall
    OBVIOUS
  <1>3. PICK n : n = Cardinality(ended)
    OBVIOUS
  <1>4. PICK q : q = Completed(book)
    OBVIOUS
  <1>5. PICK curve : curve = Summed(book)
    OBVIOUS
  <1>6. Views!DeepestFall(curve, n, w)
    BY <1>2, <1>3, <1>5, EquityIs, <1>a
  <1>7. n \in Nat /\ curve[0] = 0 /\ \A k \in 0..n : curve[k] \in Int
    <2>1. n \in Nat /\ Views!SumsUp(PnlAt(book), q, ended, ByCompletion(book, ended), n)
      BY <1>3, <1>4, CompletedSums, <1>a
    <2>2. 0 \in 0..n
      BY <2>1
    <2>3. \A k \in 0..n : curve[k] = Views!UpTo(PnlAt(book), q, k)
      BY <1>3, <1>4, <1>5 DEF Summed
    <2>. HIDE DEF ended
    <2>. QED BY <2>1, <2>2, <2>3 DEF Views!SumsUp
  <1>8. \A k \in 1..n : q[k] \in ended /\ By(q[k]) = curve[k]
    <2>1. \A i : By(i) = BankedBy(book, i)
      <3>. SUFFICES ASSUME NEW i PROVE By(i) = BankedBy(book, i)
        OBVIOUS
      <3>1. {j \in ended : ~After(j, i)} = {j \in ended : ~Earlier(book, i, j)}
        BY <1>b
      <3>. QED BY <3>1 DEF BankedBy
    <2>. QED BY <1>3, <1>4, <1>5, <2>1, BankedIs, <1>a
  <1>9. /\ \A i \in ended : \E k \in 1..n : q[k] = i
        /\ \A a, b \in 1..n : ~After(q[a], q[b]) <=> a <= b
    <2>1. /\ Views!Lined(q, ended, ByCompletion(book, ended), n)
          /\ Views!InOrder(q, ended, ByCompletion(book, ended), n)
      BY <1>3, <1>4, <1>7, CompletedSums, <1>a, Views!LinedInOrder
    <2>2. ASSUME NEW a \in 1..n, NEW b \in 1..n PROVE After(q[a], q[b]) <=> b < a
      <3>1. q[a] \in ended /\ q[b] \in ended
        BY <1>8
      <3>2. <<q[b], q[a]>> \in ByCompletion(book, ended) <=> Earlier(book, q[b], q[a])
        BY <3>1, EarlierFacts, <1>a DEF ByCompletion
      <3>3. <<q[b], q[a]>> \in ByCompletion(book, ended) <=> b < a
        BY <2>1 DEF Views!InOrder
      <3>. QED BY <1>b, <3>2, <3>3
    <2>3. \A a, b \in 1..n : a <= b <=> ~(b < a)
      BY <1>7
    <2>. QED BY <2>1, <2>2, <2>3 DEF Views!Lined
  <1>. HIDE DEF ended, By
  <1>10. ASSUME NEW x \in falls
         PROVE  \E a, b \in 0..n : a <= b /\ x = curve[a] - curve[b]
    <2>1. CASE \E i \in ended : x = -By(i)
      <3>1. PICK i \in ended : x = -By(i)
        BY <2>1
      <3>2. PICK k \in 1..n : q[k] = i
        BY <1>9
      <3>3. 0 \in 0..n /\ k \in 0..n /\ 0 <= k /\ By(i) = curve[k] /\ curve[k] \in Int
        BY <1>7, <1>8, <3>2
      <3>4. x = curve[0] - curve[k]
        BY <1>7, <3>1, <3>3
      <3>. QED BY <3>3, <3>4
    <2>2. CASE \E p \in {r \in ended \X ended : ~After(r[1], r[2])} : x = By(p[1]) - By(p[2])
      <3>1. PICK i \in ended, j \in ended : ~After(i, j) /\ x = By(i) - By(j)
        BY <2>2
      <3>2. PICK a \in 1..n, b \in 1..n : q[a] = i /\ q[b] = j
        BY <1>9
      <3>3. a <= b /\ x = curve[a] - curve[b] /\ a \in 0..n /\ b \in 0..n
        BY <1>7, <1>8, <1>9, <3>1, <3>2
      <3>. QED BY <3>3
    <2>. QED BY <2>1, <2>2
  <1>11. ASSUME NEW a \in 0..n, NEW b \in 0..n, a <= b
         PROVE  curve[a] - curve[b] \in {0} \cup falls
    <2>1. CASE b = 0
      <3>1. a = 0
        BY <1>7, <1>11, <2>1
      <3>. QED BY <1>7, <2>1, <3>1
    <2>2. CASE a = 0 /\ b # 0
      <3>1. b \in 1..n /\ curve[b] \in Int
        BY <1>7, <2>2
      <3>2. q[b] \in ended /\ curve[a] - curve[b] = -By(q[b])
        BY <1>7, <1>8, <2>2, <3>1
      <3>. QED BY <3>2
    <2>3. CASE a # 0
      <3>1. a \in 1..n /\ b \in 1..n
        BY <1>7, <1>11, <2>3
      <3>2. q[a] \in ended /\ q[b] \in ended /\ ~After(q[a], q[b])
            /\ curve[a] - curve[b] = By(q[a]) - By(q[b])
        BY <1>8, <1>9, <1>11, <3>1
      <3>3. <<q[a], q[b]>> \in {r \in ended \X ended : ~After(r[1], r[2])}
        BY <3>2
      <3>. QED BY <3>2, <3>3
    <2>. QED BY <2>1, <2>2, <2>3
  <1>. HIDE DEF falls
  <1>12. \A a, b \in 0..n : a <= b => curve[a] - curve[b] <= w
    BY <1>6 DEF Views!DeepestFall
  <1>13. w \in {0} \cup falls
    <2>1. PICK a, b \in 0..n : a <= b /\ w = curve[a] - curve[b]
      BY <1>6 DEF Views!DeepestFall
    <2>. QED BY <1>11, <2>1
  <1>14. ASSUME NEW x \in {0} \cup falls PROVE x \in Int /\ x <= w
    <2>1. PICK a, b \in 0..n : a <= b /\ x = curve[a] - curve[b]
      <3>1. CASE x = 0
        <4>1. 0 \in 0..n /\ x = curve[0] - curve[0]
          BY <1>7, <3>1
        <4>. QED BY <4>1
      <3>2. CASE x \in falls
        BY <1>10, <3>2
      <3>. QED BY <3>1, <3>2
    <2>2. x \in Int
      BY <1>7, <2>1
    <2>. QED BY <1>12, <2>1, <2>2
  <1>15. w = Max({0} \cup falls)
    BY <1>13, <1>14, MaxOf
  <1>. QED BY <1>1, <1>2, <1>15 DEF falls, By, ended, After, RunByTheClock

\* For every instance the losing run and the drawdown are read off the clock, in
\* whatever order trades were entered or imported.
THEOREM RunClock == ViewSpec => []RunByTheClock
  BY ViewInvHolds, DeskByTheClock, PTL

-----------------------------------------------------------------------------
\* The run is no longer than what ended today.
LEMMA RunBound ==
    ASSUME NEW ledger, Ledger(ledger), NEW day
    PROVE  Run(ledger, day) \in Int /\ Run(ledger, day) <= Cardinality(TodaysEnded(ledger, day))
  <1>. DEFINE q == Closed(ledger, day)
              m == Cardinality(TodaysEnded(ledger, day))
              stops == {k \in DOMAIN q : ledger[q[k]].pnl[1] >= 0}
  <1>1. m \in Nat
    <2>1. TodaysEnded(ledger, day) \in SUBSET DOMAIN ledger
      BY DEF TodaysEnded, Ended
    <2>. QED BY <2>1, RowsAreFinite
  <1>2. Len(q) = m /\ DOMAIN q = 1..m
    BY ClosedLine, LenProperties DEF Views!Lined
  <1>3. Run(ledger, day) = IF stops = {} THEN m ELSE m - Max(stops)
    BY <1>2 DEF Run
  <1>4. stops \subseteq 1..m
    BY <1>2
  <1>. HIDE DEF stops, m
  <1>5. ASSUME stops # {} PROVE Max(stops) \in 1..m
    <2>1. 1 \in Int /\ m \in Int
      BY <1>1
    <2>2. Views!Max(stops) \in stops
      BY <1>4, <1>5, <2>1, Views!MaxIs
    <2>3. Max(stops) = Views!Max(stops)
      BY DEF Max, Views!Max
    <2>. QED BY <1>4, <2>2, <2>3
  <1>6. Run(ledger, day) \in Int /\ Run(ledger, day) <= m
    <2>1. CASE stops = {}
      BY <1>1, <1>3, <2>1
    <2>2. CASE stops # {}
      BY <1>1, <1>3, <1>5, <2>2
    <2>. QED BY <2>1, <2>2
  <1>. QED BY <1>6 DEF m

\* From one book to the other nothing of the day is lost, and at most one loss comes in.
OneMoreLoss(b, c, day) ==
    LET E == TodaysEnded(b, day)
        F == TodaysEnded(c, day)
    IN  /\ Todays(b, day) \subseteq Todays(c, day)
        /\ \A i \in E : c[i].exited = b[i].exited /\ c[i].pnl = b[i].pnl
        /\ \/ F = E
           \/ \E x \in DOMAIN c : x \notin E /\ F = E \cup {x} /\ c[x].pnl[1] < 0

\* A loss more does not raise the day's P&L.
LEMMA PnlFalls ==
    ASSUME NEW b, NEW c, Ledger(b), Ledger(c), NEW day, OneMoreLoss(b, c, day)
    PROVE  DayPnl(b, day) \in Int /\ DayPnl(c, day) \in Int /\ DayPnl(c, day) <= DayPnl(b, day)
  <1>. DEFINE E == TodaysEnded(b, day)
              F == TodaysEnded(c, day)
              f == [i \in E |-> b[i].pnl[1]]
              h == [i \in F |-> c[i].pnl[1]]
  <1>1. DayPnl(b, day) = Views!Total(f, E) /\ DayPnl(c, day) = Views!Total(h, F)
    <2>1. E = Todays(b, day) \cap Ended(b) /\ F = Todays(c, day) \cap Ended(c)
      BY DEF TodaysEnded
    <2>. QED BY <2>1, TotalViews DEF DayPnl, Earned
  <1>2. E \subseteq DOMAIN b /\ F \subseteq DOMAIN c /\ E \subseteq Ended(b) /\ F \subseteq Ended(c)
    BY DEF TodaysEnded, Ended
  <1>. HIDE DEF E, F
  <1>3. /\ \A i \in E : f[i] = b[i].pnl[1] /\ f[i] \in Int
        /\ \A i \in F : h[i] = c[i].pnl[1] /\ h[i] \in Int
    BY <1>2, RowFacts
  <1>4. Views!IsFiniteSet(E) /\ Views!IsFiniteSet(F)
    BY <1>2, RowsAreFinite, FiniteViews
  <1>. HIDE DEF f, h
  <1>5. Views!Numbers(f, E) /\ Views!Numbers(h, F)
    BY <1>3, <1>4 DEF Views!Numbers
  <1>6. Views!Total(f, E) \in Int /\ Views!Total(h, F) \in Int
    BY <1>5, Views!SumAdd
  <1>7. /\ E \subseteq F
        /\ \A i \in E : c[i].pnl = b[i].pnl
        /\ F = E \/ \E x \in DOMAIN c : x \notin E /\ F = E \cup {x} /\ c[x].pnl[1] < 0
    BY DEF OneMoreLoss, E, F
  <1>8. Views!Total(h, E) = Views!Total(f, E)
    <2>1. \A i \in E : h[i] = f[i]
      BY <1>3, <1>7
    <2>. QED BY <1>5, <2>1, Views!SumSame
  <1>9. CASE F = E
    BY <1>1, <1>6, <1>8, <1>9
  <1>10. CASE \E x \in DOMAIN c : x \notin E /\ F = E \cup {x} /\ c[x].pnl[1] < 0
    <2>1. PICK x \in DOMAIN c : x \notin E /\ F = E \cup {x} /\ c[x].pnl[1] < 0
      BY <1>10
    <2>2. h[x] \in Int /\ h[x] < 0
      BY <1>3, <2>1
    <2>3. Views!Numbers(h, E)
      BY <1>3, <1>4, <1>7 DEF Views!Numbers
    <2>4. Views!Total(h, E \cup {x}) = Views!Total(h, E) + h[x]
      BY <2>1, <2>2, <2>3, Views!SumInsert
    <2>5. Views!Total(h, F) = Views!Total(f, E) + h[x]
      BY <1>8, <2>1, <2>4
    <2>. QED BY <1>1, <1>6, <2>2, <2>5
  <1>. QED BY <1>7, <1>9, <1>10

\* Nor does it break a run: the last closes are among those that were last, or it.
LEMMA RunStays ==
    ASSUME NEW b, NEW c, Ledger(b), Ledger(c), NEW day, OneMoreLoss(b, c, day),
           NEW n \in Nat, n > 0, Run(b, day) >= n
    PROVE  Run(c, day) >= n
  <1>. DEFINE E == TodaysEnded(b, day)
              F == TodaysEnded(c, day)
  <1>1. E \in SUBSET DOMAIN b /\ F \in SUBSET DOMAIN c
    BY DEF TodaysEnded, Ended
  <1>2. /\ E \subseteq F
        /\ \A i \in E : c[i].exited = b[i].exited /\ c[i].pnl = b[i].pnl
        /\ \A i \in F : i \in E \/ c[i].pnl[1] < 0
    BY DEF OneMoreLoss
  <1>3. n <= Cardinality(E)
    BY RunBound, <1>1, RowsAreFinite
  <1>. HIDE DEF E, F
  <1>4. /\ IsFiniteSet(E) /\ IsFiniteSet(F) /\ Cardinality(E) \in Nat /\ Cardinality(F) \in Nat
        /\ Cardinality(E) <= Cardinality(F)
    BY <1>1, <1>2, RowsAreFinite, FS_Subset
  <1>5. n \in 1..Cardinality(E) /\ n \in 1..Cardinality(F)
    BY <1>3, <1>4
  <1>6. LastLost(b, E, n)
    BY <1>5, RunIs DEF E
  <1>7. ASSUME NEW i \in F, Cardinality({j \in F : Earlier(c, i, j)}) < n
        PROVE  c[i].pnl[1] < 0
    <2>1. CASE i \in E
      <3>. DEFINE A == {j \in E : Earlier(b, i, j)}
                  B == {j \in F : Earlier(c, i, j)}
      <3>1. A \subseteq B
        BY <1>2, <2>1 DEF Earlier
      <3>2. IsFiniteSet(B) /\ Cardinality(B) \in Nat /\ IsFiniteSet(A) /\ Cardinality(A) \in Nat
        <4>1. A \in SUBSET E /\ B \in SUBSET F
          OBVIOUS
        <4>. HIDE DEF A, B
        <4>. QED BY <1>4, <4>1, FS_Subset, FS_CardinalityType
      <3>. HIDE DEF A, B
      <3>3. Cardinality(A) <= Cardinality(B)
        BY <3>1, <3>2, FS_Subset
      <3>4. Cardinality(A) < n
        BY <1>7, <3>2, <3>3 DEF B
      <3>. QED BY <1>2, <1>6, <2>1, <3>4 DEF LastLost, A
    <2>. QED BY <1>2, <2>1
  <1>8. LastLost(c, F, n)
    BY <1>7 DEF LastLost
  <1>. QED BY <1>5, <1>8, RunIs DEF F

\* So a closed desk stays closed.
LEMMA RulingStays ==
    ASSUME NEW b, NEW c, Ledger(b), Ledger(c), NEW day, OneMoreLoss(b, c, day),
           Ruling(b, day) = "closed"
    PROVE  Ruling(c, day) = "closed"
  <1>. DEFINE Shut(ledger) ==
                 \/ Cap > 0 /\ DayPnl(ledger, day) <= -Cap
                 \/ DayTrades > 0 /\ Cardinality(Todays(ledger, day)) >= DayTrades
                 \/ LossRun > 0 /\ Run(ledger, day) >= LossRun
  <1>1. \A ledger : Ruling(ledger, day) = "closed" <=> Shut(ledger)
    BY DEF Ruling
  <1>2. Cap \in Int /\ DayTrades \in Nat /\ LossRun \in Nat
    BY ViewAssumption
  <1>3. CASE Cap > 0 /\ DayPnl(b, day) <= -Cap
    BY <1>1, <1>2, <1>3, PnlFalls
  <1>4. CASE DayTrades > 0 /\ Cardinality(Todays(b, day)) >= DayTrades
    <2>1. Todays(b, day) \in SUBSET DOMAIN b /\ Todays(c, day) \in SUBSET DOMAIN c
          /\ Todays(b, day) \subseteq Todays(c, day)
      BY DEF Todays, OneMoreLoss
    <2>2. IsFiniteSet(Todays(c, day)) /\ Cardinality(Todays(c, day)) \in Nat
          /\ Cardinality(Todays(b, day)) \in Nat
      BY <2>1, RowsAreFinite
    <2>3. Cardinality(Todays(b, day)) <= Cardinality(Todays(c, day))
      BY <2>1, <2>2, FS_Subset
    <2>. QED BY <1>1, <1>2, <1>4, <2>2, <2>3
  <1>5. CASE LossRun > 0 /\ Run(b, day) >= LossRun
    BY <1>1, <1>2, <1>5, RunStays
  <1>. QED BY <1>1, <1>3, <1>4, <1>5

\* Where one row at most is touched and the day keeps what it had, a loss may come in.
LEMMA KeptDay ==
    ASSUME NEW b, NEW c, Ledger(b), Ledger(c), NEW day, NEW x,
           \A i \in DOMAIN c \ {x} : i \in DOMAIN b /\ c[i] = b[i],
           Todays(b, day) \subseteq Todays(c, day),
           \A i \in TodaysEnded(b, day) : c[i].exited = b[i].exited /\ c[i].pnl = b[i].pnl,
           \A i \in TodaysEnded(c, day) \ TodaysEnded(b, day) : ~(c[i].pnl[1] >= 0)
    PROVE  OneMoreLoss(b, c, day)
  <1>. DEFINE E == TodaysEnded(b, day)
              F == TodaysEnded(c, day)
  <1>1. F \subseteq DOMAIN c /\ F \subseteq Ended(c)
    BY DEF TodaysEnded, Ended
  <1>2. E \subseteq F
    <2>. SUFFICES ASSUME NEW i \in E PROVE i \in F
      OBVIOUS
    <2>1. i \in Todays(c, day) /\ b[i].pnl # NoPnl
      BY DEF TodaysEnded, Ended
    <2>2. i \in DOMAIN c /\ c[i].pnl # NoPnl
      BY <2>1 DEF Todays
    <2>. QED BY <2>1, <2>2 DEF TodaysEnded, Ended
  <1>3. ASSUME NEW i \in F, i # x PROVE i \in E
    <2>1. i \in DOMAIN b /\ c[i] = b[i]
      BY <1>1, <1>3
    <2>. QED BY <2>1 DEF TodaysEnded, Ended, Todays
  <1>4. CASE x \in F /\ x \notin E
    <2>1. F = E \cup {x}
      BY <1>2, <1>3, <1>4
    <2>2. c[x].pnl[1] \in Int
      BY <1>1, <1>4, RowFacts
    <2>3. c[x].pnl[1] < 0 /\ x \in DOMAIN c
      BY <1>1, <1>4, <2>2
    <2>. QED BY <1>4, <2>1, <2>3 DEF OneMoreLoss
  <1>5. CASE x \notin F \/ x \in E
    <2>1. F = E
      BY <1>2, <1>3, <1>5
    <2>. QED BY <2>1 DEF OneMoreLoss
  <1>. QED BY <1>4, <1>5

\* For every instance, however many rows, whatever limits and results: within the day a
\* closed desk is reopened only by taking away one of its trades, writing over one of
\* its closes, or counting a close that did not lose.
THEOREM ClosedStays == ViewSpec => ClosedStaysClosed
  <1>1. ASSUME ViewInv, [ViewNext]_viewVars,
               Ruling(book, now[1]) = "closed", now'[1] = now[1], ~Reopens(now[1])
        PROVE  Ruling(book', now'[1]) = "closed"
    <2>1. Ledger(book) /\ Ledger(book')
      BY <1>1, OneRowAtATime DEF ViewInv
    <2>2. PICK x : \A i \in DOMAIN book' \ {x} : i \in DOMAIN book /\ book'[i] = book[i]
      BY <1>1, OneRowAtATime
    <2>3. /\ TodaysEnded(book, now[1]) = Todays(book, now[1]) \cap Ended(book)
          /\ TodaysEnded(book', now[1]) = Todays(book', now[1]) \cap Ended(book')
      BY DEF TodaysEnded
    <2>4. /\ Todays(book, now[1]) \subseteq Todays(book', now[1])
          /\ \A i \in TodaysEnded(book, now[1]) :
                book'[i].exited = book[i].exited /\ book'[i].pnl = book[i].pnl
          /\ \A i \in TodaysEnded(book', now[1]) \ TodaysEnded(book, now[1]) :
                ~(book'[i].pnl[1] >= 0)
      BY <1>1, <2>3 DEF Reopens
    <2>5. OneMoreLoss(book, book', now[1])
      BY <2>1, <2>2, <2>4, KeptDay
    <2>. QED BY <1>1, <2>1, <2>5, RulingStays
  <1>2. ViewInv /\ [ViewNext]_viewVars
        => [Ruling(book, now[1]) = "closed" /\ now'[1] = now[1] /\ ~Reopens(now[1])
            => Ruling(book', now'[1]) = "closed"]_viewVars
    BY <1>1
  <1>. QED BY <1>2, ViewInvHolds, PTL DEF ViewSpec, ClosedStaysClosed
=============================================================================
