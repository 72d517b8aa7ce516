---------------------------- MODULE JournalViews ----------------------------
(***************************************************************************)
(* What is read out of the journal: the session governor                   *)
(* (src/session_governor.rs), which rules the day's desk open, a caution   *)
(* or closed, and the performance page (src/portfolio_analytics.rs).       *)
(* Under them the journal changes as its user likes: trades are logged,    *)
(* relabelled, filled, closed and closed again, imported in any order,     *)
(* deleted and cleared.                                                    *)
(*                                                                         *)
(* A stamp is <<day, time>>, <<>> for none. "Skipped" stands for every     *)
(* decision other than Manually_Accepted.                                  *)
(***************************************************************************)
EXTENDS SeqFilter, FiniteSetsExt, SequencesExt, Functions

CONSTANTS
    LastDay, LastTime,  \* bounds: days, times of a day
    MaxTrades,          \* bound: ids
    Results,            \* P&L a trade may be closed with
    Sheet,              \* lines of statements: [entered, exited, pnl]
    Cap,                \* daily loss cap in money, DRAWDOWN_FREEZE_PCT of the pool
    DayTrades,          \* MAX_TRADES_PER_DAY
    LossRun             \* MAX_CONSECUTIVE_LOSSES

ASSUME ViewAssumption ==
    /\ {LastDay, LastTime, DayTrades, LossRun} \subseteq Nat
    /\ Results \subseteq Int /\ Cap \in Int
    /\ Sheet \subseteq [entered : Nat \X Nat, exited : Nat \X Nat, pnl : Int]

VARIABLES
    now,     \* <<day, time>>
    book,    \* the rows, by id
    lastId   \* journal_seq

viewVars == <<now, book, lastId>>

NoStamp == <<>>
NoPnl == <<>>
DayOf(stamp) == IF stamp = NoStamp THEN 0 ELSE stamp[1]

\* Stamps are compared as text, none before all others.
Before(s, t) ==
    \/ s = NoStamp /\ t # NoStamp
    \/ s # NoStamp /\ t # NoStamp /\ (s[1] < t[1] \/ (s[1] = t[1] /\ s[2] < t[2]))

ViewInit == now = <<1, 1>> /\ book = <<>> /\ lastId = 0

Decision == {"Manually_Accepted", "Skipped"}

\* A row under the next id of the sequence, which is never set back.
Insert(row) ==
    /\ lastId < MaxTrades
    /\ lastId' = lastId + 1
    /\ book' = [i \in DOMAIN book \cup {lastId'} |-> IF i = lastId' THEN row ELSE book[i]]
    /\ UNCHANGED now

\* A signal decided on: the entry is stamped when the fill comes with it.
Take(state, entered) ==
    Insert([state |-> state, entered |-> entered, exited |-> NoStamp, pnl |-> NoPnl])

\* A statement's line, with the times of its own.
ImportRow(line) ==
    Insert([state |-> "Manually_Accepted", entered |-> line.entered,
            exited |-> line.exited, pnl |-> <<line.pnl>>])

\* update_state's three statements, each of which may be the last of its request: the
\* decision, the fill, and a close, of any row and over an earlier one too.
Relabel(i, state) ==
    book' = [book EXCEPT ![i].state = state] /\ UNCHANGED <<now, lastId>>
Enter(i) == book' = [book EXCEPT ![i].entered = now] /\ UNCHANGED <<now, lastId>>
Finish(i, pnl) ==
    /\ book' = [book EXCEPT ![i].exited = now, ![i].pnl = <<pnl>>]
    /\ UNCHANGED <<now, lastId>>

Drop(i) == book' = Restrict(book, DOMAIN book \ {i}) /\ UNCHANGED <<now, lastId>>

\* Start over; an import that replaces does this first.
Wipe == book' = <<>> /\ UNCHANGED <<now, lastId>>

Pass ==
    /\ \/ now[2] < LastTime /\ now' = <<now[1], now[2] + 1>>
       \/ now[2] = LastTime /\ now[1] < LastDay /\ now' = <<now[1] + 1, 1>>
    /\ UNCHANGED <<book, lastId>>

ViewNext ==
    \/ \E state \in Decision, entered \in {NoStamp, now} : Take(state, entered)
    \/ \E line \in Sheet : ImportRow(line)
    \/ \E i \in DOMAIN book :
          \/ \E state \in Decision : Relabel(i, state)
          \/ Enter(i)
          \/ \E pnl \in Results : Finish(i, pnl)
          \/ Drop(i)
    \/ Wipe
    \/ Pass

ViewSpec == ViewInit /\ [][ViewNext]_viewVars

-----------------------------------------------------------------------------
\* evaluate: the tracked trades opened or closed today.
Todays(rows, day) ==
    {i \in DOMAIN rows : rows[i].state = "Manually_Accepted"
                         /\ day \in {DayOf(rows[i].entered), DayOf(rows[i].exited)}}

\* Mutant: in the order they were written down.
CloseOrderById(rows, day) ==
    Sorted(Todays(rows, day), {p \in Todays(rows, day) \X Todays(rows, day) : p[1] < p[2]})

\* By exit, then by id; open trades first.
Earlier(rows, i, j) ==
    Before(rows[i].exited, rows[j].exited) \/ (rows[i].exited = rows[j].exited /\ i < j)
CloseOrder(rows, day) ==
    LET ids == Todays(rows, day)
    IN  Sorted(ids, {p \in ids \X ids : Earlier(rows, p[1], p[2])})

\* The rows with a P&L, and what they earned.
Ended(rows) == {i \in DOMAIN rows : rows[i].pnl # NoPnl}
Earned(rows, ids) == SumFunctionOnSet([i \in ids |-> rows[i].pnl[1]], ids)

Closed(rows, day) == Filter(CloseOrder(rows, day), Ended(rows))

DayPnl(rows, day) == Earned(rows, Todays(rows, day) \cap Ended(rows))

\* The trailing run of losses.
Run(rows, day) ==
    LET order == Closed(rows, day)
        stops == {k \in DOMAIN order : rows[order[k]].pnl[1] >= 0}
    IN  IF stops = {} THEN Len(order) ELSE Len(order) - Max(stops)

\* Mutant: the limits are met only exactly.
RulingExact(rows, day) ==
    LET pnl == DayPnl(rows, day)
        taken == Cardinality(Todays(rows, day))
        run == Run(rows, day)
        closed == \/ Cap > 0 /\ pnl <= -Cap
                  \/ DayTrades > 0 /\ taken = DayTrades
                  \/ LossRun > 0 /\ run = LossRun
        warned == \/ Cap > 0 /\ 10 * pnl <= -(7 * Cap)
                  \/ DayTrades > 0 /\ taken + 1 >= DayTrades
                  \/ LossRun > 0 /\ run + 1 >= LossRun /\ run > 0
    IN  IF closed THEN "closed" ELSE IF warned THEN "caution" ELSE "open"

\* Each limit closes the desk or warns; closing wins. A cap of zero is none.
Ruling(rows, day) ==
    LET pnl == DayPnl(rows, day)
        taken == Cardinality(Todays(rows, day))
        run == Run(rows, day)
        closed == \/ Cap > 0 /\ pnl <= -Cap
                  \/ DayTrades > 0 /\ taken >= DayTrades
                  \/ LossRun > 0 /\ run >= LossRun
        warned == \/ Cap > 0 /\ 10 * pnl <= -(7 * Cap)
                  \/ DayTrades > 0 /\ taken + 1 >= DayTrades
                  \/ LossRun > 0 /\ run + 1 >= LossRun /\ run > 0
    IN  IF closed THEN "closed" ELSE IF warned THEN "caution" ELSE "open"

-----------------------------------------------------------------------------
\* The performance page (portfolio_analytics.rs) over all closed trades, by exit and
\* then by id; here a row without an exit comes last.
CompletedBefore(rows, i, j) ==
    \/ rows[i].exited # NoStamp
          /\ (rows[j].exited = NoStamp \/ Before(rows[i].exited, rows[j].exited))
    \/ rows[i].exited = rows[j].exited /\ i < j
Completed(rows) ==
    LET ids == Ended(rows)
    IN  Sorted(ids, {p \in ids \X ids : CompletedBefore(rows, p[1], p[2])})

\* The equity curve and its deepest fall from a peak, the start being the first.
Booked(e, x) ==
    LET cum == e.cum + x
        peak == IF cum > e.peak THEN cum ELSE e.peak
    IN  [curve |-> Append(e.curve, cum), cum |-> cum, peak |-> peak,
         fall |-> IF peak - cum > e.fall THEN peak - cum ELSE e.fall]
Equity(pnls) == FoldLeft(Booked, [curve |-> <<>>, cum |-> 0, peak |-> 0, fall |-> 0], pnls)

PnlsOf(rows, ids) == [k \in DOMAIN ids |-> rows[ids[k]].pnl[1]]

-----------------------------------------------------------------------------
\* Losing run and drawdown are read off the clock: in whatever order trades were
\* entered or imported, the desk is closed by the run when the last so many closes of
\* the day, by their exit times, were all losses, and the performance page's drawdown
\* is the deepest fall of what had been earned by one close to what had been earned by
\* a later one.
RunByTheClock ==
    LET day == now[1]
        ended == Ended(book)
        today == ended \cap Todays(book, day)
        After(i, j) == Before(book[j].exited, book[i].exited)
                       \/ (book[i].exited = book[j].exited /\ j < i)
        LastOnes(n) == {i \in today : Cardinality({j \in today : After(j, i)}) < n}
        By(i) == Earned(book, {j \in ended : ~After(j, i)})
        falls == {-By(i) : i \in ended} \cup
                 {By(p[1]) - By(p[2]) : p \in {q \in ended \X ended : ~After(q[1], q[2])}}
    IN  /\ \A n \in 1..Cardinality(today) :
              (Run(book, day) >= n) <=> \A i \in LastOnes(n) : book[i].pnl[1] < 0
        /\ Equity(PnlsOf(book, Completed(book))).fall = Max({0} \cup falls)

\* What can reopen a closed desk within the day, and nothing else does: one of the
\* day's trades goes (deleted, cleared or no longer accepted), a close of the day is
\* written over, or a trade comes to count as closed that did not lose.
Reopens(day) ==
    LET ended == Todays(book, day) \cap Ended(book)
        ended2 == Todays(book', day) \cap Ended(book')
    IN  \/ ~(Todays(book, day) \subseteq Todays(book', day))
        \/ \E i \in ended : book'[i].exited # book[i].exited \/ book'[i].pnl # book[i].pnl
        \/ \E i \in ended2 \ ended : book'[i].pnl[1] >= 0

\* So neither time nor a further entry, fill, statement or loss does, nor what becomes
\* of rows that are not the day's.
ClosedStaysClosed ==
    [][Ruling(book, now[1]) = "closed" /\ now'[1] = now[1] /\ ~Reopens(now[1])
       => Ruling(book', now'[1]) = "closed"]_viewVars
=============================================================================
