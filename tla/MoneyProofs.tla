----------------------------- MODULE MoneyProofs ----------------------------
(***************************************************************************)
(* The user's money, for every instance.                                   *)
(*                                                                         *)
(* CircuitBreaker, for any days, profits and threshold: what may freeze    *)
(* the desk and what may lift a freeze. Nothing is assumed of the sum of   *)
(* the profits but that it depends on them alone. The desk of SignalDesk   *)
(* implements it and inherits both facts.                                  *)
(*                                                                         *)
(* Holdings, for any statement and archives: the book has the lots of the  *)
(* statement and nothing else, every view of it adds up to it, and a       *)
(* rotation spends no more than the shares it sells bring in.              *)
(*                                                                         *)
(* Planner, for any archive, horizon and capital: shares are bought from   *)
(* the capital until not one more can be. Portfolio joins the two.         *)
(***************************************************************************)
EXTENDS SignalDesk, Portfolio, SequenceTheorems, FiniteSetTheorems, TLAPS

\* The freeze is a record that is frozen exactly when it has a reason.
FreezeShape ==
    \E pnl : /\ freeze \in [frozen : BOOLEAN, reason : Reasons, pnl : {pnl}]
             /\ freeze.frozen <=> freeze.reason # ""

\* The verdict the scheduler holds is that of the journal as it is: the journal's
\* lock keeps it so until the verdict is applied.
VerdictCurrent ==
    /\ \E pnl : sched \in [pc : {"idle", "apply"}, pnl : {pnl}]
    /\ sched.pc = "apply" => sched.pnl = DailyPnl

IInv == FreezeShape /\ VerdictCurrent

\* The inductive invariant holds of the initial state.
LEMMA InitIInv == Init => IInv
  <1>. SUFFICES ASSUME Init PROVE IInv
    OBVIOUS
  <1>1. freeze \in [frozen : BOOLEAN, reason : Reasons, pnl : {0}]
        /\ ~freeze.frozen /\ freeze.reason = ""
    BY DEF Init, Active, Reasons
  <1>2. sched \in [pc : {"idle", "apply"}, pnl : {0}] /\ sched.pc = "idle"
    BY DEF Init
  <1>. QED BY <1>1, <1>2 DEF IInv, FreezeShape, VerdictCurrent

\* A step that leaves the scheduler and the journal alone, or that changes the
\* journal while the scheduler is not inside the breaker, keeps the verdict.
LEMMA VerdictKept ==
    ASSUME VerdictCurrent, UNCHANGED sched, UNCHANGED booked \/ JournalFree
    PROVE  VerdictCurrent'
  BY DEF VerdictCurrent, JournalFree, DailyPnl

\* The journal's writers and the calendar touch neither the freeze nor the verdict.
LEMMA JournalStep ==
    ASSUME IInv,
           NextDay \/ ClearJournal \/ \E d \in 1..today, p \in Profit : Book(d, p)
    PROVE  IInv'
  <1>1. UNCHANGED <<freeze, sched>> /\ (UNCHANGED booked \/ JournalFree)
    BY DEF NextDay, ClearJournal, Book
  <1>2. FreezeShape'
    BY <1>1 DEF IInv, FreezeShape
  <1>. QED BY <1>1, <1>2, VerdictKept DEF IInv

\* The manual switch writes the flag and its reason together.
LEMMA SwitchStep ==
    ASSUME IInv, NEW on \in BOOLEAN, SignalFreeze(on)
    PROVE  IInv'
  <1>1. FreezeShape'
    BY DEF IInv, FreezeShape, SignalFreeze, Reasons
  <1>2. VerdictCurrent'
    BY VerdictKept DEF IInv, SignalFreeze
  <1>. QED BY <1>1, <1>2 DEF IInv

\* The scheduler's two steps: the verdict is read from the journal, and a freeze
\* is written with its reason.
LEMMA SchedulerStep ==
    ASSUME IInv, Evaluate \/ Apply
    PROVE  IInv'
  <1>1. CASE Evaluate
    <2>1. FreezeShape'
      BY <1>1 DEF IInv, FreezeShape, Evaluate
    <2>2. VerdictCurrent'
      BY <1>1 DEF VerdictCurrent, Evaluate, DailyPnl
    <2>. QED BY <2>1, <2>2 DEF IInv
  <1>2. CASE Apply
    <2>1. FreezeShape'
      <3>1. CASE Breach(sched.pnl) /\ ~freeze.frozen
        BY <1>2, <3>1 DEF FreezeShape, Apply, Reasons
      <3>2. CASE ~(Breach(sched.pnl) /\ ~freeze.frozen)
        <4>1. freeze' = [freeze EXCEPT !.pnl = sched.pnl]
          BY <1>2, <3>2 DEF Apply
        <4>2. freeze' \in [frozen : BOOLEAN, reason : Reasons, pnl : {sched.pnl}]
              /\ freeze'.frozen = freeze.frozen /\ freeze'.reason = freeze.reason
          BY <4>1 DEF IInv, FreezeShape
        <4>. QED BY <4>2 DEF IInv, FreezeShape
      <3>. QED BY <3>1, <3>2
    <2>2. VerdictCurrent'
      <3>1. sched' \in [pc : {"idle", "apply"}, pnl : {sched.pnl}] /\ sched'.pc = "idle"
        BY <1>2 DEF IInv, VerdictCurrent, Apply
      <3>. QED BY <3>1 DEF VerdictCurrent
    <2>. QED BY <2>1, <2>2 DEF IInv
  <1>. QED BY <1>1, <1>2

\* The inductive invariant is kept by every step.
LEMMA NextIInv == IInv /\ [Next]_vars => IInv'
  <1>. SUFFICES ASSUME IInv, [Next]_vars PROVE IInv'
    OBVIOUS
  <1>1. CASE Restart
    BY <1>1 DEF IInv, FreezeShape, VerdictCurrent, Restart, Active, Reasons
  <1>2. CASE UNCHANGED vars
    BY <1>2, VerdictKept DEF IInv, FreezeShape, vars
  <1>. QED
    BY <1>1, <1>2, JournalStep, SwitchStep, SchedulerStep DEF Next

\* When the breaker freezes the desk, the journal breaches the threshold at that
\* very moment, whoever else writes the journal or the freeze.
THEOREM FreezesCorrectly == Spec => FreezesOnCurrentJournal
  <1>1. ASSUME IInv, Next, ~freeze.frozen, freeze'.reason = "drawdown"
        PROVE  Breach(DailyPnl)
    <2>1. freeze.reason = ""
      BY <1>1 DEF IInv, FreezeShape
    <2>2. Apply
      <3>1. CASE UNCHANGED freeze
        BY <1>1, <2>1, <3>1
      <3>2. CASE \E on \in BOOLEAN : SignalFreeze(on)
        BY <1>1, <2>1, <3>2 DEF IInv, FreezeShape, SignalFreeze
      <3>3. CASE Restart
        BY <1>1, <3>3 DEF Restart, Active
      <3>. QED
        BY <1>1, <3>1, <3>2, <3>3 DEF Next, Book, ClearJournal, NextDay, Evaluate
    <2>3. Breach(sched.pnl)
      BY <1>1, <2>1, <2>2 DEF Apply, IInv, FreezeShape
    <2>. QED BY <1>1, <2>2, <2>3 DEF IInv, VerdictCurrent, Apply
  <1>2. IInv /\ [Next]_vars => [~freeze.frozen /\ freeze'.reason = "drawdown" => Breach(DailyPnl)]_vars
    BY <1>1
  <1>. QED BY InitIInv, NextIInv, <1>2, PTL DEF Spec, FreezesOnCurrentJournal

\* Only the manual switch or a restart lifts a freeze: no recovery of the journal
\* does, and no verdict.
THEOREM LiftedCorrectly == Spec => LiftedByHandOnly
  <1>1. ASSUME IInv, Next, freeze.frozen, ~freeze'.frozen
        PROVE  SignalFreeze(FALSE) \/ Restart
    <2>1. CASE Apply
      BY <1>1, <2>1 DEF Apply, IInv, FreezeShape
    <2>2. ASSUME NEW on \in BOOLEAN, SignalFreeze(on) PROVE SignalFreeze(FALSE)
      <3>1. freeze'.frozen = on
        BY <1>1, <2>2 DEF SignalFreeze, IInv, FreezeShape
      <3>. QED BY <1>1, <2>2, <3>1
    <2>. QED
      BY <1>1, <2>1, <2>2 DEF Next, Book, ClearJournal, NextDay, Evaluate
  <1>2. IInv /\ [Next]_vars
          => [freeze.frozen /\ ~freeze'.frozen => SignalFreeze(FALSE) \/ Restart]_vars
    BY <1>1
  <1>. QED BY InitIInv, NextIInv, <1>2, PTL DEF Spec, LiftedByHandOnly

-----------------------------------------------------------------------------
\* Whatever the emission thread, the connections and the settings do, the breaker,
\* the switch and the journal of the composed desk behave as CircuitBreaker says.
THEOREM DeskImplementsBreaker == DeskSpec => Spec
  <1>1. DeskInit => Init
    BY DEF DeskInit
  <1>2. DeskNext => [Next]_vars
    <2>. SUFFICES ASSUME DeskNext PROVE Next \/ UNCHANGED vars
      OBVIOUS
    <2>1. CASE Keep
      BY <2>1 DEF Keep, Next
    <2>2. CASE Trip
      BY <2>2 DEF Trip, Next
    <2>3. CASE Reboot
      BY <2>3 DEF Reboot, Next
    <2>4. CASE Emission
      BY <2>4 DEF Emission
    <2>5. ASSUME NEW on \in BOOLEAN, Switch(on) PROVE Next
      BY <2>5 DEF Switch, Next
    <2>6. ASSUME NEW c \in Clients, Connection(c) PROVE UNCHANGED vars
      BY <2>6 DEF Connection
    <2>. QED BY <2>1, <2>2, <2>3, <2>4, <2>5, <2>6 DEF DeskNext
  <1>3. [DeskNext]_deskVars => [Next]_vars
    BY <1>2 DEF deskVars
  <1>. QED BY <1>1, <1>3, PTL DEF DeskSpec, Spec

\* The desk with its dashboards freezes on the journal as it stands and lifts a
\* freeze by hand or by a restart only.
COROLLARY DeskFreezesAndLifts == DeskSpec => FreezesOnCurrentJournal /\ LiftedByHandOnly
  BY DeskImplementsBreaker, FreezesCorrectly, LiftedCorrectly, PTL

-----------------------------------------------------------------------------
Books == INSTANCE FoldFacts WITH Op <- Merged

\* What the facts on lines and sums speak of is what is used here.
LEMMA FiniteBooks == \A S : (Books!IsFiniteSet(S) <=> IsFiniteSet(S))
                            /\ Books!Cardinality(S) = Cardinality(S)
  BY DEF IsFiniteSet, Books!IsFiniteSet, Cardinality, Books!Cardinality

\* The sort of the books.
LEMMA SortBooks == \A S, R : Sorted(S, R) = Books!Sorted(S, R)
  BY DEF Sorted, Books!Sorted, Cardinality, Books!Cardinality, IsFiniteSet, Books!IsFiniteSet

\* Their sums.
LEMMA SumBooks == \A f : SumFunction(f) = Books!Total(f, DOMAIN f)
  BY DEF Books!Total, SumFunction, SumFunctionOnSet, Books!SumFunctionOnSet, FoldFunctionOnSet,
         Books!FoldFunctionOnSet, MapThenFoldSet, Books!MapThenFoldSet

\* Their fold.
LEMMA FoldBooks == \A lots : MergeHoldings(lots) = Books!Folded(<<>>, lots)
  BY DEF MergeHoldings, Books!Folded, FoldLeft, Books!FoldLeft, MapThenFoldSet,
         Books!MapThenFoldSet, Max, Books!Max

\* A finite set of places with integers on it, and the first places of a sequence.
LEMMA NumbersAre ==
    ASSUME NEW S, IsFiniteSet(S), NEW f, \A x \in S : f[x] \in Int
    PROVE  Books!Numbers(f, S)
  BY FiniteBooks DEF Books!Numbers

\* The first places of a sequence are finitely many.
LEMMA PlacesAreFinite ==
    ASSUME NEW n \in Nat
    PROVE  IsFiniteSet(1..n) /\ Cardinality(1..n) = n
  <1>1. 1 \in Int /\ n \in Int
    OBVIOUS
  <1>2. IsFiniteSet(1..n) /\ Cardinality(1..n) = IF 1 > n THEN 0 ELSE n - 1 + 1
    BY <1>1, FS_Interval
  <1>. QED BY <1>2

\* One place more behind the last adds its value.
LEMMA SumBehind ==
    ASSUME NEW n \in Nat, NEW f, \A k \in 1..n : f[k] \in Int,
           NEW h, \A k \in 1..n : h[k] = f[k], h[n + 1] \in Int
    PROVE  /\ Books!Total(f, 1..n) \in Int
           /\ Books!Total(h, 1..(n + 1)) = Books!Total(f, 1..n) + h[n + 1]
  <1>1. Books!Numbers(f, 1..n) /\ Books!Numbers(h, 1..n)
    BY PlacesAreFinite, NumbersAre
  <1>2. Books!Total(h, 1..n) = Books!Total(f, 1..n) /\ Books!Total(f, 1..n) \in Int
    BY <1>1, Books!SumSame, Books!SumAdd
  <1>3. n + 1 \notin 1..n /\ (1..n) \cup {n + 1} = 1..(n + 1)
    OBVIOUS
  <1>4. Books!Total(h, (1..n) \cup {n + 1}) = Books!Total(h, 1..n) + h[n + 1]
    <2>1. PICK S, x : S = 1..n /\ x = n + 1
      OBVIOUS
    <2>2. Books!Numbers(h, S) /\ x \notin S /\ h[x] \in Int
      BY <1>1, <1>3, <2>1
    <2>3. Books!Total(h, S \cup {x}) = Books!Total(h, S) + h[x]
      BY ONLY <2>2, Books!SumInsert
    <2>. QED BY <2>1, <2>3
  <1>. QED BY <1>2, <1>3, <1>4

-----------------------------------------------------------------------------
\* What a lot of the statement may be, and with it a position.
LotRows ==
    [stock : {l.stock : l \in {m \in Lines : m.qty > 0}}, qty : Nat \ {0}, cost : Nat \ {0},
     brokers : SUBSET ({l.broker : l \in Lines} \cup {"Unknown"}),
     sector : {l.sector : l \in Lines} \cup {NoName}, mark : Nat]

\* Two lots of a stock are one of it.
LEMMA JoinFacts ==
    ASSUME NEW p \in LotRows, NEW l \in LotRows
    PROVE  /\ Join(p, l) \in LotRows
           /\ Join(p, l).stock = p.stock
           /\ Join(p, l).qty = p.qty + l.qty
           /\ Join(p, l).cost = p.cost + l.cost
  <1>1. /\ p.qty + l.qty \in Nat \ {0} /\ p.cost + l.cost \in Nat \ {0}
    BY DEF LotRows
  <1>. QED BY <1>1 DEF Join, LotRows

\* The quantities and the costs of a book, and its stocks.
QtysOf(ps) == [k \in DOMAIN ps |-> ps[k].qty]
CostsOf(ps) == [k \in DOMAIN ps |-> ps[k].cost]
StocksOf(ps) == {ps[k].stock : k \in DOMAIN ps}

\* A lot merged into a book adds its quantity and its cost and loses no stock.
LEMMA MergeStep ==
    ASSUME NEW book \in Seq(LotRows), NEW l \in LotRows
    PROVE  /\ Merged(book, l) \in Seq(LotRows)
           /\ SumFunction(QtysOf(Merged(book, l))) = SumFunction(QtysOf(book)) + l.qty
           /\ SumFunction(CostsOf(Merged(book, l))) = SumFunction(CostsOf(book)) + l.cost
           /\ SumFunction(QtysOf(book)) \in Int /\ SumFunction(CostsOf(book)) \in Int
           /\ StocksOf(book) \cup {l.stock} \subseteq StocksOf(Merged(book, l))
  <1>. DEFINE at == {k \in DOMAIN book : book[k].stock = l.stock}
              m == Min(at)
              new == Merged(book, l)
  <1>1. PICK n \in Nat : n = Len(book) /\ DOMAIN book = 1..n
    BY LenProperties
  <1>2. \A k \in 1..n : book[k] \in LotRows /\ book[k].qty \in Int /\ book[k].cost \in Int
    <2>1. \A k \in 1..n : book[k] \in LotRows
      BY <1>1, ElementOfSeq
    <2>2. \A r \in LotRows : r.qty \in Int /\ r.cost \in Int
      BY DEF LotRows
    <2>. QED BY <2>1, <2>2
  <1>3. l.qty \in Int /\ l.cost \in Int
    BY DEF LotRows
  <1>4. /\ \A k \in 1..n : QtysOf(book)[k] = book[k].qty /\ CostsOf(book)[k] = book[k].cost
        /\ DOMAIN QtysOf(book) = 1..n /\ DOMAIN CostsOf(book) = 1..n
    BY <1>1 DEF QtysOf, CostsOf
  <1>5. Books!Numbers(QtysOf(book), 1..n) /\ Books!Numbers(CostsOf(book), 1..n)
    BY <1>2, <1>4, PlacesAreFinite, NumbersAre
  <1>6. /\ SumFunction(QtysOf(book)) = Books!Total(QtysOf(book), 1..n)
        /\ SumFunction(CostsOf(book)) = Books!Total(CostsOf(book), 1..n)
        /\ SumFunction(QtysOf(book)) \in Int /\ SumFunction(CostsOf(book)) \in Int
    BY <1>4, <1>5, SumBooks, Books!SumAdd
  <1>7. CASE at = {}
    <2>1. new = Append(book, l)
      BY <1>7 DEF Merged
    <2>2. /\ new \in Seq(LotRows) /\ DOMAIN new = 1..(n + 1) /\ new[n + 1] = l
          /\ \A k \in 1..n : new[k] = book[k]
      BY <1>1, <2>1, AppendProperties, LenProperties
    <2>. HIDE DEF new
    <2>3. /\ DOMAIN QtysOf(new) = 1..(n + 1) /\ DOMAIN CostsOf(new) = 1..(n + 1)
          /\ QtysOf(new)[n + 1] = l.qty /\ CostsOf(new)[n + 1] = l.cost
      BY <2>2 DEF QtysOf, CostsOf
    <2>4. \A k \in 1..n : /\ QtysOf(new)[k] = QtysOf(book)[k] /\ CostsOf(new)[k] = CostsOf(book)[k]
                          /\ QtysOf(book)[k] \in Int /\ CostsOf(book)[k] \in Int
      BY <1>2, <1>4, <2>2 DEF QtysOf, CostsOf
    <2>5. Books!Total(QtysOf(new), 1..(n + 1)) = Books!Total(QtysOf(book), 1..n) + l.qty
      BY <1>3, <2>3, <2>4, SumBehind
    <2>6. Books!Total(CostsOf(new), 1..(n + 1)) = Books!Total(CostsOf(book), 1..n) + l.cost
      BY <1>3, <2>3, <2>4, SumBehind
    <2>7. StocksOf(book) \cup {l.stock} \subseteq StocksOf(new)
      BY <1>1, <2>2 DEF StocksOf
    <2>. QED BY <1>6, <2>2, <2>3, <2>5, <2>6, <2>7, SumBooks DEF new
  <1>8. CASE at # {}
    <2>1. m \in at
      <3>1. at \subseteq Int /\ 1 \in Int /\ \A x \in at : 1 <= x
        BY <1>1
      <3>2. Books!Min(at) \in at
        BY <1>8, <3>1, Books!MinIs
      <3>. QED BY <3>2 DEF Min, Books!Min
    <2>. HIDE DEF m
    <2>2. new = [book EXCEPT ![m] = Join(book[m], l)]
      BY <1>8 DEF Merged, m
    <2>3. m \in 1..n /\ book[m].stock = l.stock /\ book[m] \in LotRows
      BY <1>1, <1>2, <2>1
    <2>. HIDE DEF at
    <2>4. /\ new \in Seq(LotRows) /\ DOMAIN new = 1..n /\ new[m] = Join(book[m], l)
          /\ \A k \in (1..n) \ {m} : new[k] = book[k]
      <3>1. Join(book[m], l) \in LotRows
        BY <2>3, JoinFacts
      <3>2. new \in Seq(LotRows)
        BY <1>1, <2>2, <2>3, <3>1, ExceptSeq
      <3>. QED BY <1>1, <2>2, <2>3, <3>2
    <2>. HIDE DEF new
    <2>5. /\ DOMAIN QtysOf(new) = 1..n /\ DOMAIN CostsOf(new) = 1..n
          /\ QtysOf(new)[m] = QtysOf(book)[m] + l.qty
          /\ CostsOf(new)[m] = CostsOf(book)[m] + l.cost
      BY <1>4, <2>3, <2>4, JoinFacts DEF QtysOf, CostsOf
    <2>6. \A k \in (1..n) \ {m} : QtysOf(new)[k] = QtysOf(book)[k] /\ CostsOf(new)[k] = CostsOf(book)[k]
      BY <1>4, <2>4 DEF QtysOf, CostsOf
    <2>7. Books!Total(QtysOf(new), 1..n) = Books!Total(QtysOf(book), 1..n) + l.qty
      BY <1>3, <1>5, <2>3, <2>5, <2>6, Books!SumChange
    <2>8. Books!Total(CostsOf(new), 1..n) = Books!Total(CostsOf(book), 1..n) + l.cost
      <3>1. /\ Books!Numbers(CostsOf(book), 1..n) /\ m \in 1..n /\ l.cost \in Int
            /\ CostsOf(new)[m] = CostsOf(book)[m] + l.cost
            /\ \A k \in (1..n) \ {m} : CostsOf(new)[k] = CostsOf(book)[k]
        BY <1>3, <1>5, <2>3, <2>5, <2>6
      <3>. QED BY ONLY <3>1, Books!SumChange
    <2>9. \A k \in 1..n : new[k].stock = book[k].stock
      BY <2>3, <2>4, JoinFacts
    <2>10. StocksOf(book) \cup {l.stock} \subseteq StocksOf(new)
      BY <1>1, <2>3, <2>4, <2>9 DEF StocksOf
    <2>. QED BY <1>6, <2>4, <2>5, <2>7, <2>8, <2>10, SumBooks DEF new
  <1>. HIDE DEF new
  <1>. QED BY <1>7, <1>8 DEF new

\* Below the header there are lines of the statement.
LEMMA DataLinesFacts ==
    ASSUME NEW f \in Seq(Lines)
    PROVE  DataLines(f) \subseteq 1..Len(f) /\ DOMAIN f = 1..Len(f) /\ Len(f) \in Nat
  <1>. DEFINE heads == {i \in DOMAIN f : f[i].head \cap {"avg", "paid"} # {}}
              most == {i \in heads : \A j \in heads :
                          Cardinality(f[j].head) <= Cardinality(f[i].head)}
              size == [i \in DOMAIN f |-> Cardinality(f[i].head)]
  <1>1. PICK n \in Nat : n = Len(f) /\ DOMAIN f = 1..n
    BY LenProperties
  <1>2. CASE heads = {}
    BY <1>1, <1>2 DEF DataLines, HeaderAt
  <1>3. CASE heads # {}
    <2>1. \A i \in 1..n : f[i] \in Lines
      BY <1>1, ElementOfSeq
    <2>2. \A i \in 1..n : size[i] \in Int
      BY <1>1, <2>1, HoldingAssumption, FS_CardinalityType
    <2>3. heads \subseteq 1..n
      BY <1>1
    <2>4. PICK b \in heads : \A a \in heads : size[a] <= size[b]
      <3>. HIDE DEF heads, size
      <3>1. \A a \in heads : size[a] \in Int
        BY <2>2, <2>3
      <3>. QED BY <1>1, <1>3, <2>3, <3>1, Books!GreatestOf
    <2>5. b \in most
      BY <1>1, <2>4
    <2>6. most \subseteq 1..n
      BY <2>3
    <2>. HIDE DEF most
    <2>7. Books!Min(most) \in most
      <3>1. most \subseteq Int /\ most # {} /\ 1 \in Int /\ \A i \in most : 1 <= i
        BY <2>5, <2>6
      <3>. QED BY <3>1, Books!MinIs
    <2>8. Min(most) \in 1..n
      BY <2>6, <2>7 DEF Min, Books!Min
    <2>9. HeaderAt(f) = Min(most)
      BY <1>3 DEF HeaderAt, most
    <2>. QED BY <1>1, <2>8, <2>9 DEF DataLines
  <1>. QED BY <1>2, <1>3

\* What a readable line holds.
LEMMA ReadableFacts ==
    ASSUME NEW f \in Seq(Lines), NEW i \in Readable(f)
    PROVE  /\ ReadLot(f[i], Columns(f)) \in LotRows
           /\ ReadLot(f[i], Columns(f)).stock = f[i].stock
           /\ ReadLot(f[i], Columns(f)).qty = f[i].qty
           /\ ReadLot(f[i], Columns(f)).cost = Paid(f[i], Columns(f))
  <1>. DEFINE cols == Columns(f)
  <1>1. f[i] \in Lines /\ Paid(f[i], cols) > 0
    BY DataLinesFacts, ElementOfSeq DEF Readable
  <1>2. PICK l \in Lines : l = f[i]
    BY <1>1
  <1>. HIDE DEF cols
  <1>3. l.qty \in Int /\ l.avg \in Int /\ l.paid \in Int /\ l.mark \in Int
    BY HoldingAssumption
  <1>4. l.qty > 0
    BY <1>1, <1>2, <1>3 DEF Paid
  <1>5. Paid(l, cols) \in Nat \ {0}
    <2>1. CASE "paid" \in cols /\ l.paid > 0
      BY <1>3, <1>4, <2>1 DEF Paid
    <2>2. CASE ~("paid" \in cols /\ l.paid > 0) /\ "avg" \in cols /\ l.avg > 0
      <3>1. Paid(l, cols) = l.qty * l.avg /\ l.qty * l.avg \in Int
        BY <1>3, <1>4, <2>2 DEF Paid
      <3>. QED BY <1>1, <1>2, <3>1
    <2>3. CASE ~("paid" \in cols /\ l.paid > 0) /\ ~("avg" \in cols /\ l.avg > 0)
      BY <1>1, <1>2, <1>3, <1>4, <2>3 DEF Paid
    <2>. QED BY <2>1, <2>2, <2>3
  <1>6. ReadLot(l, cols) \in LotRows
    <2>1. l.stock \in {m.stock : m \in {k \in Lines : k.qty > 0}} /\ l.qty \in Nat \ {0}
      BY <1>3, <1>4
    <2>2. (IF "broker" \in cols /\ l.broker # NoName THEN {l.broker} ELSE {"Unknown"})
             \in SUBSET ({m.broker : m \in Lines} \cup {"Unknown"})
      OBVIOUS
    <2>3. (IF "sector" \in cols THEN l.sector ELSE NoName)
             \in {m.sector : m \in Lines} \cup {NoName}
      OBVIOUS
    <2>4. (IF "last" \in cols /\ l.mark > 0 THEN l.mark ELSE 0) \in Nat
      BY <1>3
    <2>. QED BY <1>5, <2>1, <2>2, <2>3, <2>4 DEF ReadLot, LotRows
  <1>. QED BY <1>2, <1>6 DEF ReadLot, cols

\* The readable lines in the statement's order.
InFileOrder(f) == {p \in Readable(f) \X Readable(f) : p[1] < p[2]}
ReadAt(f) == Sorted(Readable(f), InFileOrder(f))

\* The lots are the readable lines, each once.
LEMMA LotsFacts ==
    ASSUME NEW f \in Seq(Lines), NEW n, n = Cardinality(Readable(f))
    PROVE  /\ n \in Nat /\ IsFiniteSet(Readable(f))
           /\ Books!Linear(InFileOrder(f), Readable(f))
           /\ Books!Lined(ReadAt(f), Readable(f), InFileOrder(f), n)
           /\ Lots(f) \in Seq(LotRows) /\ Len(Lots(f)) = n
           /\ \A k \in 1..n : /\ ReadAt(f)[k] \in Readable(f)
                              /\ Lots(f)[k] = ReadLot(f[ReadAt(f)[k]], Columns(f))
  <1>. DEFINE S == Readable(f)
              R == InFileOrder(f)
  <1>1. S \subseteq 1..Len(f) /\ Len(f) \in Nat
    BY DataLinesFacts DEF Readable
  <1>2. IsFiniteSet(S) /\ n \in Nat
    BY <1>1, PlacesAreFinite, FS_Subset, FS_CardinalityType
  <1>3. \A x, y \in S : (<<x, y>> \in R <=> x < y) /\ x \in Int /\ y \in Int
    BY <1>1 DEF InFileOrder
  <1>. HIDE DEF S, R
  <1>4. Books!Linear(R, S)
    BY <1>3 DEF Books!Linear
  <1>5. Books!Lined(Sorted(S, R), S, R, n)
    <2>1. Books!IsFiniteSet(S)
      BY <1>2, FiniteBooks
    <2>. QED BY <1>4, <2>1, Books!SortedIs, FiniteBooks, SortBooks DEF S
  <1>6. Books!Lined(ReadAt(f), S, R, n)
    BY <1>5 DEF ReadAt, S, R
  <1>7. ReadAt(f) \in Seq(S) /\ Len(ReadAt(f)) = n
    BY <1>6 DEF Books!Lined
  <1>8. /\ DOMAIN ReadAt(f) = 1..n
        /\ \A k \in 1..n : ReadAt(f)[k] \in S
    BY <1>7, LenProperties, ElementOfSeq
  <1>9. Lots(f) = [k \in 1..n |-> ReadLot(f[ReadAt(f)[k]], Columns(f))]
    BY <1>8 DEF Lots, ReadAt, InFileOrder
  <1>10. \A k \in 1..n : ReadLot(f[ReadAt(f)[k]], Columns(f)) \in LotRows
    BY <1>8, ReadableFacts DEF S
  <1>11. Lots(f) \in Seq(LotRows) /\ Len(Lots(f)) = n
    BY <1>2, <1>9, <1>10, IsASeq, LenProperties
  <1>. QED BY <1>2, <1>4, <1>6, <1>8, <1>9, <1>11 DEF S, R

\* What the readable lines hold and cost.
ReadQtys(f) == [i \in Readable(f) |-> f[i].qty]
ReadCosts(f) == [i \in Readable(f) |-> Paid(f[i], Columns(f))]

\* The book holds what the readable lines hold, costs what they cost, and has their
\* stocks.
LEMMA BookOfLines ==
    ASSUME NEW f \in Seq(Lines), NEW book, book = MergeHoldings(Lots(f))
    PROVE  /\ book \in Seq(LotRows)
           /\ SumFunction(QtysOf(book)) = SumFunction(ReadQtys(f))
           /\ SumFunction(CostsOf(book)) = SumFunction(ReadCosts(f))
           /\ \A i \in Readable(f) : f[i].stock \in StocksOf(book)
  <1>. DEFINE S == Readable(f)
              R == InFileOrder(f)
              at == ReadAt(f)
              lots == Lots(f)
              Q == ReadQtys(f)
              C == ReadCosts(f)
  <1>1. PICK n : n = Cardinality(S)
    OBVIOUS
  <1>2. /\ n \in Nat /\ IsFiniteSet(S)
        /\ Books!Linear(R, S) /\ Books!Lined(at, S, R, n)
        /\ lots \in Seq(LotRows) /\ Len(lots) = n
        /\ \A k \in 1..n : at[k] \in S /\ lots[k] = ReadLot(f[at[k]], Columns(f))
    BY <1>1, LotsFacts
  <1>3. \A k \in 1..n : /\ lots[k] \in LotRows /\ lots[k].stock = f[at[k]].stock
                        /\ lots[k].qty = Q[at[k]] /\ lots[k].cost = C[at[k]]
    BY <1>2, ReadableFacts DEF ReadQtys, ReadCosts
  <1>4. (\A i \in S : Q[i] \in Int) /\ (\A i \in S : C[i] \in Int) /\ DOMAIN Q = S /\ DOMAIN C = S
    <2>1. ASSUME NEW i \in S PROVE Q[i] \in Int /\ C[i] \in Int
      <3>1. ReadLot(f[i], Columns(f)).qty \in Int /\ ReadLot(f[i], Columns(f)).cost \in Int
        BY ReadableFacts DEF LotRows
      <3>. QED BY <3>1, ReadableFacts DEF ReadQtys, ReadCosts
    <2>. QED BY <2>1 DEF ReadQtys, ReadCosts
  <1>5. DOMAIN lots = 1..n
    BY <1>2, LenProperties
  <1>6. PICK run : Books!Through(run, <<>>, lots, n)
    BY <1>2, <1>5, Books!FoldRuns
  <1>7. /\ run[0] = <<>> /\ book = run[n]
        /\ \A k \in 1..n : run[k] = Merged(run[k - 1], lots[k])
    BY <1>6, FoldBooks DEF Books!Through
  <1>8. Books!SumsUp(Q, at, S, R, n) /\ Books!SumsUp(C, at, S, R, n)
    BY <1>2, <1>4, Books!LinedSums
  <1>. HIDE DEF S, R, at, lots, Q, C
  <1>9. /\ Books!UpTo(Q, at, 0) = 0 /\ Books!UpTo(C, at, 0) = 0
        /\ \A k \in 1..n : /\ Books!UpTo(Q, at, k) = Books!UpTo(Q, at, k - 1) + Q[at[k]]
                           /\ Books!UpTo(C, at, k) = Books!UpTo(C, at, k - 1) + C[at[k]]
    BY <1>8 DEF Books!SumsUp
  <1>. DEFINE Good == {k \in Nat : k <= n =>
                  /\ run[k] \in Seq(LotRows)
                  /\ SumFunction(QtysOf(run[k])) = Books!UpTo(Q, at, k)
                  /\ SumFunction(CostsOf(run[k])) = Books!UpTo(C, at, k)
                  /\ \A j \in 1..k : lots[j].stock \in StocksOf(run[k])}
  <1>10. 0 \in Good
    <2>1. <<>> \in Seq(LotRows) /\ DOMAIN QtysOf(<<>>) = {} /\ DOMAIN CostsOf(<<>>) = {}
      BY EmptySeq DEF QtysOf, CostsOf
    <2>2. Books!Numbers(QtysOf(<<>>), {}) /\ Books!Numbers(CostsOf(<<>>), {})
      BY FS_EmptySet, NumbersAre
    <2>3. SumFunction(QtysOf(<<>>)) = 0 /\ SumFunction(CostsOf(<<>>)) = 0
      BY <2>1, <2>2, SumBooks, Books!SumAdd
    <2>4. /\ run[0] \in Seq(LotRows)
          /\ SumFunction(QtysOf(run[0])) = Books!UpTo(Q, at, 0)
          /\ SumFunction(CostsOf(run[0])) = Books!UpTo(C, at, 0)
          /\ \A j \in 1..0 : lots[j].stock \in StocksOf(run[0])
      BY <1>7, <1>9, <2>1, <2>3
    <2>. QED BY <2>4
  <1>11. ASSUME NEW k \in Nat, k \in Good PROVE k + 1 \in Good
    <2>. SUFFICES ASSUME k + 1 <= n
                  PROVE  /\ run[k + 1] \in Seq(LotRows)
                         /\ SumFunction(QtysOf(run[k + 1])) = Books!UpTo(Q, at, k + 1)
                         /\ SumFunction(CostsOf(run[k + 1])) = Books!UpTo(C, at, k + 1)
                         /\ \A j \in 1..(k + 1) : lots[j].stock \in StocksOf(run[k + 1])
      OBVIOUS
    <2>1. k <= n /\ k + 1 \in 1..n /\ (k + 1) - 1 = k
      BY <1>2
    <2>2. /\ run[k] \in Seq(LotRows)
          /\ SumFunction(QtysOf(run[k])) = Books!UpTo(Q, at, k)
          /\ SumFunction(CostsOf(run[k])) = Books!UpTo(C, at, k)
          /\ \A j \in 1..k : lots[j].stock \in StocksOf(run[k])
      BY <1>11, <2>1
    <2>3. run[k + 1] = Merged(run[k], lots[k + 1]) /\ lots[k + 1] \in LotRows
      BY <1>3, <1>7, <2>1
    <2>4. /\ run[k + 1] \in Seq(LotRows)
          /\ SumFunction(QtysOf(run[k + 1])) = SumFunction(QtysOf(run[k])) + lots[k + 1].qty
          /\ SumFunction(CostsOf(run[k + 1])) = SumFunction(CostsOf(run[k])) + lots[k + 1].cost
          /\ StocksOf(run[k]) \cup {lots[k + 1].stock} \subseteq StocksOf(run[k + 1])
      BY <2>2, <2>3, MergeStep
    <2>5. ASSUME NEW j \in 1..(k + 1) PROVE lots[j].stock \in StocksOf(run[k + 1])
      <3>1. j \in 1..k \/ j = k + 1
        OBVIOUS
      <3>. QED BY <2>2, <2>4, <3>1
    <2>. QED BY <1>3, <1>9, <2>1, <2>2, <2>4, <2>5
  <1>12. n \in Good
    <2>. HIDE DEF Good
    <2>. QED BY <1>2, <1>10, <1>11, Books!NatInduct
  <1>13. {at[j] : j \in 1..n} = S
    BY <1>2 DEF Books!Lined
  <1>14. Books!UpTo(Q, at, n) = SumFunction(Q) /\ Books!UpTo(C, at, n) = SumFunction(C)
    BY <1>4, <1>13, SumBooks DEF Books!UpTo
  <1>15. ASSUME NEW i \in S PROVE f[i].stock \in StocksOf(book)
    <2>1. PICK j \in 1..n : at[j] = i
      BY <1>13
    <2>. QED BY <1>2, <1>3, <1>7, <1>12, <2>1
  <1>16. /\ book \in Seq(LotRows) /\ SumFunction(QtysOf(book)) = SumFunction(Q)
         /\ SumFunction(CostsOf(book)) = SumFunction(C)
    BY <1>2, <1>7, <1>12, <1>14
  <1>. QED BY <1>15, <1>16 DEF S, Q, C

-----------------------------------------------------------------------------
\* Positions of a book: of each at least one share, bought and valued at something.
IsBook(ps, n) ==
    /\ n \in Nat /\ DOMAIN ps = 1..n
    /\ \A k \in 1..n : /\ ps[k].qty \in Nat \ {0} /\ ps[k].cost \in Nat \ {0}
                       /\ ps[k].value \in Nat \ {0}
ValuesOf(ps) == [k \in DOMAIN ps |-> ps[k].value]

\* A mark sets a position's value and leaves the rest alone.
LEMMA MarkedFacts ==
    ASSUME archive \in Archives, NEW p \in LotRows
    PROVE  /\ Marked(p).stock = p.stock /\ Marked(p).qty = p.qty /\ Marked(p).cost = p.cost
           /\ Marked(p).value \in Nat \ {0}
           /\ archive[p.stock] \in Seq([day : Int, close : Int])
  <1>1. p.qty \in Nat \ {0} /\ p.cost \in Nat \ {0} /\ p.mark \in Nat
        /\ p.stock \in {l.stock : l \in {m \in Lines : m.qty > 0}}
    BY DEF LotRows
  <1>2. archive[p.stock] \in Seq([day : Int, close : Int])
    BY <1>1, HoldingAssumption
  <1>3. LastClose(archive[p.stock]) \in Int
    <2>1. CASE archive[p.stock] = <<>>
      BY <2>1 DEF LastClose
    <2>2. CASE archive[p.stock] # <<>>
      <3>1. PICK bars \in Seq([day : Int, close : Int]) : bars = archive[p.stock]
        BY <1>2
      <3>2. Len(bars) \in DOMAIN bars /\ Last(bars) = bars[Len(bars)]
        BY <2>2, <3>1, EmptySeq, LenProperties DEF Last
      <3>3. Last(bars) \in [day : Int, close : Int]
        <4>1. Len(bars) \in 1..Len(bars)
          BY <3>1, <3>2, LenProperties
        <4>2. bars[Len(bars)] \in [day : Int, close : Int]
          BY <3>1, <4>1, ElementOfSeq
        <4>. QED BY <3>2, <4>2
      <3>4. \A b \in [day : Int, close : Int] : b.close \in Int
        OBVIOUS
      <3>. QED BY <2>2, <3>1, <3>3, <3>4 DEF LastClose
    <2>. QED BY <2>1, <2>2
  <1>4. PICK mark \in Int : mark = IF p.mark > 0 THEN p.mark ELSE LastClose(archive[p.stock])
    BY <1>1, <1>3
  <1>5. (IF mark > 0 THEN p.qty * mark ELSE p.cost) \in Nat \ {0}
    <2>1. mark > 0 => p.qty * mark \in Nat \ {0}
      BY <1>1
    <2>. QED BY <1>1, <2>1
  <1>. QED BY <1>2, <1>4, <1>5 DEF Marked

\* The positions hold, cost and are what the book does.
LEMMA PositionsFacts ==
    ASSUME archive \in Archives, NEW f \in Seq(Lines),
           NEW ps, ps = Positions(f), NEW book, book = MergeHoldings(Lots(f))
    PROVE  /\ IsBook(ps, Len(book)) /\ Len(ps) = Len(book)
           /\ QtysOf(ps) = QtysOf(book) /\ CostsOf(ps) = CostsOf(book)
           /\ StocksOf(ps) = StocksOf(book)
           /\ \A k \in DOMAIN ps : archive[ps[k].stock] \in Seq([day : Int, close : Int])
  <1>1. PICK n \in Nat : n = Len(book) /\ DOMAIN book = 1..n /\ \A k \in 1..n : book[k] \in LotRows
    BY BookOfLines, LenProperties, ElementOfSeq
  <1>2. ps = [k \in 1..n |-> Marked(book[k])]
    BY <1>1 DEF Positions
  <1>3. /\ DOMAIN ps = 1..n
        /\ \A k \in 1..n : /\ ps[k].stock = book[k].stock /\ ps[k].qty = book[k].qty
                           /\ ps[k].cost = book[k].cost /\ ps[k].value \in Nat \ {0}
                           /\ archive[ps[k].stock] \in Seq([day : Int, close : Int])
    BY <1>1, <1>2, MarkedFacts
  <1>4. \A k \in 1..n : book[k].qty \in Nat \ {0} /\ book[k].cost \in Nat \ {0}
    BY <1>1 DEF LotRows
  <1>5. Len(ps) = n
    BY <1>1, <1>2, LenProperties
  <1>6. IsBook(ps, n)
    BY <1>1, <1>3, <1>4 DEF IsBook
  <1>7. QtysOf(ps) = QtysOf(book) /\ CostsOf(ps) = CostsOf(book)
    BY <1>1, <1>3 DEF QtysOf, CostsOf
  <1>8. StocksOf(ps) = StocksOf(book)
    <2>1. StocksOf(ps) = {ps[k].stock : k \in 1..n} /\ StocksOf(book) = {book[k].stock : k \in 1..n}
      BY <1>1, <1>3 DEF StocksOf
    <2>. QED BY <1>3, <2>1
  <1>. QED BY <1>1, <1>3, <1>5, <1>6, <1>7, <1>8

\* S is parted by key: K are the keys, part[k] has what has key k.
Parted(S, key, K, part) ==
    K = {key[x] : x \in S} /\ \A k \in K : part[k] = {x \in S : key[x] = k}

\* What is summed group by group is summed once, the groups and their sums by name.
LEMMA SumParts ==
    ASSUME NEW S, NEW f, Books!Numbers(f, S), NEW key, NEW K, NEW part,
           Parted(S, key, K, part), NEW g, DOMAIN g = K, \A k \in K : g[k] = Books!Total(f, part[k])
    PROVE  SumFunction(g) = Books!Total(f, S)
  <1>. DEFINE group(T) == [k \in K |-> Books!Total(f, {x \in T : key[x] = k})]
  <1>1. /\ \A x \in S : key[x] \in K
        /\ K = {key[x] : x \in S} /\ \A k \in K : part[k] = {x \in S : key[x] = k}
    BY DEF Parted
  <1>2. IsFiniteSet(S) /\ IsFiniteSet(K)
    <2>1. IsFiniteSet(S)
      BY FiniteBooks DEF Books!Numbers
    <2>2. [x \in S |-> key[x]] \in Surjection(S, K)
      BY <1>1 DEF Surjection
    <2>3. IsFiniteSet(K)
      BY ONLY <2>1, <2>2, FS_Surjection
    <2>. QED BY <2>1, <2>3
  <1>3. Books!Total(group(S), K) = Books!Total(f, S)
    BY <1>1, <1>2, FiniteBooks, Books!SumGroups
  <1>4. \A k \in K : g[k] = group(S)[k]
    BY <1>1
  <1>5. \A k \in K : g[k] \in Int
    <2>1. ASSUME NEW k \in K PROVE Books!Total(f, part[k]) \in Int
      <3>1. part[k] \subseteq S
        BY <1>1
      <3>2. Books!Numbers(f, part[k])
        BY <1>2, <3>1, FS_Subset, NumbersAre DEF Books!Numbers
      <3>. QED BY ONLY <3>2, Books!SumAdd
    <2>. QED BY <2>1
  <1>6. Books!Numbers(g, K) /\ Books!Numbers(group(S), K)
    BY <1>2, <1>4, <1>5, NumbersAre
  <1>. HIDE DEF group
  <1>7. Books!Total(g, K) = Books!Total(group(S), K)
    BY ONLY <1>4, <1>6, Books!SumSame
  <1>. QED BY <1>3, <1>7, SumBooks

\* The value of some places of a book.
LEMMA ValueIs ==
    ASSUME NEW ps, NEW n, IsBook(ps, n), NEW S \in SUBSET (1..n)
    PROVE  /\ ValueOf(ps, S) = Books!Total(ValuesOf(ps), S)
           /\ Books!Numbers(ValuesOf(ps), S) /\ ValueOf(ps, S) \in Int
  <1>. DEFINE V == ValuesOf(ps)
  <1>1. n \in Nat /\ DOMAIN V = 1..n /\ \A k \in 1..n : V[k] = ps[k].value /\ V[k] \in Int
    BY DEF IsBook, ValuesOf
  <1>2. ValueOf(ps, S) = Books!Total([k \in S |-> ps[k].value], S)
    BY SumBooks DEF ValueOf
  <1>3. IsFiniteSet(S) /\ \A x \in S : V[x] \in Int
    BY <1>1, PlacesAreFinite, FS_Subset
  <1>4. Books!Numbers(V, S) /\ \A k \in S : [j \in S |-> ps[j].value][k] = V[k]
    BY <1>1, <1>3, NumbersAre
  <1>5. ValueOf(ps, S) = Books!Total(V, S)
    <2>1. PICK h : h = [j \in S |-> ps[j].value]
      OBVIOUS
    <2>2. Books!Numbers(V, S) /\ \A k \in S : h[k] = V[k]
      BY <1>4, <2>1
    <2>3. Books!Total(h, S) = Books!Total(V, S)
      BY ONLY <2>2, Books!SumSame
    <2>. QED BY <1>2, <2>1, <2>3
  <1>6. Books!Total(V, S) \in Int
    BY ONLY <1>4, Books!SumAdd
  <1>. QED BY <1>4, <1>5, <1>6

\* The places of a book in groups: their values add up to the book.
LEMMA GroupsAddUp ==
    ASSUME NEW ps, NEW n, IsBook(ps, n), NEW key, NEW K, NEW part,
           Parted(1..n, key, K, part), NEW g, DOMAIN g = K,
           \A k \in K : g[k] = ValueOf(ps, part[k])
    PROVE  SumFunction(g) = Whole(ps)
  <1>1. PICK V : V = ValuesOf(ps)
    OBVIOUS
  <1>2. \A k \in K : part[k] \in SUBSET (1..n)
    BY DEF Parted
  <1>3. \A k \in K : g[k] = Books!Total(V, part[k])
    BY <1>1, <1>2, ValueIs
  <1>4. /\ 1..n \in SUBSET (1..n) /\ DOMAIN ps = 1..n
    BY DEF IsBook
  <1>5. Books!Numbers(V, 1..n) /\ Whole(ps) = Books!Total(V, 1..n)
    BY <1>1, <1>4, ValueIs DEF Whole
  <1>6. SumFunction(g) = Books!Total(V, 1..n)
    <2>1. /\ Books!Numbers(V, 1..n) /\ Parted(1..n, key, K, part) /\ DOMAIN g = K
          /\ \A k \in K : g[k] = Books!Total(V, part[k])
      BY <1>3, <1>5
    <2>. QED BY ONLY <2>1, SumParts
  <1>. QED BY <1>5, <1>6

\* Sectors add up to the book, and brokers do.
LEMMA ExposuresAddUp ==
    ASSUME NEW ps, NEW n, IsBook(ps, n)
    PROVE  /\ SumFunction([s \in DOMAIN BySector(ps) |-> BySector(ps)[s].value]) = Whole(ps)
           /\ SumFunction([b \in DOMAIN ByBroker(ps) |-> ByBroker(ps)[b].value]) = Whole(ps)
  <1>1. DOMAIN ps = 1..n
    BY DEF IsBook
  <1>2. SumFunction([s \in DOMAIN BySector(ps) |-> BySector(ps)[s].value]) = Whole(ps)
    <2>1. PICK key : key = [k \in 1..n |-> SectorLabel(ps[k])]
      OBVIOUS
    <2>2. PICK K : K = {key[x] : x \in 1..n}
      OBVIOUS
    <2>3. PICK part : part = [s \in K |-> InSector(ps, s)]
      OBVIOUS
    <2>4. PICK g : g = [s \in DOMAIN BySector(ps) |-> BySector(ps)[s].value]
      OBVIOUS
    <2>5. Parted(1..n, key, K, part)
      BY <1>1, <2>1, <2>2, <2>3 DEF Parted, InSector
    <2>6. K = {SectorLabel(ps[k]) : k \in DOMAIN ps}
      BY <1>1, <2>1, <2>2
    <2>7. DOMAIN g = K /\ \A k \in K : g[k] = ValueOf(ps, part[k])
      BY <2>3, <2>4, <2>6 DEF BySector, ExposureRow
    <2>8. SumFunction(g) = Whole(ps)
      BY ONLY IsBook(ps, n), <2>5, <2>7, GroupsAddUp
    <2>. QED BY <2>4, <2>8
  <1>3. SumFunction([b \in DOMAIN ByBroker(ps) |-> ByBroker(ps)[b].value]) = Whole(ps)
    <2>1. PICK key : key = [k \in 1..n |-> ps[k].brokers]
      OBVIOUS
    <2>2. PICK K : K = {key[x] : x \in 1..n}
      OBVIOUS
    <2>3. PICK part : part = [b \in K |-> InBrokers(ps, b)]
      OBVIOUS
    <2>4. PICK g : g = [b \in DOMAIN ByBroker(ps) |-> ByBroker(ps)[b].value]
      OBVIOUS
    <2>5. Parted(1..n, key, K, part)
      BY <1>1, <2>1, <2>2, <2>3 DEF Parted, InBrokers
    <2>6. K = {ps[k].brokers : k \in DOMAIN ps}
      BY <1>1, <2>1, <2>2
    <2>7. DOMAIN g = K /\ \A k \in K : g[k] = ValueOf(ps, part[k])
      BY <2>3, <2>4, <2>6 DEF ByBroker, ExposureRow
    <2>8. SumFunction(g) = Whole(ps)
      BY ONLY IsBook(ps, n), <2>5, <2>7, GroupsAddUp
    <2>. QED BY <2>4, <2>8
  <1>. QED BY <1>2, <1>3

-----------------------------------------------------------------------------
\* C keeps whatever is linked to it.
Closed(C, U, link) == \A i \in C, j \in U : <<i, j>> \in link => j \in C
\* g[n] is what n links reach from k.
Growing(g, k, U, link, m) ==
    g = [n \in 0..m |-> IF n = 0 THEN {k}
                        ELSE g[n - 1] \cup {j \in U : \E i \in g[n - 1] : <<i, j>> \in link}]
\* T is what is reached from k: closed, and in whatever closed set k is in.
IsReached(T, k, U, link) ==
    /\ T \subseteq U /\ k \in T /\ Closed(T, U, link)
    /\ \A C \in SUBSET U : Closed(C, U, link) /\ k \in C => T \subseteq C

\* There are such sets for every number of links.
LEMMA GrowingExists ==
    ASSUME NEW U, NEW k \in U, NEW link, NEW m \in Nat
    PROVE  \E g : Growing(g, k, U, link, m)
  <1>. DEFINE step == [T \in SUBSET U |->
                          T \cup {j \in U : \E i \in T : <<i, j>> \in link}]
  <1>1. step \in [SUBSET U -> SUBSET U] /\ {k} \in SUBSET U
    OBVIOUS
  <1>2. PICK g : Books!Iterates({k}, step, m, g) /\ \A n \in 0..m : g[n] \in SUBSET U
    <2>. HIDE DEF step
    <2>. QED BY ONLY <1>1, m \in Nat, Books!IteratesExist
  <1>3. g = [n \in 0..m |-> IF n = 0 THEN {k} ELSE step[g[n - 1]]]
    BY <1>2 DEF Books!Iterates
  <1>4. ASSUME NEW n \in 0..m, n # 0
        PROVE  step[g[n - 1]] = g[n - 1] \cup {j \in U : \E i \in g[n - 1] : <<i, j>> \in link}
    <2>1. n - 1 \in 0..m
      BY <1>4
    <2>2. PICK T \in SUBSET U : T = g[n - 1]
      BY <1>2, <2>1
    <2>. QED BY <2>2
  <1>5. g = [n \in 0..m |-> IF n = 0 THEN {k}
                            ELSE g[n - 1] \cup {j \in U : \E i \in g[n - 1] : <<i, j>> \in link}]
    <2>. HIDE DEF step
    <2>. QED BY <1>3, <1>4
  <1>. QED BY <1>5 DEF Growing

\* As many links as there are names reach whatever can be reached.
LEMMA GrowingReaches ==
    ASSUME NEW U, IsFiniteSet(U), NEW k \in U, NEW link, NEW m \in Nat, Cardinality(U) <= m,
           NEW g, Growing(g, k, U, link, m)
    PROVE  IsReached(g[m], k, U, link)
  <1>. DEFINE Grown(T, n) == /\ T \subseteq U /\ k \in T
                             /\ Cardinality(T) >= n + 1 \/ Closed(T, U, link)
                             /\ \A C \in SUBSET U : Closed(C, U, link) /\ k \in C => T \subseteq C
              Good == {n \in Nat : n <= m => Grown(g[n], n)}
  <1>1. 0 \in Good
    <2>1. g[0] = {k}
      BY DEF Growing
    <2>2. Cardinality({k}) = 1
      BY FS_Singleton
    <2>3. Grown({k}, 0)
      BY <2>2
    <2>. QED BY <2>1, <2>3
  <1>2. ASSUME NEW n \in Nat, n \in Good PROVE n + 1 \in Good
    <2>. SUFFICES ASSUME n + 1 <= m PROVE Grown(g[n + 1], n + 1)
      OBVIOUS
    <2>1. PICK T : T = g[n]
      OBVIOUS
    <2>2. Grown(T, n)
      BY <1>2, <2>1
    <2>3. PICK V : V = g[n + 1]
      OBVIOUS
    <2>4. V = T \cup {j \in U : \E i \in T : <<i, j>> \in link}
      <3>1. n + 1 \in 0..m /\ n + 1 # 0 /\ (n + 1) - 1 = n
        OBVIOUS
      <3>. QED BY <2>1, <2>3, <3>1 DEF Growing
    <2>5. V \subseteq U /\ k \in V
      BY <2>2, <2>4
    <2>6. ASSUME NEW C \in SUBSET U, Closed(C, U, link), k \in C PROVE V \subseteq C
      <3>1. T \subseteq C
        BY <2>2, <2>6
      <3>. QED BY <2>4, <2>6, <3>1 DEF Closed
    <2>7. Cardinality(V) >= (n + 1) + 1 \/ Closed(V, U, link)
      <3>1. CASE Closed(T, U, link)
        <4>1. V = T
          BY <2>4, <3>1 DEF Closed
        <4>. QED BY <3>1, <4>1
      <3>2. CASE ~Closed(T, U, link)
        <4>1. PICK i \in T, j \in U : <<i, j>> \in link /\ j \notin T
          BY <3>2 DEF Closed
        <4>2. T \cup {j} \subseteq V
          BY <2>4, <4>1
        <4>3. Cardinality(T) >= n + 1 /\ IsFiniteSet(T) /\ IsFiniteSet(V)
          BY <2>2, <2>5, <3>2, FS_Subset
        <4>4. Cardinality(T) \in Nat /\ Cardinality(T \cup {j}) = Cardinality(T) + 1
          BY <4>1, <4>3, FS_AddElement, FS_CardinalityType
        <4>5. Cardinality(T \cup {j}) <= Cardinality(V) /\ Cardinality(V) \in Nat
          BY <4>2, <4>3, FS_Subset, FS_CardinalityType
        <4>. QED BY <4>3, <4>4, <4>5
      <3>. QED BY <3>1, <3>2
    <2>8. Grown(V, n + 1)
      BY <2>5, <2>6, <2>7
    <2>. QED BY <2>3, <2>8
  <1>3. m \in Good
    <2>. HIDE DEF Good
    <2>. QED BY <1>1, <1>2, Books!NatInduct
  <1>4. Grown(g[m], m)
    BY <1>3
  <1>5. PICK T : T = g[m]
    OBVIOUS
  <1>6. Closed(T, U, link)
    <2>1. Cardinality(T) <= Cardinality(U) /\ Cardinality(T) \in Nat /\ Cardinality(U) \in Nat
      BY <1>4, <1>5, FS_Subset, FS_CardinalityType
    <2>. QED BY <1>4, <1>5, <2>1
  <1>. QED BY <1>4, <1>5, <1>6 DEF IsReached

\* Links go both ways: what is reached from two names is the same or apart.
LEMMA ReachedApart ==
    ASSUME NEW U, NEW link, \A i, j \in U : <<i, j>> \in link => <<j, i>> \in link,
           NEW k \in U, NEW T, IsReached(T, k, U, link),
           NEW h \in U, NEW V, IsReached(V, h, U, link)
    PROVE  T = V \/ T \cap V = {}
  <1>1. ASSUME NEW A \in SUBSET U, Closed(A, U, link) PROVE Closed(U \ A, U, link)
    BY <1>1 DEF Closed
  <1>2. Closed(U \ T, U, link) /\ Closed(U \ V, U, link)
    BY <1>1 DEF IsReached
  <1>3. k \in V \/ T \subseteq U \ V
    BY <1>2 DEF IsReached
  <1>4. h \in T \/ V \subseteq U \ T
    BY <1>2 DEF IsReached
  <1>5. k \in V => T \subseteq V
    BY DEF IsReached
  <1>6. h \in T => V \subseteq T
    BY DEF IsReached
  <1>. QED BY <1>3, <1>4, <1>5, <1>6

\* The names whose returns touch.
LinksOf(ps) == {p \in Used(ps) \X Used(ps) : Touching(ps, p[1], p[2])}

\* What the correlation reaches from a name.
LEMMA ReachedIs ==
    ASSUME NEW ps, NEW n \in Nat, Len(ps) = n, DOMAIN ps = 1..n, NEW k \in Used(ps)
    PROVE  IsReached(Reached(ps, k), k, Used(ps), LinksOf(ps))
  <1>1. PICK U : U = Used(ps)
    OBVIOUS
  <1>2. PICK link : link = LinksOf(ps)
    OBVIOUS
  <1>3. U \subseteq 1..n /\ IsFiniteSet(U) /\ Cardinality(U) <= n /\ k \in U
    BY <1>1, PlacesAreFinite, FS_Subset DEF Used
  <1>4. PICK g : Growing(g, k, U, link, n)
    BY <1>3, GrowingExists
  <1>. DEFINE W(w) == w = [i \in 0..n |-> IF i = 0 THEN {k}
                          ELSE w[i - 1] \cup {j \in Used(ps) : \E h \in w[i - 1] : Touching(ps, h, j)}]
              grow == CHOOSE w : W(w)
  <1>5. ASSUME NEW w, Growing(w, k, U, link, n), NEW i \in 0..n PROVE w[i] \subseteq U
    <2>. DEFINE Good == {a \in Nat : a <= n => w[a] \subseteq U}
    <2>1. 0 \in Good
      BY <1>3, <1>5 DEF Growing
    <2>2. ASSUME NEW a \in Nat, a \in Good PROVE a + 1 \in Good
      <3>. SUFFICES ASSUME a + 1 <= n PROVE w[a + 1] \subseteq U
        OBVIOUS
      <3>1. a + 1 \in 0..n /\ a + 1 # 0 /\ (a + 1) - 1 = a /\ w[a] \subseteq U
        BY <2>2
      <3>2. w[a + 1] = w[a] \cup {j \in U : \E h \in w[a] : <<h, j>> \in link}
        BY <1>5, <3>1 DEF Growing
      <3>. QED BY <3>1, <3>2
    <2>3. i \in Good
      <3>. HIDE DEF Good
      <3>1. i \in Nat
        OBVIOUS
      <3>. QED BY <2>1, <2>2, <3>1, Books!NatInduct
    <2>. QED BY <2>3
  <1>6. W(g)
    <2>1. ASSUME NEW i \in 0..n, i # 0
          PROVE  {j \in U : \E h \in g[i - 1] : <<h, j>> \in link}
                    = {j \in Used(ps) : \E h \in g[i - 1] : Touching(ps, h, j)}
      <3>1. i - 1 \in 0..n
        BY <2>1
      <3>2. g[i - 1] \subseteq U
        BY <1>4, <1>5, <3>1
      <3>. QED BY <1>1, <1>2, <3>2 DEF LinksOf
    <2>2. g = [i \in 0..n |-> IF i = 0 THEN {k}
                              ELSE g[i - 1] \cup {j \in U : \E h \in g[i - 1] : <<h, j>> \in link}]
      BY <1>4 DEF Growing
    <2>. QED BY <2>1, <2>2
  <1>7. W(grow)
    <2>. HIDE DEF W
    <2>. QED BY <1>6
  <1>8. PICK w : w = grow
    OBVIOUS
  <1>9. W(w)
    BY <1>7, <1>8
  <1>10. Reached(ps, k) = w[n]
    BY <1>8 DEF Reached
  <1>. HIDE DEF grow
  <1>11. w = g
    <2>. DEFINE Good == {a \in Nat : a <= n => w[a] = g[a]}
    <2>1. 0 \in Good
      BY <1>6, <1>9
    <2>2. ASSUME NEW a \in Nat, a \in Good PROVE a + 1 \in Good
      <3>. SUFFICES ASSUME a + 1 <= n PROVE w[a + 1] = g[a + 1]
        OBVIOUS
      <3>1. a + 1 \in 0..n /\ a + 1 # 0 /\ (a + 1) - 1 = a /\ w[a] = g[a]
        BY <2>2
      <3>2. w[a + 1] = w[a] \cup {j \in Used(ps) : \E h \in w[a] : Touching(ps, h, j)}
        BY <1>9, <3>1
      <3>3. g[a + 1] = g[a] \cup {j \in Used(ps) : \E h \in g[a] : Touching(ps, h, j)}
        BY <1>6, <3>1
      <3>. QED BY <3>1, <3>2, <3>3
    <2>3. ASSUME NEW i \in 0..n PROVE w[i] = g[i]
      <3>1. i \in Good
        <4>. HIDE DEF Good
        <4>1. i \in Nat
          OBVIOUS
        <4>. QED BY <2>1, <2>2, <4>1, Books!NatInduct
      <3>. QED BY <3>1
    <2>4. w = [i \in 0..n |-> w[i]] /\ g = [i \in 0..n |-> g[i]]
      <3>1. DOMAIN w = 0..n /\ DOMAIN g = 0..n
        BY <1>6, <1>9
      <3>. QED BY <1>6, <1>9
    <2>. QED BY <2>3, <2>4
  <1>12. IsReached(g[n], k, U, link)
    BY <1>3, <1>4, GrowingReaches
  <1>. QED BY <1>1, <1>2, <1>10, <1>11, <1>12

\* Clusters do not overlap, by correlation or by sector.
LEMMA ClustersApart ==
    ASSUME NEW ps, NEW n \in Nat, Len(ps) = n, DOMAIN ps = 1..n,
           NEW c \in Clusters(ps), NEW d \in Clusters(ps)
    PROVE  c = d \/ c \cap d = {}
  <1>1. CASE Correlated(ps)
    <2>1. PICK k \in Used(ps) : c = Reached(ps, k)
      BY <1>1 DEF Clusters
    <2>2. PICK h \in Used(ps) : d = Reached(ps, h)
      BY <1>1 DEF Clusters
    <2>3. PICK U : U = Used(ps)
      OBVIOUS
    <2>4. PICK link : link = LinksOf(ps)
      OBVIOUS
    <2>5. ASSUME NEW i \in U, NEW j \in U, <<i, j>> \in link PROVE <<j, i>> \in link
      <3>1. Touching(ps, i, j) /\ {i, j} = {j, i}
        BY <2>3, <2>4, <2>5 DEF LinksOf
      <3>2. Touching(ps, j, i)
        BY <3>1 DEF Touching
      <3>. QED BY <2>3, <2>4, <3>2 DEF LinksOf
    <2>6. IsReached(c, k, U, link) /\ IsReached(d, h, U, link) /\ k \in U /\ h \in U
      BY <2>1, <2>2, <2>3, <2>4, ReachedIs
    <2>. QED BY ONLY <2>5, <2>6, ReachedApart
  <1>2. CASE ~Correlated(ps)
    <2>1. PICK s : c = InSector(ps, s)
      BY <1>2 DEF Clusters, SectorClusters
    <2>2. PICK t : d = InSector(ps, t)
      BY <1>2 DEF Clusters, SectorClusters
    <2>. QED BY <2>1, <2>2 DEF InSector
  <1>. QED BY <1>1, <1>2

-----------------------------------------------------------------------------
\* What a statement and an archive may be.
HoldingTypes == statement \in Seq(Lines) /\ archive \in Archives

\* Every state has them.
LEMMA HoldingInductive ==
    /\ HoldingInit => HoldingTypes
    /\ HoldingTypes /\ [HoldingNext]_holdingVars => HoldingTypes'
  <1>1. HoldingInit => HoldingTypes
    BY EmptySeq DEF HoldingInit, HoldingTypes
  <1>2. ASSUME HoldingTypes, AppendLine PROVE HoldingTypes'
    BY <1>2, AppendProperties DEF HoldingTypes, AppendLine
  <1>3. ASSUME HoldingTypes, UNCHANGED holdingVars PROVE HoldingTypes'
    BY <1>3 DEF HoldingTypes, holdingVars
  <1>. QED BY <1>1, <1>2, <1>3 DEF HoldingNext

\* The book of any statement adds up.
LEMMA BookHolds == HoldingTypes => BookAddsUp
  <1>. SUFFICES ASSUME HoldingTypes PROVE BookAddsUp
    OBVIOUS
  <1>1. PICK f \in Seq(Lines) : f = statement
    BY DEF HoldingTypes
  <1>2. PICK ps : ps = Positions(f)
    OBVIOUS
  <1>3. PICK book : book = MergeHoldings(Lots(f))
    OBVIOUS
  <1>4. PICK n : n = Len(book)
    OBVIOUS
  <1>5. /\ IsBook(ps, n) /\ Len(ps) = n /\ DOMAIN ps = 1..n /\ n \in Nat
        /\ QtysOf(ps) = QtysOf(book) /\ CostsOf(ps) = CostsOf(book)
        /\ StocksOf(ps) = StocksOf(book)
    BY <1>2, <1>3, <1>4, PositionsFacts DEF HoldingTypes, IsBook
  <1>6. /\ SumFunction(QtysOf(book)) = SumFunction(ReadQtys(f))
        /\ SumFunction(CostsOf(book)) = SumFunction(ReadCosts(f))
        /\ \A i \in Readable(f) : f[i].stock \in StocksOf(book)
    BY <1>3, BookOfLines
  <1>7. SumFunction([k \in DOMAIN ps |-> ps[k].qty])
           = SumFunction([i \in Readable(f) |-> f[i].qty])
    BY <1>5, <1>6 DEF QtysOf, ReadQtys
  <1>8. CostOf(ps, DOMAIN ps) = SumFunction([i \in Readable(f) |-> Paid(f[i], Columns(f))])
    BY <1>5, <1>6 DEF CostOf, CostsOf, ReadCosts
  <1>9. ASSUME NEW i \in DataLines(f)
        PROVE  \/ \E k \in DOMAIN ps : ps[k].stock = f[i].stock
               \/ i \in Skipped(f) \/ f[i].stock = NoName
    <2>1. CASE i \in Readable(f)
      BY <1>5, <1>6, <2>1 DEF StocksOf
    <2>2. CASE i \notin Readable(f)
      BY <2>2 DEF Skipped
    <2>. QED BY <2>1, <2>2
  <1>10. /\ SumFunction([s \in DOMAIN BySector(ps) |-> BySector(ps)[s].value]) = Whole(ps)
         /\ SumFunction([b \in DOMAIN ByBroker(ps) |-> ByBroker(ps)[b].value]) = Whole(ps)
    BY <1>5, ExposuresAddUp
  <1>11. \A c, d \in Clusters(ps) : c = d \/ c \cap d = {}
    BY <1>5, ClustersApart
  <1>. QED BY <1>1, <1>2, <1>7, <1>8, <1>9, <1>10, <1>11 DEF BookAddsUp

\* The book adds up, whatever the statement.
THEOREM BookIsWhole == HoldingSpec => []BookAddsUp
  <1>1. HoldingSpec => []HoldingTypes
    BY HoldingInductive, PTL DEF HoldingSpec
  <1>. QED BY <1>1, BookHolds, PTL

-----------------------------------------------------------------------------
\* The sum over a sequence or a function of integers.
LEMMA SumIsInt ==
    ASSUME NEW S, IsFiniteSet(S), NEW f, DOMAIN f = S, \A x \in S : f[x] \in Int
    PROVE  Books!Numbers(f, S) /\ SumFunction(f) = Books!Total(f, S) /\ SumFunction(f) \in Int
  <1>1. Books!Numbers(f, S)
    BY NumbersAre
  <1>2. SumFunction(f) = Books!Total(f, S)
    BY SumBooks
  <1>3. Books!Total(f, S) \in Int
    BY ONLY <1>1, Books!SumAdd
  <1>. QED BY <1>1, <1>2, <1>3

\* Functions that agree have the same sum.
LEMMA SameSum ==
    ASSUME NEW S, IsFiniteSet(S), NEW f, \A x \in S : f[x] \in Int, NEW h, \A x \in S : h[x] = f[x]
    PROVE  Books!Total(h, S) = Books!Total(f, S)
  <1>1. Books!Numbers(f, S) /\ \A x \in S : h[x] = f[x]
    BY NumbersAre
  <1>. QED BY ONLY <1>1, Books!SumSame

\* What is sold in part and kept in part, to five tenths each.
LEMMA PartsAddUp ==
    ASSUME NEW n \in Nat, NEW S \in SUBSET (1..n), NEW c, NEW w, NEW v,
           \A k \in S : c[k] \in Int, \A k \in 1..n : w[k] \in Int, \A k \in 1..n : v[k] \in Int,
           \A k \in S : 10 * c[k] + w[k] - 10 * v[k] \in (-5)..5,
           \A k \in (1..n) \ S : w[k] = 10 * v[k],
           NEW off, off = 10 * Books!Total(c, S) + Books!Total(w, 1..n) - 10 * Books!Total(v, 1..n)
    PROVE  off <= 5 * Cardinality(S) /\ -off <= 5 * Cardinality(S)
  <1>. DEFINE R == (1..n) \ S
              e == [k \in 1..n |-> w[k] + (-10) * v[k]]
              u == [k \in 1..n |-> (-10) * v[k]]
              t == [k \in S |-> 10 * c[k]]
              o == [k \in S |-> t[k] + e[k]]
              up == [k \in S |-> 5]
              down == [k \in S |-> -5]
  <1>1. IsFiniteSet(1..n) /\ IsFiniteSet(S) /\ IsFiniteSet(R) /\ S \cap R = {} /\ S \cup R = 1..n
    BY PlacesAreFinite, FS_Subset
  <1>2. /\ Books!Numbers(c, S) /\ Books!Numbers(w, 1..n) /\ Books!Numbers(v, 1..n)
    BY <1>1, NumbersAre
  <1>3. \A k \in 1..n : u[k] = (-10) * v[k] /\ e[k] = w[k] + u[k]
    OBVIOUS
  <1>4. \A k \in S : t[k] = 10 * c[k] /\ o[k] = t[k] + e[k]
    OBVIOUS
  <1>5. \A k \in R : e[k] = 0
    OBVIOUS
  <1>6. \A k \in S : up[k] = 5 /\ down[k] = -5 /\ down[k] <= o[k] /\ o[k] <= up[k]
    <2>1. ASSUME NEW k \in S PROVE o[k] \in (-5)..5
      <3>1. PICK x \in Int, y \in Int, z \in Int : x = c[k] /\ y = w[k] /\ z = v[k]
        OBVIOUS
      <3>2. 10 * x + y - 10 * z \in (-5)..5
        BY <3>1
      <3>3. 10 * x + (y + (-10) * z) = 10 * x + y - 10 * z
        OBVIOUS
      <3>4. o[k] = 10 * x + (y + (-10) * z)
        BY <3>1
      <3>. QED BY <3>2, <3>3, <3>4
    <2>2. \A k \in S : up[k] = 5 /\ down[k] = -5
      OBVIOUS
    <2>. HIDE DEF o, up, down
    <2>3. \A x \in (-5)..5 : -5 <= x /\ x <= 5
      OBVIOUS
    <2>. QED BY <2>1, <2>2, <2>3
  <1>. HIDE DEF e, u, t, o, up, down, R
  <1>7. Books!Numbers(u, 1..n) /\ Books!Total(u, 1..n) = (-10) * Books!Total(v, 1..n)
        /\ Books!Total(v, 1..n) \in Int
    <2>1. Books!Numbers(v, 1..n) /\ -10 \in Int /\ \A k \in 1..n : u[k] = (-10) * v[k]
      BY <1>2, <1>3
    <2>. QED BY ONLY <2>1, Books!SumTimes
  <1>8. Books!Numbers(e, 1..n)
        /\ Books!Total(e, 1..n) = Books!Total(w, 1..n) + Books!Total(u, 1..n)
    <2>1. Books!Numbers(w, 1..n) /\ Books!Numbers(u, 1..n) /\ \A k \in 1..n : e[k] = w[k] + u[k]
      BY <1>2, <1>3, <1>7
    <2>. QED BY ONLY <2>1, Books!SumPlus
  <1>9. Books!Numbers(t, S) /\ Books!Total(t, S) = 10 * Books!Total(c, S)
        /\ Books!Total(c, S) \in Int
    <2>1. Books!Numbers(c, S) /\ 10 \in Int /\ \A k \in S : t[k] = 10 * c[k]
      BY <1>2, <1>4
    <2>. QED BY ONLY <2>1, Books!SumTimes
  <1>10. Books!Numbers(e, S) /\ Books!Numbers(e, R)
    <2>1. \A k \in 1..n : e[k] \in Int
      BY <1>8 DEF Books!Numbers
    <2>. QED BY <1>1, <2>1, NumbersAre
  <1>11. Books!Total(e, 1..n) = Books!Total(e, S)
    <2>1. Books!Total(e, S \cup R) = Books!Total(e, S) + Books!Total(e, R)
          /\ Books!Total(e, S) \in Int
      BY ONLY <1>1, <1>10, Books!SumSplit
    <2>2. Books!Total(e, R) = 0
      <3>1. Books!IsFiniteSet(R) /\ \A k \in R : e[k] = 0
        BY <1>1, <1>5, FiniteBooks
      <3>. QED BY ONLY <3>1, Books!NoneAdd
    <2>3. Books!Total(e, 1..n) = Books!Total(e, S \cup R)
      BY <1>1
    <2>. QED BY <2>1, <2>2, <2>3
  <1>12. Books!Numbers(o, S) /\ Books!Total(o, S) = Books!Total(t, S) + Books!Total(e, S)
    <2>1. Books!Numbers(t, S) /\ Books!Numbers(e, S) /\ \A k \in S : o[k] = t[k] + e[k]
      BY <1>4, <1>9, <1>10
    <2>. QED BY ONLY <2>1, Books!SumPlus
  <1>13. /\ Books!Numbers(up, S) /\ Books!Total(up, S) = 5 * Cardinality(S)
         /\ Cardinality(S) \in Nat
    <2>1. Books!IsFiniteSet(S) /\ 5 \in Int /\ \A k \in S : up[k] = 5
      BY <1>1, <1>6, FiniteBooks
    <2>2. /\ Books!Numbers(up, S) /\ Books!Total(up, S) = 5 * Books!Cardinality(S)
          /\ Books!Cardinality(S) \in Nat
      BY ONLY <2>1, Books!SumConstant
    <2>. QED BY <2>2, FiniteBooks
  <1>14. Books!Numbers(down, S) /\ Books!Total(down, S) = (-5) * Cardinality(S)
    <2>1. Books!IsFiniteSet(S) /\ -5 \in Int /\ \A k \in S : down[k] = -5
      BY <1>1, <1>6, FiniteBooks
    <2>2. Books!Numbers(down, S) /\ Books!Total(down, S) = (-5) * Books!Cardinality(S)
      BY ONLY <2>1, Books!SumConstant
    <2>. QED BY <2>2, FiniteBooks
  <1>15. Books!Total(o, S) <= Books!Total(up, S)
    <2>1. Books!Numbers(o, S) /\ Books!Numbers(up, S) /\ \A k \in S : o[k] <= up[k]
      BY <1>6, <1>12, <1>13
    <2>. QED BY ONLY <2>1, Books!SumLeq
  <1>16. Books!Total(down, S) <= Books!Total(o, S)
    <2>1. Books!Numbers(down, S) /\ Books!Numbers(o, S) /\ \A k \in S : down[k] <= o[k]
      BY <1>6, <1>12, <1>14
    <2>. QED BY ONLY <2>1, Books!SumLeq
  <1>17. Books!Total(w, 1..n) \in Int /\ Books!Total(e, S) \in Int
    <2>1. Books!Numbers(w, 1..n)
      BY <1>2
    <2>2. Books!Total(w, 1..n) \in Int
      BY ONLY <2>1, Books!SumAdd
    <2>3. Books!Total(e, S) \in Int
      BY ONLY <1>10, Books!SumAdd
    <2>. QED BY <2>2, <2>3
  <1>18. off = Books!Total(o, S)
    BY <1>7, <1>8, <1>9, <1>11, <1>12, <1>17
  <1>19. PICK m \in Nat, x \in Int : m = Cardinality(S) /\ x = Books!Total(o, S)
    BY <1>9, <1>12, <1>13, <1>17
  <1>20. (-5) * m <= x /\ x <= 5 * m
    BY <1>13, <1>14, <1>15, <1>16, <1>19
  <1>. QED BY <1>18, <1>19, <1>20

\* A floor of a quotient, times the divisor.
LEMMA FloorIs ==
    ASSUME NEW a \in Nat, NEW d \in Nat \ {0}
    PROVE  a \div d \in Nat /\ d * (a \div d) <= a
  OBVIOUS

\* Equal shares of money, each spent no further than whole shares go.
LEMMA SharesAddUp ==
    ASSUME NEW n \in Nat \ {0}, NEW money \in Nat, NEW spent,
           \A i \in 1..n : spent[i] \in Int, \A i \in 1..n : (1000 * n) * spent[i] <= money
    PROVE  1000 * Books!Total(spent, 1..n) <= money
  <1>0. PICK a \in Int : a = 1000 * n
    OBVIOUS
  <1>. DEFINE many == [i \in 1..n |-> a * spent[i]]
              each == [i \in 1..n |-> money]
  <1>1. \A i \in 1..n : many[i] = a * spent[i] /\ each[i] = money /\ a * spent[i] <= money
    BY <1>0
  <1>2. Books!Numbers(spent, 1..n) /\ a \in Int
    BY PlacesAreFinite, NumbersAre
  <1>. HIDE DEF many, each
  <1>3. /\ Books!Numbers(many, 1..n)
        /\ Books!Total(many, 1..n) = a * Books!Total(spent, 1..n)
        /\ Books!Total(spent, 1..n) \in Int
    BY ONLY <1>1, <1>2, Books!SumTimes
  <1>4. /\ Books!Numbers(each, 1..n) /\ Books!Total(each, 1..n) = money * n
    <2>1. Books!IsFiniteSet(1..n) /\ money \in Int /\ \A i \in 1..n : each[i] = money
      BY <1>1, PlacesAreFinite, FiniteBooks
    <2>2. Books!Numbers(each, 1..n) /\ Books!Total(each, 1..n) = money * Books!Cardinality(1..n)
      BY ONLY <2>1, Books!SumConstant
    <2>. QED BY <2>2, PlacesAreFinite, FiniteBooks
  <1>5. Books!Total(many, 1..n) <= Books!Total(each, 1..n)
    <2>1. Books!Numbers(many, 1..n) /\ Books!Numbers(each, 1..n) /\ \A i \in 1..n : many[i] <= each[i]
      BY <1>1, <1>3, <1>4
    <2>. QED BY ONLY <2>1, Books!SumLeq
  <1>6. PICK t \in Int : t = Books!Total(spent, 1..n)
    BY <1>3
  <1>7. (1000 * n) * t <= money * n
    BY <1>0, <1>3, <1>4, <1>5, <1>6
  <1>8. n * (1000 * t) <= n * money
    BY <1>7
  <1>. QED BY <1>6, <1>8

\* Max over two numbers.
LEMMA GreaterOfTwo ==
    ASSUME NEW a \in Int, NEW b \in Int
    PROVE  Max({a, b}) = IF a >= b THEN a ELSE b
  <1>1. PICK m : m = IF a >= b THEN a ELSE b
    OBVIOUS
  <1>2. m \in {a, b} /\ \A x \in {a, b} : x <= m
    BY <1>1
  <1>3. \A y \in {a, b} : (\A x \in {a, b} : x <= y) => y = m
    BY <1>1
  <1>. QED BY <1>1, <1>2, <1>3 DEF Max

\* What part of a position is sold.
LEMMA TenthsAre == \A a : Tenths(a) \in {0, 6, 10}
  BY DEF Tenths

\* Parts of a number of shares or of money, rounded.
LEMMA InTenthsIs ==
    ASSUME NEW x \in Int, NEW t \in {0, 6, 10}
    PROVE  /\ InTenths(x, t) \in Int
           /\ x >= 0 => /\ InTenths(x, t) \in 0..x
                        /\ 10 * InTenths(x, t) + (10 - t) * x - 10 * x \in (-5)..5
  <1>1. InTenths(x, t) \in Int
    BY DEF InTenths
  <1>2. ASSUME x >= 0 PROVE InTenths(x, t) = (x * t + 5) \div 10
    BY <1>2 DEF InTenths
  <1>3. ASSUME x >= 0, t = 0 PROVE (x * t + 5) \div 10 = 0
    BY <1>3
  <1>4. ASSUME x >= 0, t = 10 PROVE (x * t + 5) \div 10 = x
    BY <1>4
  <1>5. ASSUME x >= 0, t = 6
        PROVE  /\ (x * t + 5) \div 10 \in 0..x
               /\ 10 * ((x * t + 5) \div 10) + 4 * x - 10 * x \in (-5)..5
    BY <1>5
  <1>6. ASSUME x >= 0
        PROVE  /\ InTenths(x, t) \in 0..x
               /\ 10 * InTenths(x, t) + (10 - t) * x - 10 * x \in (-5)..5
    BY <1>2, <1>3, <1>4, <1>5, <1>6
  <1>. QED BY <1>1, <1>6

\* The return over n bars is a number or none.
LEMMA ReturnIs ==
    ASSUME NEW c \in Seq(Int), NEW n \in Nat
    PROVE  ReturnOver(c, n) = NoReturn \/ \E r \in Int : ReturnOver(c, n) = <<r>>
  <1>1. CASE Len(c) > n /\ c[Len(c) - n] > 0
    <2>1. Len(c) \in 1..Len(c) /\ Len(c) - n \in 1..Len(c)
      BY <1>1, LenProperties
    <2>2. PICK a \in Int : a = c[Len(c) - n]
      BY <2>1, ElementOfSeq
    <2>3. PICK b \in Int : b = Last(c)
      BY <2>1, ElementOfSeq DEF Last
    <2>4. ReturnOver(c, n) = <<(100 * (b - a)) \div a>>
      BY <1>1, <2>2, <2>3 DEF ReturnOver
    <2>5. (100 * (b - a)) \div a \in Int
      BY <1>1, <2>2
    <2>. QED BY <2>4, <2>5
  <1>2. CASE ~(Len(c) > n /\ c[Len(c) - n] > 0)
    BY <1>2 DEF ReturnOver
  <1>. QED BY <1>1, <1>2

\* How far a stock is ahead of the market.
LEMMA RelativeIs ==
    ASSUME NEW c \in Seq(Int), NEW n \in Nat
    PROVE  OrZero(Relative(c, n)) \in Int
  <1>1. Benchmark \in Seq(Int)
    BY HoldingAssumption
  <1>2. CASE NoReturn \in {ReturnOver(c, n), ReturnOver(Benchmark, n)}
    BY <1>2 DEF Relative, OrZero
  <1>3. CASE NoReturn \notin {ReturnOver(c, n), ReturnOver(Benchmark, n)}
    <2>1. PICK r \in Int : ReturnOver(c, n) = <<r>>
      BY <1>3, ReturnIs
    <2>2. PICK s \in Int : ReturnOver(Benchmark, n) = <<s>>
      BY <1>1, <1>3, ReturnIs
    <2>3. Relative(c, n) = <<r - s>>
      BY <1>3, <2>1, <2>2 DEF Relative
    <2>4. <<r - s>> # NoReturn
      BY DEF NoReturn
    <2>. QED BY <2>3, <2>4 DEF OrZero
  <1>. QED BY <1>2, <1>3

\* The closes of an archive's bars, and the last of them.
LEMMA ClosesAre ==
    ASSUME NEW bars \in Seq([day : Int, close : Int])
    PROVE  ClosesOf(bars) \in Seq(Int) /\ LastClose(bars) \in Int
  <1>1. PICK n \in Nat : n = Len(bars) /\ DOMAIN bars = 1..n
    BY LenProperties
  <1>2. \A i \in 1..n : bars[i] \in [day : Int, close : Int]
    BY <1>1, ElementOfSeq
  <1>3. \A i \in 1..n : bars[i].close \in Int
    <2>1. \A b \in [day : Int, close : Int] : b.close \in Int
      OBVIOUS
    <2>. QED BY <1>2, <2>1
  <1>4. ClosesOf(bars) = [i \in 1..n |-> bars[i].close]
    BY <1>1 DEF ClosesOf
  <1>5. ClosesOf(bars) \in Seq(Int)
    BY <1>3, <1>4, IsASeq
  <1>6. LastClose(bars) \in Int
    <2>1. CASE bars = <<>>
      BY <2>1 DEF LastClose
    <2>2. CASE bars # <<>>
      <3>1. n \in 1..n
        BY <1>1, <2>2, EmptySeq
      <3>. QED BY <1>1, <1>3, <2>2, <3>1 DEF LastClose, Last
    <2>. QED BY <2>1, <2>2
  <1>. QED BY <1>5, <1>6

\* A stock's strength is a number.
LEMMA StrengthIs ==
    ASSUME archive \in Archives, NEW s \in LongEdged
    PROVE  Strength(s) \in Int /\ LastClose(archive[s]) \in Int
  <1>1. archive[s] \in Seq([day : Int, close : Int]) /\ HalfYear \in Nat /\ OneYear \in Nat
    BY HoldingAssumption
  <1>2. PICK c \in Seq(Int) : c = ClosesOf(archive[s])
    BY <1>1, ClosesAre
  <1>3. OrZero(Relative(c, HalfYear)) \in Int /\ OrZero(Relative(c, OneYear)) \in Int
    BY <1>1, RelativeIs
  <1>. QED BY <1>1, <1>2, <1>3, ClosesAre DEF Strength

\* Candidates are stocks with a long edge that are not held.
LEMMA CandidatesAre ==
    ASSUME archive \in Archives, NEW ps
    PROVE  BuyCandidates(ps) \in Seq(LongEdged \ {ps[k].stock : k \in DOMAIN ps})
  <1>1. PICK S \in SUBSET (LongEdged \ {ps[k].stock : k \in DOMAIN ps}) :
            BuyCandidates(ps) = Sorted(S, Stronger(S))
    BY DEF BuyCandidates
  <1>2. IsFiniteSet(S) /\ S \subseteq LongEdged
    BY HoldingAssumption, FS_Subset
  <1>3. \A s \in S : Strength(s) \in Int /\ EdgeSeat[s] \in Nat
    BY <1>2, StrengthIs, HoldingAssumption
  <1>4. \A s, t \in S : EdgeSeat[s] = EdgeSeat[t] => s = t
    BY <1>2, HoldingAssumption
  <1>5. PICK R : R = Stronger(S)
    OBVIOUS
  <1>6. \A s, t \in S : <<s, t>> \in R <=>
            \/ Strength(s) > Strength(t)
            \/ Strength(s) = Strength(t) /\ EdgeSeat[s] < EdgeSeat[t]
    BY <1>5 DEF Stronger
  <1>7. Books!Linear(R, S)
    <2>1. ASSUME NEW s \in S PROVE <<s, s>> \notin R
      BY <1>3, <1>6
    <2>2. ASSUME NEW s \in S, NEW t \in S PROVE s = t \/ <<s, t>> \in R \/ <<t, s>> \in R
      BY <1>3, <1>4, <1>6
    <2>3. ASSUME NEW s \in S, NEW t \in S, NEW u \in S, <<s, t>> \in R, <<t, u>> \in R
          PROVE  <<s, u>> \in R
      BY <1>3, <1>6, <2>3
    <2>. QED BY <2>1, <2>2, <2>3 DEF Books!Linear
  <1>8. Books!Lined(Sorted(S, R), S, R, Cardinality(S))
    <2>1. Books!IsFiniteSet(S)
      BY <1>2, FiniteBooks
    <2>. QED BY <1>7, <2>1, Books!SortedIs, FiniteBooks, SortBooks
  <1>9. BuyCandidates(ps) \in Seq(S)
    BY <1>1, <1>5, <1>8 DEF Books!Lined
  <1>. QED BY <1>9, SeqMonotonic

\* What is raised by the sales and left after tax.
LEMMA SalesAre ==
    ASSUME NEW ps, NEW n, IsBook(ps, n)
    PROVE  /\ CashRaised(ps) \in Nat
           /\ ToRedeploy(ps) \in Nat /\ ToRedeploy(ps) <= 1000 * CashRaised(ps)
           /\ \A k \in Sells(ps) : SellRow(ps, k).shares <= ps[k].qty
  <1>1. PICK S : S = Sells(ps)
    OBVIOUS
  <1>2. S \subseteq 1..n /\ IsFiniteSet(S)
    <2>1. S \subseteq 1..n /\ n \in Nat
      BY <1>1 DEF Sells, IsBook
    <2>. QED BY <2>1, PlacesAreFinite, FS_Subset
  <1>3. ASSUME NEW k \in S
        PROVE  /\ SellRow(ps, k).cash \in Nat /\ SellRow(ps, k).gain \in Int
               /\ SellRow(ps, k).shares <= ps[k].qty
    <2>1. PICK t \in {0, 6, 10} : t = Tenths(ActionOf(ps, k))
      BY TenthsAre
    <2>2. ps[k].qty \in Nat /\ ps[k].value \in Nat /\ ps[k].cost \in Nat
      BY <1>2 DEF IsBook
    <2>3. PICK q \in Nat, v \in Nat, c \in Nat : q = ps[k].qty /\ v = ps[k].value /\ c = ps[k].cost
      BY <2>2
    <2>4. InTenths(q, t) \in 0..q /\ InTenths(v, t) \in 0..v /\ InTenths(v - c, t) \in Int
      BY InTenthsIs
    <2>5. /\ SellRow(ps, k).shares = InTenths(q, t) /\ SellRow(ps, k).cash = InTenths(v, t)
          /\ SellRow(ps, k).gain = InTenths(v - c, t)
      BY <2>1, <2>3 DEF SellRow
    <2>. QED BY <2>3, <2>4, <2>5
  <1>4. CashRaised(ps) \in Nat
    <2>1. PICK f : f = [k \in S |-> SellRow(ps, k).cash]
      OBVIOUS
    <2>2. CashRaised(ps) = Books!Total(f, S) /\ Books!Numbers(f, S) /\ \A k \in S : f[k] \in Nat
      BY <1>1, <1>2, <1>3, <2>1, SumIsInt DEF CashRaised
    <2>3. Books!Total(f, S) \in Nat
      BY <1>2, <2>2, FiniteBooks, Books!SumNat
    <2>. QED BY <2>2, <2>3
  <1>5. Gain(ps) \in Int
    <2>1. PICK f : f = [k \in S |-> SellRow(ps, k).gain]
      OBVIOUS
    <2>. QED BY <1>1, <1>2, <1>3, <2>1, SumIsInt DEF Gain
  <1>6. Tax(Gain(ps)) \in Nat
    <2>1. PICK g \in Int : g = Gain(ps) - TaxExempt
      BY <1>5, HoldingAssumption
    <2>2. Max({0, g}) \in Nat
      BY GreaterOfTwo
    <2>. QED BY <2>1, <2>2 DEF Tax
  <1>7. PICK c \in Nat, t \in Nat : c = CashRaised(ps) /\ t = Tax(Gain(ps))
    BY <1>4, <1>6
  <1>8. ToRedeploy(ps) = Max({0, 1000 * c - t})
    BY <1>7 DEF ToRedeploy
  <1>9. Max({0, 1000 * c - t}) = IF 0 >= 1000 * c - t THEN 0 ELSE 1000 * c - t
    BY GreaterOfTwo
  <1>. QED BY <1>1, <1>3, <1>7, <1>8, <1>9

\* Equal shares of the money buy no more than it pays.
LEMMA BuysAre ==
    ASSUME archive \in Archives, NEW names \in Seq(LongEdged), NEW n \in Nat, n <= Len(names),
           NEW money \in Nat, NEW buys, buys = BuyRows(names, n, money)
    PROVE  /\ DOMAIN buys = 1..n /\ \A i \in 1..n : buys[i].stock = names[i]
           /\ 1000 * SumFunction([i \in DOMAIN buys |->
                                     buys[i].shares * LastClose(archive[buys[i].stock])]) <= money
  <1>1. DOMAIN buys = 1..n /\ \A i \in 1..n : buys[i].stock = names[i]
    BY DEF BuyRows
  <1>2. \A i \in 1..n : names[i] \in LongEdged
    <2>1. \A i \in 1..n : i \in 1..Len(names)
      BY LenProperties
    <2>. QED BY <2>1, ElementOfSeq
  <1>3. PICK f : f = [i \in DOMAIN buys |-> buys[i].shares * LastClose(archive[buys[i].stock])]
    OBVIOUS
  <1>4. ASSUME NEW i \in 1..n PROVE f[i] \in Int /\ (1000 * n) * f[i] <= money
    <2>1. PICK c \in Int : c = LastClose(archive[names[i]])
      BY <1>2, StrengthIs
    <2>2. buys[i].shares = IF c > 0 THEN money \div (1000 * n * c) ELSE 0
      BY <2>1 DEF BuyRows
    <2>3. f[i] = buys[i].shares * c
      BY <1>1, <1>3, <2>1
    <2>4. CASE c > 0
      <3>1. n \in Nat \ {0} /\ n * c \in Nat \ {0}
        BY <2>4
      <3>2. PICK d \in Nat \ {0} : d = 1000 * n * c
        BY <2>4, <3>1
      <3>3. PICK q \in Nat : q = money \div d /\ d * q <= money
        BY <3>2, FloorIs
      <3>4. f[i] = q * c /\ q * c \in Int
        BY <2>2, <2>3, <2>4, <3>2, <3>3
      <3>5. (1000 * n) * (q * c) = d * q
        BY <3>2
      <3>. QED BY <3>3, <3>4, <3>5
    <2>5. CASE ~(c > 0)
      <3>1. f[i] = 0 * c /\ 0 * c = 0
        BY <2>2, <2>3, <2>5
      <3>. QED BY <3>1
    <2>. QED BY <2>4, <2>5
  <1>5. DOMAIN f = 1..n
    BY <1>1, <1>3
  <1>6. IsFiniteSet(1..n) /\ \A i \in 1..n : f[i] \in Int
    BY <1>4, PlacesAreFinite
  <1>7. SumFunction(f) = Books!Total(f, 1..n)
    BY <1>5, <1>6, SumIsInt
  <1>8. 1000 * Books!Total(f, 1..n) <= money
    <2>1. CASE n = 0
      <3>1. \A x \in 1..n : f[x] = 0
        BY <2>1
      <3>2. Books!IsFiniteSet(1..n)
        BY <1>6, FiniteBooks
      <3>3. Books!Total(f, 1..n) = 0
        BY ONLY <3>1, <3>2, Books!NoneAdd
      <3>. QED BY <3>3
    <2>2. CASE n # 0
      <3>1. n \in Nat \ {0} /\ \A i \in 1..n : f[i] \in Int /\ (1000 * n) * f[i] <= money
        BY <1>4, <2>2
      <3>. QED BY <3>1, SharesAddUp
    <2>. QED BY <2>1, <2>2
  <1>. QED BY <1>1, <1>3, <1>7, <1>8

-----------------------------------------------------------------------------
\* The buys of a rotation: none of them held, and paid for by what is to be redeployed.
LEMMA RedeployedIs ==
    ASSUME archive \in Archives, NEW ps, NEW n, IsBook(ps, n), NEW buys, buys = Buys(ps)
    PROVE  /\ 1000 * SumFunction([i \in DOMAIN buys |->
                                    buys[i].shares * LastClose(archive[buys[i].stock])])
                 <= ToRedeploy(ps)
           /\ \A i \in DOMAIN buys, k \in DOMAIN ps : buys[i].stock # ps[k].stock
  <1>1. ToRedeploy(ps) \in Nat
    BY SalesAre
  <1>2. CASE Sells(ps) = {} \/ ToRedeploy(ps) = 0
    <2>1. buys = <<>> /\ DOMAIN buys = {}
      BY <1>2, EmptySeq, LenProperties DEF Buys
    <2>2. PICK f : f = [i \in DOMAIN buys |-> buys[i].shares * LastClose(archive[buys[i].stock])]
      OBVIOUS
    <2>3. SumFunction(f) = 0
      <3>1. DOMAIN f = {} /\ Books!Numbers(f, {})
        BY <2>1, <2>2, FS_EmptySet, NumbersAre
      <3>2. Books!Total(f, {}) = 0
        BY <3>1, Books!SumAdd
      <3>. QED BY <3>1, <3>2, SumBooks
    <2>. QED BY <1>1, <2>1, <2>2, <2>3
  <1>3. CASE ~(Sells(ps) = {} \/ ToRedeploy(ps) = 0)
    <2>1. PICK held : held = {ps[k].stock : k \in DOMAIN ps}
      OBVIOUS
    <2>2. PICK names \in Seq(LongEdged \ held) : names = BuyCandidates(ps)
      BY <2>1, CandidatesAre
    <2>3. names \in Seq(LongEdged) /\ Len(names) \in Nat /\ DOMAIN names = 1..Len(names)
      BY LenProperties, SeqMonotonic
    <2>4. PICK m : m = Min({Redeploy, Len(names)})
      OBVIOUS
    <2>5. m \in Nat /\ m <= Len(names)
      <3>1. Redeploy \in Nat
        BY HoldingAssumption
      <3>2. PICK S : S = {Redeploy, Len(names)}
        OBVIOUS
      <3>3. S \subseteq Int /\ S # {} /\ 0 \in Int /\ \A x \in S : 0 <= x
        BY <2>3, <3>1, <3>2
      <3>4. Books!Min(S) \in S /\ \A x \in S : Books!Min(S) <= x
        BY ONLY <3>3, Books!MinIs
      <3>5. Min(S) = Books!Min(S)
        BY DEF Min, Books!Min
      <3>. QED BY <2>3, <2>4, <3>1, <3>2, <3>4, <3>5
    <2>6. PICK money \in Nat : money = ToRedeploy(ps)
      BY <1>1
    <2>7. buys = BuyRows(names, m, money)
      BY <1>3, <2>2, <2>4, <2>6 DEF Buys, Redeployed
    <2>8. /\ DOMAIN buys = 1..m /\ \A i \in 1..m : buys[i].stock = names[i]
          /\ 1000 * SumFunction([i \in DOMAIN buys |->
                                    buys[i].shares * LastClose(archive[buys[i].stock])]) <= money
      BY <2>3, <2>5, <2>7, BuysAre
    <2>9. ASSUME NEW i \in DOMAIN buys, NEW k \in DOMAIN ps PROVE buys[i].stock # ps[k].stock
      <3>1. i \in 1..Len(names) /\ buys[i].stock = names[i]
        BY <2>3, <2>5, <2>8
      <3>2. names[i] \in LongEdged \ held
        BY <3>1, ElementOfSeq
      <3>. QED BY <2>1, <3>1, <3>2
    <2>. QED BY <2>6, <2>8, <2>9
  <1>. QED BY <1>2, <1>3

\* What is sold and what is kept is the book, to half a unit per sale.
LEMMA SoldAndKept ==
    ASSUME NEW ps, NEW n, IsBook(ps, n), NEW off,
           off = 10 * CashRaised(ps) + SumFunction([k \in DOMAIN ps |-> KeptTenths(ps, k)])
                    - 10 * Whole(ps)
    PROVE  off <= 5 * Cardinality(Sells(ps)) /\ -off <= 5 * Cardinality(Sells(ps))
  <1>1. n \in Nat /\ DOMAIN ps = 1..n /\ IsFiniteSet(1..n)
    BY PlacesAreFinite DEF IsBook
  <1>2. PICK S \in SUBSET (1..n) : S = Sells(ps)
    BY <1>1 DEF Sells
  <1>3. IsFiniteSet(S)
    BY <1>1, FS_Subset
  <1>4. PICK c : c = [k \in S |-> SellRow(ps, k).cash]
    OBVIOUS
  <1>5. PICK w : w = [k \in 1..n |-> KeptTenths(ps, k)]
    OBVIOUS
  <1>6. PICK v : v = ValuesOf(ps)
    OBVIOUS
  <1>7. ASSUME NEW k \in 1..n
        PROVE  /\ w[k] \in Int /\ v[k] \in Int
               /\ k \in S => c[k] \in Int /\ 10 * c[k] + w[k] - 10 * v[k] \in (-5)..5
               /\ k \notin S => w[k] = 10 * v[k]
    <2>1. PICK t \in {0, 6, 10} : t = Tenths(ActionOf(ps, k))
      BY TenthsAre
    <2>2. PICK x \in Nat : x = ps[k].value
      BY DEF IsBook
    <2>3. InTenths(x, t) \in 0..x /\ 10 * InTenths(x, t) + (10 - t) * x - 10 * x \in (-5)..5
      BY InTenthsIs
    <2>4. v[k] = x /\ w[k] = (10 - t) * x
      BY <1>1, <1>5, <1>6, <2>1, <2>2 DEF ValuesOf, KeptTenths
    <2>5. k \in S => c[k] = InTenths(x, t)
      BY <1>4, <2>1, <2>2 DEF SellRow
    <2>6. k \notin S => t = 0
      BY <1>1, <1>2, <2>1 DEF Sells
    <2>7. w[k] \in Int
      BY <2>4
    <2>. QED BY <2>3, <2>4, <2>5, <2>6, <2>7
  <1>8. CashRaised(ps) = Books!Total(c, S)
    BY <1>2, <1>3, <1>4, <1>7, SumIsInt DEF CashRaised
  <1>9. SumFunction([k \in DOMAIN ps |-> KeptTenths(ps, k)]) = Books!Total(w, 1..n)
    BY <1>1, <1>5, <1>7, SumIsInt
  <1>10. Whole(ps) = Books!Total(v, 1..n)
    <2>1. 1..n \in SUBSET (1..n)
      OBVIOUS
    <2>. QED BY <1>1, <1>6, <2>1, ValueIs DEF Whole
  <1>11. off = 10 * Books!Total(c, S) + Books!Total(w, 1..n) - 10 * Books!Total(v, 1..n)
    BY <1>8, <1>9, <1>10
  <1>12. /\ \A k \in S : c[k] \in Int
         /\ \A k \in 1..n : w[k] \in Int
         /\ \A k \in 1..n : v[k] \in Int
         /\ \A k \in S : 10 * c[k] + w[k] - 10 * v[k] \in (-5)..5
         /\ \A k \in (1..n) \ S : w[k] = 10 * v[k]
    BY <1>7
  <1>13. off <= 5 * Cardinality(S) /\ -off <= 5 * Cardinality(S)
    BY ONLY <1>1, <1>11, <1>12, PartsAddUp
  <1>. QED BY <1>2, <1>13

\* The rotation of any statement moves money and makes none.
LEMMA RotationIsSound == HoldingTypes => RotationAddsUp
  <1>. SUFFICES ASSUME HoldingTypes PROVE RotationAddsUp
    OBVIOUS
  <1>1. PICK f \in Seq(Lines) : f = statement
    BY DEF HoldingTypes
  <1>2. PICK ps : ps = Positions(f)
    OBVIOUS
  <1>3. PICK n : n = Len(MergeHoldings(Lots(f)))
    OBVIOUS
  <1>4. IsBook(ps, n) /\ archive \in Archives
    BY <1>2, <1>3, PositionsFacts DEF HoldingTypes
  <1>5. PICK off : off = 10 * CashRaised(ps)
                         + SumFunction([k \in DOMAIN ps |-> KeptTenths(ps, k)]) - 10 * Whole(ps)
    OBVIOUS
  <1>6. off <= 5 * Cardinality(Sells(ps)) /\ -off <= 5 * Cardinality(Sells(ps))
    BY <1>4, <1>5, SoldAndKept
  <1>7. PICK buys : buys = Buys(ps)
    OBVIOUS
  <1>8. /\ 1000 * SumFunction([i \in DOMAIN buys |->
                                  buys[i].shares * LastClose(archive[buys[i].stock])])
              <= ToRedeploy(ps)
        /\ \A i \in DOMAIN buys, k \in DOMAIN ps : buys[i].stock # ps[k].stock
    BY <1>4, <1>7, RedeployedIs
  <1>9. /\ ToRedeploy(ps) <= 1000 * CashRaised(ps)
        /\ \A k \in Sells(ps) : SellRow(ps, k).shares <= ps[k].qty
    BY <1>4, SalesAre
  <1>10. RotationHolds(ps, Sells(ps), buys, CashRaised(ps), ToRedeploy(ps))
    BY <1>5, <1>6, <1>8, <1>9 DEF RotationHolds
  <1>. QED BY <1>1, <1>2, <1>7, <1>10 DEF RotationAddsUp, RotationOf

\* The rotation moves money and makes none, whatever the statement.
THEOREM RotationIsWhole == HoldingSpec => []RotationAddsUp
  <1>1. HoldingSpec => []HoldingTypes
    BY HoldingInductive, PTL DEF HoldingSpec
  <1>. QED BY <1>1, RotationIsSound, PTL

-----------------------------------------------------------------------------
Price1 == Nat \ {0}

\* Prices over a span: a part of a line of prices that has a last one.
LEMMA LastPrices ==
    ASSUME NEW c \in Seq(Price1), Len(c) > 0, NEW n \in Nat \ {0}, NEW w, w = LastN(c, n)
    PROVE  /\ w \in Seq(Price1) /\ Len(w) \in Nat \ {0} /\ DOMAIN w = 1..Len(w)
           /\ Last(c) \in Price1
           /\ \A i \in 1..Len(w) : w[i] \in Price1
  <1>1. PICK m \in Nat : m = Len(c) /\ m > 0 /\ DOMAIN c = 1..m
    BY LenProperties
  <1>2. PICK h : h = Min({n, m})
    OBVIOUS
  <1>3. h \in 1..m
    <2>1. PICK S : S = {n, m}
      OBVIOUS
    <2>2. S \subseteq Int /\ S # {} /\ 0 \in Int /\ \A x \in S : 0 <= x
      BY <1>1, <2>1
    <2>3. Books!Min(S) \in S /\ \A x \in S : Books!Min(S) <= x
      BY ONLY <2>2, Books!MinIs
    <2>4. Min(S) = Books!Min(S)
      BY DEF Min, Books!Min
    <2>. QED BY <1>1, <1>2, <2>1, <2>3, <2>4
  <1>4. w = SubSeq(c, m - h + 1, m)
    BY <1>1, <1>2 DEF LastN
  <1>5. /\ w \in Seq(Price1) /\ Len(w) = h
    <2>1. PICK a \in 1..m : a = m - h + 1
      BY <1>3
    <2>2. /\ SubSeq(c, a, m) \in Seq(Price1)
          /\ Len(SubSeq(c, a, m)) = IF a <= m THEN m - a + 1 ELSE 0
      BY <1>1, <2>1, SubSeqProperties
    <2>. QED BY <1>3, <1>4, <2>1, <2>2
  <1>6. DOMAIN w = 1..Len(w) /\ \A i \in 1..Len(w) : w[i] \in Price1
    BY <1>5, LenProperties, ElementOfSeq
  <1>7. Last(c) \in Price1
    BY <1>1, ElementOfSeq DEF Last
  <1>. QED BY <1>3, <1>5, <1>6, <1>7

\* A price against another, in percent.
LEMMA OverIs ==
    ASSUME NEW x \in Price1, NEW base \in Price1
    PROVE  Over100(x, base) \in Int /\ -100 <= Over100(x, base)
  <1>1. (100 * (x - base)) \div base \in Int /\ -100 <= (100 * (x - base)) \div base
    <2>0. PICK b \in Nat \ {0}, y \in Nat \ {0} : b = base /\ y = x
      BY DEF Price1
    <2>1. PICK a \in Int : a = 100 * (y - b)
      OBVIOUS
    <2>2. b * (-100) <= a
      BY <2>1
    <2>3. PICK q \in Int : q = a \div b /\ a < b * q + b
      BY SMTT(30)
    <2>4. -100 <= q
      <3>1. b * (-100) < b * (q + 1)
        BY <2>2, <2>3
      <3>2. -100 < q + 1
        BY <3>1
      <3>. QED BY <3>2
    <2>. QED BY <2>0, <2>1, <2>3, <2>4
  <1>. QED BY <1>1 DEF Over100

\* The whole part of a square root.
LEMMA RootIs ==
    ASSUME NEW x \in Nat
    PROVE  Root(x) \in 0..x
  <1>. DEFINE S == {r \in 0..x : r * r <= x}
  <1>1. 0 \in S
    OBVIOUS
  <1>2. PICK r \in S : \A s \in S : s <= r
    <2>1. S \subseteq 0..x /\ S # {} /\ 0 \in Int /\ x \in Int
      BY <1>1
    <2>. HIDE DEF S
    <2>. QED BY ONLY <2>1, Books!GreatestInt
  <1>3. r + 1 \notin S
    <2>1. r \in Int
      OBVIOUS
    <2>. QED BY <1>2, <2>1
  <1>4. (r + 1) * (r + 1) > x
    <2>1. r \in Nat /\ (r + 1) * (r + 1) \in Nat
      OBVIOUS
    <2>2. CASE r + 1 \in 0..x
      BY <1>3, <2>1, <2>2
    <2>3. CASE r + 1 \notin 0..x
      <3>1. r + 1 > x
        BY <2>1, <2>3
      <3>2. (r + 1) * (r + 1) >= r + 1
        BY <2>1
      <3>. QED BY <2>1, <3>1, <3>2
    <2>. QED BY <2>2, <2>3
  <1>5. r \in 0..x /\ r * r <= x
    OBVIOUS
  <1>. QED BY <1>4, <1>5 DEF Root

\* The mean of some numbers, and how far they are spread.
LEMMA SpreadIs ==
    ASSUME NEW S, IsFiniteSet(S), S # {}, NEW f, DOMAIN f = S, \A x \in S : f[x] \in Int
    PROVE  MeanFn(f) \in Int /\ Deviation2(f) \in Nat
  <1>1. Cardinality(S) \in Nat \ {0}
    BY FS_CardinalityType, FS_EmptySet
  <1>2. MeanFn(f) \in Int
    <2>1. SumFunction(f) \in Int
      BY SumIsInt
    <2>. QED BY <1>1, <2>1 DEF MeanFn
  <1>3. PICK m \in Int : m = MeanFn(f)
    BY <1>2
  <1>4. PICK g : g = [x \in DOMAIN f |-> (f[x] - MeanFn(f)) * (f[x] - MeanFn(f))]
    OBVIOUS
  <1>5. \A x \in S : g[x] \in Nat
    <2>1. ASSUME NEW x \in S PROVE g[x] \in Nat
      <3>1. PICK d \in Int : d = f[x] - m
        OBVIOUS
      <3>2. g[x] = d * d
        BY <1>3, <1>4, <3>1
      <3>3. d * d >= 0
        OBVIOUS
      <3>. QED BY <3>2, <3>3
    <2>. QED BY <2>1
  <1>6. DOMAIN g = S
    BY <1>4
  <1>7. SumFunction(g) \in Nat
    <2>1. SumFunction(g) = Books!Total(g, S)
      BY <1>5, <1>6, SumIsInt
    <2>2. Books!Total(g, S) \in Nat
      BY <1>5, FiniteBooks, Books!SumNat
    <2>. QED BY <2>1, <2>2
  <1>8. MeanFn(g) \in Nat
    <2>1. PICK a \in Nat, d \in Nat \ {0} : a = SumFunction(g) /\ d = Cardinality(S)
      BY <1>1, <1>7
    <2>2. a \div d \in Nat
      BY FloorIs
    <2>. QED BY <1>6, <2>1, <2>2 DEF MeanFn
  <1>9. Deviation2(f) = Root(MeanFn(g))
    BY <1>4 DEF Deviation2
  <1>10. Root(MeanFn(g)) \in Nat
    BY <1>8, RootIs
  <1>. QED BY <1>2, <1>9, <1>10

\* How far from the mean, in hundredths of the spread.
LEMMA ZIs ==
    ASSUME NEW S, IsFiniteSet(S), NEW f, DOMAIN f = S, \A x \in S : f[x] \in Int, NEW s \in S
    PROVE  Z(f)[s] \in Int
  <1>1. PICK m \in Int, d \in Nat : m = MeanFn(f) /\ d = Deviation2(f)
    BY SpreadIs
  <1>2. Z(f)[s] = IF d = 0 THEN 0 ELSE (100 * (f[s] - m)) \div d
    BY <1>1 DEF Z
  <1>3. d # 0 => (100 * (f[s] - m)) \div d \in Int
    <2>1. PICK a \in Int : a = 100 * (f[s] - m)
      OBVIOUS
    <2>. QED BY <2>1
  <1>. QED BY <1>2, <1>3

\* The volatility of the closes is a number.
LEMMA VolatilityIs ==
    ASSUME NEW c \in Seq(Price1), Len(c) > 0, NEW n \in Nat
    PROVE  Volatility(c, n) \in Nat
  <1>1. PICK w : w = LastN(c, n + 1)
    OBVIOUS
  <1>2. /\ Len(w) \in Nat \ {0} /\ \A i \in 1..Len(w) : w[i] \in Price1
    BY <1>1, LastPrices
  <1>3. PICK m \in Nat : m = Len(w) - 1
    BY <1>2
  <1>4. PICK moves : moves = [i \in 1..(Len(w) - 1) |-> Over100(w[i + 1], w[i])]
    OBVIOUS
  <1>5. DOMAIN moves = 1..m /\ \A i \in 1..m : moves[i] \in Int
    <2>1. ASSUME NEW i \in 1..m PROVE moves[i] \in Int
      <3>1. i \in 1..Len(w) /\ i + 1 \in 1..Len(w)
        BY <1>2, <1>3
      <3>2. Over100(w[i + 1], w[i]) \in Int
        BY <1>2, <3>1, OverIs
      <3>. QED BY <1>3, <1>4, <3>2
    <2>. QED BY <1>3, <1>4, <2>1
  <1>6. Len(moves) = m
    BY <1>3, <1>4, LenProperties
  <1>7. CASE Len(moves) < 2
    BY <1>1, <1>4, <1>7 DEF Volatility
  <1>8. CASE ~(Len(moves) < 2)
    <2>1. 1..m # {} /\ IsFiniteSet(1..m)
      <3>1. m >= 2
        BY <1>6, <1>8
      <3>2. 1 \in 1..m
        BY <3>1
      <3>. QED BY <3>2, PlacesAreFinite
    <2>2. Deviation2(moves) \in Nat
      BY <1>5, <2>1, SpreadIs
    <2>. QED BY <1>1, <1>4, <1>8, <2>2 DEF Volatility
  <1>. QED BY <1>7, <1>8

\* What the planner's state may be: prices for every stock, a horizon and a capital.
PlanTypes ==
    /\ \A s \in Shortlist : Closes(s) \in Seq(Price1) /\ Len(Closes(s)) > 0
    /\ asked.years \in {1, 2, 3, 5, 10} /\ asked.capital \in Nat

\* The return of a window that the prices cover.
LEMMA GrowthIs ==
    ASSUME NEW c \in Seq(Price1), NEW n \in Nat, Len(c) > n
    PROVE  Growth(c, n) \in Int
  <1>1. Len(c) \in 1..Len(c) /\ Len(c) - n \in 1..Len(c)
    BY LenProperties
  <1>2. c[Len(c)] \in Price1 /\ c[Len(c) - n] \in Price1
    BY <1>1, ElementOfSeq
  <1>. QED BY <1>2, OverIs DEF Growth, Last

\* How far the price is above its average.
LEMMA AverageIs ==
    ASSUME NEW c \in Seq(Price1), Len(c) > 0
    PROVE  AboveAverage(c) \in Int
  <1>1. PICK w : w = LastN(c, Average)
    OBVIOUS
  <1>2. /\ Last(c) \in Price1 /\ Len(w) \in Nat \ {0} /\ DOMAIN w = 1..Len(w)
        /\ \A i \in 1..Len(w) : w[i] \in Price1
    BY <1>1, LastPrices, PlannerAssumption
  <1>3. PICK m \in Nat \ {0} : m = Len(w)
    BY <1>2
  <1>4. \A i \in 1..m : w[i] \in Nat /\ w[i] > 0
    BY <1>2, <1>3 DEF Price1
  <1>5. SumFunction(w) = Books!Total(w, 1..m) /\ Books!Numbers(w, 1..m)
    BY <1>2, <1>3, <1>4, PlacesAreFinite, SumIsInt
  <1>6. Books!Total(w, 1..m) \in Nat /\ Books!Total(w, 1..m) >= m
    <2>1. PICK one : one = [i \in 1..m |-> 1]
      OBVIOUS
    <2>2. Books!IsFiniteSet(1..m) /\ 1 \in Int /\ \A i \in 1..m : one[i] = 1
      BY <2>1, PlacesAreFinite, FiniteBooks
    <2>3. Books!Numbers(one, 1..m) /\ Books!Total(one, 1..m) = 1 * Books!Cardinality(1..m)
      BY ONLY <2>2, Books!SumConstant
    <2>4. Books!Total(one, 1..m) = m
      BY <2>3, PlacesAreFinite, FiniteBooks
    <2>5. \A i \in 1..m : one[i] <= w[i]
      BY <1>4, <2>1
    <2>6. Books!Total(one, 1..m) <= Books!Total(w, 1..m)
      BY ONLY <1>5, <2>3, <2>5, Books!SumLeq
    <2>7. Books!Total(w, 1..m) \in Int
      BY ONLY <1>5, Books!SumAdd
    <2>. QED BY <2>4, <2>6, <2>7
  <1>7. PICK a \in Int, t \in Nat \ {0} : a = 100 * Last(c) * Len(w) /\ t = SumFunction(w)
    BY <1>2, <1>3, <1>5, <1>6 DEF Price1
  <1>8. AboveAverage(c) = a \div t - 100
    BY <1>1, <1>7 DEF AboveAverage
  <1>9. a \div t \in Int
    OBVIOUS
  <1>. QED BY <1>8, <1>9

\* The deepest fall of a window.
LEMMA FallFacts ==
    ASSUME NEW c \in Seq(Price1), Len(c) > 0, NEW n \in Nat \ {0}
    PROVE  DeepestFall(c, n) \in Int
  <1>1. PICK w : w = LastN(c, n)
    OBVIOUS
  <1>2. /\ Len(w) \in Nat \ {0} /\ DOMAIN w = 1..Len(w)
        /\ \A i \in 1..Len(w) : w[i] \in Price1
    BY <1>1, LastPrices
  <1>3. PICK S : S = {Over100(w[p[2]], w[p[1]]) :
                         p \in {q \in (DOMAIN w) \X (DOMAIN w) : q[1] <= q[2]}}
    OBVIOUS
  <1>4. \A p \in (DOMAIN w) \X (DOMAIN w) :
            Over100(w[p[2]], w[p[1]]) \in Int /\ -100 <= Over100(w[p[2]], w[p[1]])
    <2>1. ASSUME NEW i \in DOMAIN w, NEW j \in DOMAIN w
          PROVE  Over100(w[j], w[i]) \in Int /\ -100 <= Over100(w[j], w[i])
      BY <1>2, OverIs
    <2>. QED BY <2>1
  <1>5. S \subseteq Int /\ \A x \in S : -100 <= x
    BY <1>3, <1>4
  <1>6. S # {}
    <2>1. <<1, 1>> \in {q \in (DOMAIN w) \X (DOMAIN w) : q[1] <= q[2]}
      BY <1>2
    <2>. QED BY <1>3, <2>1
  <1>7. Books!Min(S) \in S
    <2>1. -100 \in Int
      OBVIOUS
    <2>. QED BY ONLY <1>5, <1>6, <2>1, Books!MinIs
  <1>8. DeepestFall(c, n) = Min(S)
    BY <1>1, <1>3 DEF DeepestFall
  <1>. QED BY <1>5, <1>7, <1>8 DEF Min, Books!Min

\* The percent of years that rose.
LEMMA RoseIs ==
    ASSUME NEW c \in Seq(Price1)
    PROVE  Rose(c) \in Int
  <1>. DEFINE ends == {i \in (Td + 1)..Len(c) : (i - Td - 1) % Month = 0}
              rose == {i \in ends : c[i] > c[i - Td]}
  <1>1. PICK m \in Nat, t \in Nat : m = Len(c) /\ t = Td
    BY LenProperties, PlannerAssumption
  <1>2. ends \subseteq 1..m /\ rose \subseteq ends
    BY <1>1
  <1>3. IsFiniteSet(ends) /\ IsFiniteSet(rose)
    BY <1>2, PlacesAreFinite, FS_Subset
  <1>4. Rose(c) = IF ends = {} THEN 0 ELSE (100 * Cardinality(rose)) \div Cardinality(ends)
    BY DEF Rose
  <1>. HIDE DEF ends, rose
  <1>5. CASE ends = {}
    BY <1>4, <1>5
  <1>6. CASE ends # {}
    <2>1. PICK a \in Int, d \in Nat \ {0} : a = 100 * Cardinality(rose) /\ d = Cardinality(ends)
      BY <1>3, <1>6, FS_CardinalityType, FS_EmptySet
    <2>2. a \div d \in Int
      OBVIOUS
    <2>. QED BY <1>4, <1>6, <2>1, <2>2
  <1>. QED BY <1>5, <1>6

\* The order of magnitude of a market capitalisation.
LEMMA MagnitudeIs == \A x : Magnitude(x) \in Int
  <1>. SUFFICES ASSUME NEW x PROVE Magnitude(x) \in Int
    OBVIOUS
  <1>1. PICK S \in SUBSET (1..30) : Magnitude(x) = Cardinality(S)
    BY DEF Magnitude
  <1>2. IsFiniteSet(1..30)
    <2>1. 30 \in Nat
      OBVIOUS
    <2>. QED BY <2>1, PlacesAreFinite
  <1>3. IsFiniteSet(S)
    BY <1>2, FS_Subset
  <1>4. Cardinality(S) \in Nat
    BY <1>3, FS_CardinalityType
  <1>. QED BY <1>1, <1>4

\* An eligible stock has prices over the horizon.
LEMMA EligibleIs ==
    ASSUME PlanTypes, NEW y \in {1, 2, 3, 5, 10}, NEW s \in Eligible(y)
    PROVE  /\ s \in Shortlist /\ y * Td \in Nat \ {0}
           /\ Closes(s) \in Seq(Price1) /\ Len(Closes(s)) > y * Td /\ Len(Closes(s)) \in Nat
  <1>1. PICK t \in Nat \ {0}, a \in Nat \ {0} : t = Td /\ a = Slack
    BY PlannerAssumption
  <1>2. PICK m \in Nat : m = Len(Closes(s))
    BY LenProperties DEF PlanTypes, Eligible
  <1>3. PICK h : h = Max({y, 2})
    OBVIOUS
  <1>4. h \in Nat /\ y <= h
    BY <1>3, GreaterOfTwo
  <1>5. m >= h * t + a
    BY <1>1, <1>2, <1>3 DEF Eligible
  <1>6. y * t <= h * t /\ y * t \in Nat \ {0} /\ h * t \in Nat
    BY <1>4
  <1>7. m > y * t
    BY <1>5, <1>6
  <1>. QED BY <1>1, <1>2, <1>6, <1>7 DEF PlanTypes, Eligible

\* The six figures of an eligible stock.
LEMMA FactorsAre ==
    ASSUME PlanTypes, NEW y \in {1, 2, 3, 5, 10}, NEW S, S \subseteq Eligible(y),
           NEW f, f = Factors(y, S), NEW k \in 1..6
    PROVE  DOMAIN f[k] = S /\ \A s \in S : f[k][s] \in Int
  <1>1. PICK n \in Nat \ {0}, nifty \in Int :
            n = y * Td /\ nifty = IF Len(IndexCloses) > n THEN Growth(IndexCloses, n) ELSE 0
    <2>1. y * Td \in Nat \ {0}
      BY PlannerAssumption
    <2>2. IndexCloses \in Seq(Price1)
      BY PlannerAssumption DEF Price1
    <2>3. PICK n \in Nat \ {0} : n = y * Td
      BY <2>1
    <2>4. Len(IndexCloses) > n => Growth(IndexCloses, n) \in Int
      BY <2>2, GrowthIs
    <2>. QED BY <2>3, <2>4
  <1>2. ASSUME NEW s \in S
        PROVE  /\ Closes(s) \in Seq(Price1) /\ Len(Closes(s)) > 0
               /\ Growth(Closes(s), n) \in Int
    <2>1. /\ Closes(s) \in Seq(Price1) /\ Len(Closes(s)) > n /\ Len(Closes(s)) \in Nat
      BY <1>1, EligibleIs
    <2>. QED BY <2>1, GrowthIs
  <1>3. PICK f1 : f1 = [s \in S |-> Min({60 * y, Growth(Closes(s), n)})]
    OBVIOUS
  <1>4. PICK f2 : f2 = [s \in S |-> IF Len(IndexCloses) > n THEN Growth(Closes(s), n) - nifty ELSE 0]
    OBVIOUS
  <1>5. PICK f3 : f3 = [s \in S |-> AboveAverage(Closes(s))]
    OBVIOUS
  <1>6. PICK f4 : f4 = [s \in S |-> DeepestFall(Closes(s), n)]
    OBVIOUS
  <1>7. PICK f5 : f5 = [s \in S |-> Rose(Closes(s))]
    OBVIOUS
  <1>8. PICK f6 : f6 = [s \in S |-> Magnitude(MetaOf[s].cap)]
    OBVIOUS
  <1>9. f = <<f1, f2, f3, f4, f5, f6>>
    BY <1>1, <1>3, <1>4, <1>5, <1>6, <1>7, <1>8 DEF Factors
  <1>10. DOMAIN f1 = S /\ \A s \in S : f1[s] \in Int
    <2>1. ASSUME NEW s \in S PROVE f1[s] \in Int
      <3>1. PICK g \in Int, h \in Int : g = Growth(Closes(s), n) /\ h = 60 * y
        BY <1>2
      <3>2. PICK T : T = {h, g}
        OBVIOUS
      <3>3. PICK low \in Int : low <= g /\ low <= h
        OBVIOUS
      <3>4. T \subseteq Int /\ T # {} /\ \A x \in T : low <= x
        BY <3>2, <3>3
      <3>5. Books!Min(T) \in T
        BY ONLY low \in Int, <3>4, Books!MinIs
      <3>6. f1[s] = Min(T)
        BY <1>3, <3>1, <3>2
      <3>7. Min(T) = Books!Min(T)
        BY DEF Min, Books!Min
      <3>. QED BY <3>4, <3>5, <3>6, <3>7
    <2>. QED BY <1>3, <2>1
  <1>11. DOMAIN f2 = S /\ \A s \in S : f2[s] \in Int
    BY <1>2, <1>4
  <1>12. DOMAIN f3 = S /\ \A s \in S : f3[s] \in Int
    BY <1>2, <1>5, AverageIs
  <1>13. DOMAIN f4 = S /\ \A s \in S : f4[s] \in Int
    BY <1>2, <1>6, FallFacts
  <1>14. DOMAIN f5 = S /\ \A s \in S : f5[s] \in Int
    BY <1>2, <1>7, RoseIs
  <1>15. DOMAIN f6 = S /\ \A s \in S : f6[s] \in Int
    BY <1>8, MagnitudeIs
  <1>16. k = 1 \/ k = 2 \/ k = 3 \/ k = 4 \/ k = 5 \/ k = 6
    OBVIOUS
  <1>. QED BY <1>9, <1>10, <1>11, <1>12, <1>13, <1>14, <1>15, <1>16

\* The blend of an eligible stock is a number.
LEMMA BlendIs ==
    ASSUME PlanTypes, NEW y \in {1, 2, 3, 5, 10}, NEW S, S \subseteq Eligible(y), NEW s \in S
    PROVE  Blend(y, S)[s] \in Int
  <1>1. PICK f : f = Factors(y, S)
    OBVIOUS
  <1>2. IsFiniteSet(S)
    <2>1. S \subseteq Shortlist
      BY DEF Eligible
    <2>. QED BY <2>1, PlannerAssumption, FS_Subset
  <1>3. \A k \in 1..6 : Z(f[k])[s] \in Int
    BY <1>1, <1>2, FactorsAre, ZIs
  <1>4. \A k \in 1..6 : Weights(y)[k] \in Int
    <2>1. ASSUME NEW a \in Int, NEW b \in Int, NEW c \in Int, NEW d \in Int, NEW e \in Int, NEW g \in Int
          PROVE  \A k \in 1..6 : <<a, b, c, d, e, g>>[k] \in Int
      <3>. SUFFICES ASSUME NEW k \in 1..6 PROVE <<a, b, c, d, e, g>>[k] \in Int
        OBVIOUS
      <3>1. k = 1 \/ k = 2 \/ k = 3 \/ k = 4 \/ k = 5 \/ k = 6
        OBVIOUS
      <3>. QED BY <3>1
    <2>2. \/ Weights(y) = <<20, 35, 25, 5, 5, 10>> \/ Weights(y) = <<25, 30, 20, 5, 10, 10>>
          \/ Weights(y) = <<30, 20, 15, 10, 15, 10>> \/ Weights(y) = <<30, 10, 5, 20, 20, 15>>
          \/ Weights(y) = <<28, 5, 2, 25, 20, 20>>
      BY DEF Weights
    <2>. QED BY <2>1, <2>2
  <1>5. PICK g : g = [k \in 1..6 |-> Weights(y)[k] * [j \in 1..6 |-> Z(f[j])][k][s]]
    OBVIOUS
  <1>6. DOMAIN g = 1..6 /\ \A k \in 1..6 : g[k] \in Int
    <2>1. ASSUME NEW k \in 1..6 PROVE g[k] \in Int
      <3>1. PICK a \in Int, b \in Int : a = Weights(y)[k] /\ b = Z(f[k])[s]
        BY <1>3, <1>4
      <3>2. g[k] = a * b
        BY <1>5, <3>1
      <3>. QED BY <3>2
    <2>. QED BY <1>5, <2>1
  <1>7. SumFunction(g) \in Int
    <2>1. 6 \in Nat
      OBVIOUS
    <2>. QED BY <1>6, <2>1, PlacesAreFinite, SumIsInt
  <1>8. Blend(y, S)[s] = (IF s \in Backed THEN 2500 ELSE 0) + SumFunction(g)
    BY <1>1, <1>5 DEF Blend
  <1>. QED BY <1>7, <1>8

-----------------------------------------------------------------------------
Picks == INSTANCE FoldFacts WITH Op <- Picked

\* What the facts on folds speak of is what the picks are folded with.
LEMMA FoldPicks == \A q : FoldLeft(Picked, <<>>, q) = Picks!Folded(<<>>, q)
  BY DEF Picks!Folded, FoldLeft, Picks!FoldLeft, MapThenFoldSet,
         Picks!MapThenFoldSet, Max, Picks!Max

\* Picks of a sector are some of the picks.
LEMMA SectorPlaces ==
    ASSUME NEW chosen \in Seq(Shortlist), NEW s
    PROVE  OfSector(chosen, s) \subseteq 1..Len(chosen) /\ IsFiniteSet(OfSector(chosen, s))
           /\ Cardinality(OfSector(chosen, s)) \in Nat
  <1>1. PICK n \in Nat : n = Len(chosen) /\ DOMAIN chosen = 1..n
    BY LenProperties
  <1>2. OfSector(chosen, s) \subseteq 1..n
    BY <1>1 DEF OfSector
  <1>. QED BY <1>1, <1>2, PlacesAreFinite, FS_Subset, FS_CardinalityType

\* A choice: at most so many picks, none twice, no sector too often.
IsChoice(chosen) ==
    /\ chosen \in Seq(Shortlist) /\ Len(chosen) <= PickCount
    /\ \A i, j \in 1..Len(chosen) : chosen[i] = chosen[j] => i = j
    /\ \A s \in Shortlist : Cardinality(OfSector(chosen, s)) <= PerSector

\* A further stock is picked or passed over.
LEMMA PickedIs ==
    ASSUME NEW chosen, IsChoice(chosen), NEW s \in Shortlist,
           \A i \in 1..Len(chosen) : chosen[i] # s, NEW next, next = Picked(chosen, s)
    PROVE  /\ IsChoice(next)
           /\ next = chosen \/ next = Append(chosen, s)
  <1>. DEFINE fits == ~(Len(chosen) >= PickCount \/ Cardinality(OfSector(chosen, s)) >= PerSector)
  <1>1. PICK n \in Nat : n = Len(chosen) /\ DOMAIN chosen = 1..n /\ chosen \in Seq(Shortlist)
    BY LenProperties DEF IsChoice
  <1>2. CASE ~fits
    BY <1>2 DEF Picked
  <1>3. CASE fits
    <2>1. next = Append(chosen, s)
      BY <1>3 DEF Picked
    <2>2. /\ next \in Seq(Shortlist) /\ Len(next) = n + 1 /\ DOMAIN next = 1..(n + 1)
          /\ next[n + 1] = s /\ \A i \in 1..n : next[i] = chosen[i]
      BY <1>1, <2>1, AppendProperties, LenProperties
    <2>3. n + 1 <= PickCount
      BY <1>1, <1>3, PlannerAssumption
    <2>4. ASSUME NEW i \in 1..(n + 1), NEW j \in 1..(n + 1), next[i] = next[j] PROVE i = j
      <3>1. (i \in 1..n \/ i = n + 1) /\ (j \in 1..n \/ j = n + 1)
        OBVIOUS
      <3>. QED BY <1>1, <2>2, <2>4, <3>1 DEF IsChoice
    <2>5. ASSUME NEW t \in Shortlist PROVE Cardinality(OfSector(next, t)) <= PerSector
      <3>1. CASE MetaOf[s].sector = MetaOf[t].sector
        <4>1. OfSector(next, t) = OfSector(chosen, s) \cup {n + 1}
          BY <1>1, <2>2, <3>1 DEF OfSector
        <4>2. n + 1 \notin OfSector(chosen, s) /\ IsFiniteSet(OfSector(chosen, s))
              /\ Cardinality(OfSector(chosen, s)) \in Nat
          <5>1. OfSector(chosen, s) \subseteq 1..n /\ IsFiniteSet(OfSector(chosen, s))
                /\ Cardinality(OfSector(chosen, s)) \in Nat
            BY <1>1, SectorPlaces
          <5>. QED BY <5>1
        <4>3. Cardinality(OfSector(next, t)) = Cardinality(OfSector(chosen, s)) + 1
          BY <4>1, <4>2, FS_AddElement
        <4>4. Cardinality(OfSector(chosen, s)) < PerSector
          BY <1>3, <4>2, PlannerAssumption
        <4>. QED BY <4>2, <4>3, <4>4, PlannerAssumption
      <3>2. CASE MetaOf[s].sector # MetaOf[t].sector
        <4>1. OfSector(next, t) = OfSector(chosen, t)
          BY <1>1, <2>2, <3>2 DEF OfSector
        <4>. QED BY <4>1 DEF IsChoice
      <3>. QED BY <3>1, <3>2
    <2>. QED BY <2>1, <2>2, <2>3, <2>4, <2>5 DEF IsChoice
  <1>. QED BY <1>2, <1>3

\* The stocks eligible are picked from the best down.
LEMMA ChooseIs ==
    ASSUME PlanTypes, NEW y \in {1, 2, 3, 5, 10}
    PROVE  IsChoice(Choose(y))
  <1>1. PICK S : S = Eligible(y)
    OBVIOUS
  <1>2. S \subseteq Shortlist /\ IsFiniteSet(S)
    <2>1. S \subseteq Shortlist
      BY <1>1 DEF Eligible
    <2>. QED BY <2>1, PlannerAssumption, FS_Subset
  <1>3. PICK blend : blend = Blend(y, S)
    OBVIOUS
  <1>4. \A s \in S : blend[s] \in Int /\ Seat[s] \in Nat
    BY <1>1, <1>2, <1>3, BlendIs, PlannerAssumption
  <1>5. \A s, t \in S : Seat[s] = Seat[t] => s = t
    BY <1>2, PlannerAssumption
  <1>6. PICK R : R = Ahead(S, blend)
    OBVIOUS
  <1>7. \A s, t \in S : <<s, t>> \in R <=>
            \/ blend[s] > blend[t]
            \/ blend[s] = blend[t] /\ Seat[s] < Seat[t]
    BY <1>6 DEF Ahead
  <1>8. Books!Linear(R, S)
    <2>1. ASSUME NEW s \in S PROVE <<s, s>> \notin R
      BY <1>4, <1>7
    <2>2. ASSUME NEW s \in S, NEW t \in S PROVE s = t \/ <<s, t>> \in R \/ <<t, s>> \in R
      BY <1>4, <1>5, <1>7
    <2>3. ASSUME NEW s \in S, NEW t \in S, NEW u \in S, <<s, t>> \in R, <<t, u>> \in R
          PROVE  <<s, u>> \in R
      BY <1>4, <1>7, <2>3
    <2>. QED BY <2>1, <2>2, <2>3 DEF Books!Linear
  <1>9. PICK n \in Nat : n = Cardinality(S) /\ Books!Lined(Sorted(S, R), S, R, n)
    <2>1. Books!IsFiniteSet(S)
      BY <1>2, FiniteBooks
    <2>2. Books!Lined(Sorted(S, R), S, R, Cardinality(S)) /\ Cardinality(S) \in Nat
      BY <1>8, <2>1, Books!SortedIs, FiniteBooks, SortBooks
    <2>. QED BY <2>2
  <1>10. PICK q : q = Sorted(S, R) /\ Books!Lined(q, S, R, n)
    BY <1>9
  <1>11. Books!InOrder(q, S, R, n)
    BY <1>8, <1>10, Books!LinedInOrder
  <1>12. /\ \A i \in 1..n : q[i] \in Shortlist
         /\ \A i, j \in 1..n : q[i] = q[j] => i = j
    BY <1>2, <1>11 DEF Books!InOrder
  <1>13. q \in Seq(S) /\ Len(q) = n /\ DOMAIN q = 1..n
    BY <1>10, LenProperties DEF Books!Lined
  <1>14. PICK run : Picks!Through(run, <<>>, q, n)
    BY <1>13, Picks!FoldRuns
  <1>15. /\ run[0] = <<>> /\ Choose(y) = run[n]
         /\ \A k \in 1..n : run[k] = Picked(run[k - 1], q[k])
    <2>1. run[0] = <<>> /\ Picks!Folded(<<>>, q) = run[n]
          /\ \A k \in 1..n : run[k] = Picked(run[k - 1], q[k])
      BY <1>14 DEF Picks!Through
    <2>2. Choose(y) = FoldLeft(Picked, <<>>, q)
      BY <1>1, <1>3, <1>6, <1>10 DEF Choose
    <2>. QED BY <2>1, <2>2, FoldPicks
  <1>. DEFINE From(c, k) == IsChoice(c) /\ \A i \in 1..Len(c) : \E h \in 1..k : c[i] = q[h]
              Good == {k \in Nat : k <= n => From(run[k], k)}
  <1>16. 0 \in Good
    <2>1. <<>> \in Seq(Shortlist) /\ Len(<<>>) = 0 /\ DOMAIN <<>> = {}
      BY EmptySeq, LenProperties
    <2>2. ASSUME NEW s \in Shortlist PROVE Cardinality(OfSector(<<>>, s)) <= PerSector
      <3>1. OfSector(<<>>, s) = {}
        BY <2>1 DEF OfSector
      <3>2. Cardinality({}) = 0 /\ PerSector \in Nat
        BY FS_EmptySet, PlannerAssumption
      <3>. QED BY <3>1, <3>2
    <2>3. IsChoice(<<>>)
      BY <2>1, <2>2, PlannerAssumption DEF IsChoice
    <2>. QED BY <1>15, <2>1, <2>3
  <1>17. ASSUME NEW k \in Nat, k \in Good PROVE k + 1 \in Good
    <2>. SUFFICES ASSUME k + 1 <= n PROVE From(run[k + 1], k + 1)
      OBVIOUS
    <2>1. PICK c : c = run[k]
      OBVIOUS
    <2>2. From(c, k)
      BY <1>17, <1>9, <2>1
    <2>3. PICK s : s = q[k + 1]
      OBVIOUS
    <2>4. k + 1 \in 1..n /\ (k + 1) - 1 = k /\ s \in Shortlist
      BY <1>12, <2>3
    <2>5. \A i \in 1..Len(c) : c[i] # s
      <3>1. ASSUME NEW h \in 1..k PROVE q[h] # s
        <4>1. h \in 1..n /\ h # k + 1
          BY <2>4
        <4>. QED BY <1>12, <2>3, <2>4, <4>1
      <3>. QED BY <2>2, <3>1
    <2>6. PICK d : d = Picked(c, s)
      OBVIOUS
    <2>7. IsChoice(d) /\ (d = c \/ d = Append(c, s))
      BY <2>2, <2>4, <2>5, <2>6, PickedIs
    <2>8. ASSUME NEW i \in 1..Len(d) PROVE \E h \in 1..(k + 1) : d[i] = q[h]
      <3>1. \A h \in 1..k : h \in 1..(k + 1)
        OBVIOUS
      <3>2. CASE d = c
        BY <2>2, <3>1, <3>2
      <3>3. CASE d = Append(c, s)
        <4>1. c \in Seq(Shortlist) /\ Len(c) \in Nat
          BY <2>2, LenProperties DEF IsChoice
        <4>2. Len(d) = Len(c) + 1 /\ d[Len(c) + 1] = s /\ \A j \in 1..Len(c) : d[j] = c[j]
          BY <2>4, <3>3, <4>1, AppendProperties
        <4>3. i \in 1..Len(c) \/ i = Len(c) + 1
          BY <4>1, <4>2
        <4>4. k + 1 \in 1..(k + 1)
          OBVIOUS
        <4>. QED BY <2>2, <2>3, <3>1, <4>2, <4>3, <4>4
      <3>. QED BY <2>7, <3>2, <3>3
    <2>9. From(d, k + 1)
      BY <2>7, <2>8
    <2>10. run[k + 1] = d
      BY <1>15, <2>1, <2>3, <2>4, <2>6
    <2>. QED BY <2>9, <2>10
  <1>18. n \in Good
    <2>. HIDE DEF Good
    <2>. QED BY <1>9, <1>16, <1>17, Books!NatInduct
  <1>. QED BY <1>9, <1>15, <1>18

-----------------------------------------------------------------------------
\* A floor of a quotient, times the divisor, misses less than the divisor.
LEMMA FloorBetween ==
    ASSUME NEW a \in Nat, NEW d \in Nat \ {0}
    PROVE  a \div d \in Nat /\ d * (a \div d) <= a /\ a < d * (a \div d) + d
  OBVIOUS

\* A sum of floors: what is shared out in proportion, rounded down, is at most the
\* whole and misses less than one unit a share.
LEMMA FloorsAddUp ==
    ASSUME NEW S, IsFiniteSet(S), NEW inv, \A k \in S : inv[k] \in Nat \ {0},
           NEW left \in Nat, NEW all \in Nat \ {0}, all = Books!Total(inv, S),
           NEW q, \A k \in S : q[k] = (left * inv[k]) \div all
    PROVE  /\ \A k \in S : q[k] \in Nat
           /\ Books!Numbers(q, S) /\ Books!Total(q, S) \in Int
           /\ Books!Total(q, S) <= left /\ left <= Books!Total(q, S) + Cardinality(S)
           /\ Cardinality(S) \in Nat
  <1>. DEFINE x == [k \in S |-> left * inv[k]]
              z == [k \in S |-> all * q[k]]
              e == [k \in S |-> all]
              u == [k \in S |-> z[k] + e[k]]
  <1>1. ASSUME NEW k \in S
        PROVE  q[k] \in Nat /\ all * q[k] <= left * inv[k] /\ left * inv[k] <= all * q[k] + all
    <2>1. PICK a \in Nat : a = left * inv[k]
      OBVIOUS
    <2>2. q[k] = a \div all
      BY <2>1
    <2>3. a \div all \in Nat /\ all * (a \div all) <= a /\ a < all * (a \div all) + all
      BY FloorBetween
    <2>4. PICK b \in Nat : b = all * (a \div all)
      BY <2>3
    <2>5. b <= a /\ a <= b + all
      BY <2>3, <2>4
    <2>. QED BY <2>1, <2>2, <2>3, <2>4, <2>5
  <1>2. \A k \in S : /\ x[k] = left * inv[k] /\ z[k] = all * q[k] /\ e[k] = all
                     /\ u[k] = z[k] + e[k] /\ z[k] <= x[k] /\ x[k] <= u[k]
    BY <1>1
  <1>. HIDE DEF x, z, e, u
  <1>3. Books!Numbers(inv, S) /\ Books!Numbers(q, S)
    BY <1>1, NumbersAre
  <1>4. Books!Numbers(x, S) /\ Books!Total(x, S) = left * Books!Total(inv, S)
    <2>1. Books!Numbers(inv, S) /\ left \in Int /\ \A k \in S : x[k] = left * inv[k]
      BY <1>2, <1>3
    <2>. QED BY ONLY <2>1, Books!SumTimes
  <1>5. Books!Numbers(z, S) /\ Books!Total(z, S) = all * Books!Total(q, S)
        /\ Books!Total(q, S) \in Int
    <2>1. Books!Numbers(q, S) /\ all \in Int /\ \A k \in S : z[k] = all * q[k]
      BY <1>2, <1>3
    <2>. QED BY ONLY <2>1, Books!SumTimes
  <1>6. Books!Numbers(e, S) /\ Books!Total(e, S) = all * Cardinality(S) /\ Cardinality(S) \in Nat
    <2>1. Books!IsFiniteSet(S) /\ all \in Int /\ \A k \in S : e[k] = all
      BY <1>2, FiniteBooks
    <2>2. Books!Numbers(e, S) /\ Books!Total(e, S) = all * Books!Cardinality(S)
          /\ Books!Cardinality(S) \in Nat
      BY ONLY <2>1, Books!SumConstant
    <2>. QED BY <2>2, FiniteBooks
  <1>7. Books!Numbers(u, S) /\ Books!Total(u, S) = Books!Total(z, S) + Books!Total(e, S)
    <2>1. Books!Numbers(z, S) /\ Books!Numbers(e, S) /\ \A k \in S : u[k] = z[k] + e[k]
      BY <1>2, <1>5, <1>6
    <2>. QED BY ONLY <2>1, Books!SumPlus
  <1>8. Books!Total(z, S) <= Books!Total(x, S)
    <2>1. Books!Numbers(z, S) /\ Books!Numbers(x, S) /\ \A k \in S : z[k] <= x[k]
      BY <1>2, <1>4, <1>5
    <2>. QED BY ONLY <2>1, Books!SumLeq
  <1>9. Books!Total(x, S) <= Books!Total(u, S)
    <2>1. Books!Numbers(x, S) /\ Books!Numbers(u, S) /\ \A k \in S : x[k] <= u[k]
      BY <1>2, <1>4, <1>7
    <2>. QED BY ONLY <2>1, Books!SumLeq
  <1>10. PICK Q \in Int, n \in Nat : Q = Books!Total(q, S) /\ n = Cardinality(S)
    BY <1>5, <1>6
  <1>11. all * Q <= left * all /\ left * all <= all * Q + all * n
    BY <1>4, <1>5, <1>6, <1>7, <1>8, <1>9, <1>10
  <1>12. Q <= left
    <2>1. all * Q <= all * left
      BY <1>11
    <2>. QED BY <2>1
  <1>13. left <= Q + n
    <2>1. all * left <= all * (Q + n)
      BY <1>11
    <2>. QED BY <2>1
  <1>. QED BY <1>1, <1>3, <1>10, <1>12, <1>13

\* Shares above the cap are so few that capping them leaves something over.
LEMMA CappedLeave ==
    ASSUME NEW S, IsFiniteSet(S), NEW q, \A k \in S : q[k] \in Nat,
           NEW left \in Nat, Books!Total(q, S) <= left,
           NEW cap \in Nat, NEW T \in SUBSET S, \A k \in T : q[k] > cap
    PROVE  /\ IsFiniteSet(T) /\ Cardinality(T) \in Nat
           /\ cap * Cardinality(T) <= left
  <1>. DEFINE e == [k \in T |-> cap]
              R == S \ T
  <1>1. IsFiniteSet(T) /\ IsFiniteSet(R) /\ T \cap R = {} /\ T \cup R = S
    BY FS_Subset
  <1>2. \A k \in T : e[k] = cap /\ e[k] <= q[k]
    OBVIOUS
  <1>. HIDE DEF e, R
  <1>3. Books!Numbers(q, T) /\ Books!Numbers(q, R)
    BY <1>1, NumbersAre
  <1>4. Books!Total(q, T \cup R) = Books!Total(q, T) + Books!Total(q, R)
        /\ Books!Total(q, T) \in Int
    BY ONLY <1>1, <1>3, Books!SumSplit
  <1>5. Books!Total(q, R) \in Nat
    <2>1. Books!IsFiniteSet(R) /\ \A k \in R : q[k] \in Nat
      BY <1>1, FiniteBooks
    <2>. QED BY <2>1, Books!SumNat
  <1>6. Books!Numbers(e, T) /\ Books!Total(e, T) = cap * Cardinality(T) /\ Cardinality(T) \in Nat
    <2>1. Books!IsFiniteSet(T) /\ cap \in Int /\ \A k \in T : e[k] = cap
      BY <1>1, <1>2, FiniteBooks
    <2>2. Books!Numbers(e, T) /\ Books!Total(e, T) = cap * Books!Cardinality(T)
          /\ Books!Cardinality(T) \in Nat
      BY ONLY <2>1, Books!SumConstant
    <2>. QED BY <2>2, FiniteBooks
  <1>7. Books!Total(e, T) <= Books!Total(q, T)
    <2>1. Books!Numbers(e, T) /\ Books!Numbers(q, T) /\ \A k \in T : e[k] <= q[k]
      BY <1>2, <1>3, <1>6
    <2>. QED BY ONLY <2>1, Books!SumLeq
  <1>8. PICK a \in Int, b \in Nat, m \in Nat :
            a = Books!Total(q, T) /\ b = Books!Total(q, R) /\ m = Cardinality(T)
    BY <1>4, <1>5, <1>6
  <1>9. cap * m <= a /\ a + b <= left /\ cap * m \in Nat
    <2>1. cap * m <= a
      BY <1>6, <1>7, <1>8
    <2>2. Books!Total(q, S) = a + b
      BY <1>1, <1>4, <1>8
    <2>3. a + b <= left
      BY <2>2
    <2>. QED BY <2>1, <2>3
  <1>10. cap * m <= left
    BY <1>9
  <1>. QED BY <1>1, <1>8, <1>10

\* A filling: who is frozen has the cap, nobody more, and there is enough for them.
IsFilling(w, n, cap) ==
    /\ w \in [of : [1..n -> 0..cap], frozen : SUBSET (1..n)]
    /\ cap * Cardinality(w.frozen) <= 1000
    /\ \A k \in w.frozen : w.of[k] = cap
\* What is left is shared out in proportion among the others.
Settled(w, inv, n, cap) ==
    \A free, left, all :
        /\ free = (1..n) \ w.frozen
        /\ left = 1000 - cap * Cardinality(w.frozen)
        /\ all = Books!Total(inv, free)
        => \A k \in free : w.of[k] = (left * inv[k]) \div all

\* A round that F is frozen before: who is free with how much, what is left and what they
\* share it by.
IsRound(n, inv, cap, F, free, h, left, all) ==
    /\ n \in Nat /\ DOMAIN inv = 1..n /\ \A k \in 1..n : inv[k] \in Nat \ {0}
    /\ cap \in Nat /\ F \in SUBSET (1..n) /\ F # 1..n /\ cap * Cardinality(F) <= 1000
    /\ free = (1..n) \ F /\ left = 1000 - cap * Cardinality(F)
    /\ all = Books!Total(inv, free)
    /\ DOMAIN h = free /\ \A j \in free : h[j] = inv[j]

RoundGives(n, cap, F, free, h, left, all) ==
    /\ IsFiniteSet(F) /\ Cardinality(F) \in Nat
    /\ IsFiniteSet(free) /\ left \in Nat /\ all \in Nat \ {0}
    /\ all = SumFunction(h)
    /\ left = Max({0, 1000 - cap * Cardinality(F)})
    /\ Cardinality(F) + Cardinality(free) = n

\* What is left in a round is a number, and what it is shared by is above nought.
LEMMA RoundFacts ==
    ASSUME NEW n, NEW inv, NEW cap, NEW F, NEW free, NEW h, NEW left, NEW all,
           IsRound(n, inv, cap, F, free, h, left, all)
    PROVE  RoundGives(n, cap, F, free, h, left, all)
  <1>0. /\ n \in Nat /\ DOMAIN inv = 1..n /\ \A k \in 1..n : inv[k] \in Nat \ {0}
        /\ cap \in Nat /\ F \in SUBSET (1..n) /\ F # 1..n /\ cap * Cardinality(F) <= 1000
        /\ free = (1..n) \ F /\ left = 1000 - cap * Cardinality(F)
        /\ all = Books!Total(inv, free)
        /\ DOMAIN h = free /\ \A j \in free : h[j] = inv[j]
    BY DEF IsRound
  <1>. USE <1>0
  <1>1. IsFiniteSet(F) /\ Cardinality(F) \in Nat /\ IsFiniteSet(free) /\ Cardinality(free) \in Nat
    <2>1. F \in SUBSET (1..n) /\ free \in SUBSET (1..n) /\ IsFiniteSet(1..n)
      BY ONLY <1>0, PlacesAreFinite
    <2>. QED BY ONLY <2>1, FS_Subset, FS_CardinalityType
  <1>2. PICK m \in Nat : m = cap * Cardinality(F)
    BY <1>1
  <1>3. left \in Nat /\ left = Max({0, 1000 - cap * Cardinality(F)})
    <2>1. left = 1000 - m /\ m <= 1000
      BY <1>2
    <2>2. Max({0, 1000 - m}) = IF 0 >= 1000 - m THEN 0 ELSE 1000 - m
      BY GreaterOfTwo
    <2>. QED BY <1>2, <2>1, <2>2
  <1>4. Cardinality(F) + Cardinality(free) = n
    <2>1. F \cap free = {} /\ F \cup free = 1..n
      BY ONLY <1>0
    <2>2. Cardinality(F \cup free) = Cardinality(F) + Cardinality(free)
      <3>1. Cardinality(F \cup free) = Cardinality(F) + Cardinality(free) - Cardinality(F \cap free)
        BY <1>1, FS_Union
      <3>2. Cardinality(F \cap free) = 0
        BY <2>1, FS_EmptySet
      <3>. QED BY <1>1, <3>1, <3>2
    <2>. QED BY <2>1, <2>2, PlacesAreFinite
  <1>6. DOMAIN h = free /\ \A j \in free : h[j] = inv[j] /\ inv[j] \in Nat \ {0} /\ h[j] \in Int
    OBVIOUS
  <1>7. SumFunction(h) = Books!Total(inv, free)
    <2>1. SumFunction(h) = Books!Total(h, free)
      BY <1>1, <1>6, SumIsInt
    <2>2. Books!Total(h, free) = Books!Total(inv, free)
      BY <1>1, <1>6, SameSum
    <2>. QED BY <2>1, <2>2
  <1>8. all \in Nat \ {0}
    <2>1. PICK x : x \in free
      OBVIOUS
    <2>2. Books!Numbers(inv, free \ {x}) /\ x \notin free \ {x} /\ inv[x] \in Int
          /\ (free \ {x}) \cup {x} = free
      <3>1. IsFiniteSet(free \ {x}) /\ \A k \in free \ {x} : inv[k] \in Int
        BY <1>1, <1>6, FS_Subset
      <3>2. Books!Numbers(inv, free \ {x})
        BY <3>1, NumbersAre
      <3>3. inv[x] \in Int
        BY <1>6, <2>1
      <3>. QED BY <2>1, <3>2, <3>3
    <2>3. Books!Total(inv, (free \ {x}) \cup {x}) = Books!Total(inv, free \ {x}) + inv[x]
      BY ONLY <2>2, Books!SumInsert
    <2>4. Books!Total(inv, free \ {x}) \in Nat
      <3>1. Books!IsFiniteSet(free \ {x}) /\ \A k \in free \ {x} : inv[k] \in Nat
        BY <1>1, FS_Subset, FiniteBooks
      <3>. QED BY <3>1, Books!SumNat
    <2>5. inv[x] \in Nat \ {0}
      BY <1>6, <2>1
    <2>6. all = Books!Total(inv, free \ {x}) + inv[x]
      BY <2>2, <2>3
    <2>. QED BY <2>4, <2>5, <2>6
  <1>. QED BY <1>1, <1>3, <1>4, <1>7, <1>8 DEF RoundGives

\* A product of naturals grows with its second factor.
LEMMA ProductGrows ==
    ASSUME NEW a \in Nat, NEW b \in Nat, NEW c \in Nat, b <= c
    PROVE  a * b <= a * c
  <1>1. a * (c - b) \in Nat /\ a * c = a * b + a * (c - b)
    OBVIOUS
  <1>. QED BY <1>1

\* A round freezes someone more, or everybody has his share.
LEMMA RoundIs ==
    ASSUME NEW n \in Nat, NEW inv, DOMAIN inv = 1..n, \A k \in 1..n : inv[k] \in Nat \ {0},
           NEW cap \in Nat, NEW w, IsFilling(w, n, cap), w.frozen # 1..n,
           NEW next, next = FreezeRound(w, inv, cap)
    PROVE  /\ IsFilling(next, n, cap)
           /\ \/ Settled(next, inv, n, cap)
              \/ Cardinality(next.frozen) >= Cardinality(w.frozen) + 1 /\ ~Settled(w, inv, n, cap)
  <1>1. PICK F \in SUBSET (1..n) : F = w.frozen
    BY DEF IsFilling
  <1>2. cap * Cardinality(F) <= 1000 /\ F # 1..n
    BY <1>1 DEF IsFilling
  <1>3. PICK free : free = (1..n) \ F
    OBVIOUS
  <1>4. PICK left : left = 1000 - cap * Cardinality(F)
    OBVIOUS
  <1>5. PICK all : all = Books!Total(inv, free)
    OBVIOUS
  <1>6. /\ IsFiniteSet(F) /\ Cardinality(F) \in Nat
        /\ IsFiniteSet(free) /\ left \in Nat /\ all \in Nat \ {0}
        /\ all = SumFunction([j \in free |-> inv[j]])
        /\ left = Max({0, 1000 - cap * Cardinality(F)})
    <2>1. PICK h : h = [j \in free |-> inv[j]]
      OBVIOUS
    <2>4. DOMAIN h = free /\ \A j \in free : h[j] = inv[j]
      BY <2>1
    <2>2. IsRound(n, inv, cap, F, free, h, left, all)
      BY <1>2, <1>3, <1>4, <1>5, <2>4 DEF IsRound
    <2>5. RoundGives(n, cap, F, free, h, left, all)
      BY ONLY <2>2, RoundFacts
    <2>3. /\ IsFiniteSet(F) /\ Cardinality(F) \in Nat
          /\ IsFiniteSet(free) /\ left \in Nat /\ all \in Nat \ {0}
          /\ all = SumFunction(h)
          /\ left = Max({0, 1000 - cap * Cardinality(F)})
      BY ONLY <2>5 DEF RoundGives
    <2>. QED BY <2>1, <2>3
  <1>7. PICK q : q = [k \in free |-> (left * inv[k]) \div all]
    OBVIOUS
  <1>8. /\ \A k \in free : q[k] = (left * inv[k]) \div all /\ q[k] \in Nat
        /\ Books!Total(q, free) \in Int /\ Books!Total(q, free) <= left
    <2>1. \A k \in free : q[k] = (left * inv[k]) \div all /\ inv[k] \in Nat \ {0}
      BY <1>3, <1>7
    <2>2. IsFiniteSet(free) /\ left \in Nat /\ all \in Nat \ {0} /\ all = Books!Total(inv, free)
      BY <1>5, <1>6
    <2>3. /\ \A k \in free : q[k] \in Nat
          /\ Books!Total(q, free) \in Int /\ Books!Total(q, free) <= left
      BY ONLY <2>1, <2>2, FloorsAddUp
    <2>. QED BY <2>1, <2>3
  <1>9. PICK over \in SUBSET free : over = {k \in free : q[k] > cap}
    OBVIOUS
  <1>10. /\ next.frozen = F \cup over
         /\ next.of = [k \in 1..n |-> IF k \in F \cup over THEN cap ELSE q[k]]
         /\ next = [of |-> next.of, frozen |-> next.frozen]
    <2>1. over = {k \in free : (left * inv[k]) \div all > cap}
      BY <1>8, <1>9
    <2>2. next = [of |-> [k \in 1..n |-> IF k \in F \cup over THEN cap ELSE (left * inv[k]) \div all],
                  frozen |-> F \cup over]
      BY <1>1, <1>3, <1>6, <2>1 DEF FreezeRound
    <2>3. \A k \in 1..n : k \notin F \cup over => q[k] = (left * inv[k]) \div all
      BY <1>3, <1>8
    <2>. QED BY <2>2, <2>3
  <1>11. IsFiniteSet(over) /\ Cardinality(over) \in Nat /\ cap * Cardinality(over) <= left
    <2>1. \A k \in over : q[k] > cap
      BY <1>9
    <2>2. /\ IsFiniteSet(free) /\ \A k \in free : q[k] \in Nat
          /\ left \in Nat /\ Books!Total(q, free) <= left /\ cap \in Nat /\ over \in SUBSET free
      BY <1>6, <1>8
    <2>. QED BY ONLY <2>1, <2>2, CappedLeave
  <1>12. Cardinality(F \cup over) = Cardinality(F) + Cardinality(over)
    <2>1. F \cap over = {}
      BY <1>3
    <2>2. Cardinality(F \cup over) = Cardinality(F) + Cardinality(over) - Cardinality(F \cap over)
      BY <1>6, <1>11, FS_Union
    <2>3. Cardinality(F \cap over) = 0
      BY <2>1, FS_EmptySet
    <2>. QED BY <1>6, <1>11, <2>2, <2>3
  <1>13. cap * Cardinality(F \cup over) <= 1000
    <2>1. PICK a \in Nat, b \in Nat : a = Cardinality(F) /\ b = Cardinality(over)
      BY <1>6, <1>11
    <2>2. cap * (a + b) = cap * a + cap * b /\ cap * a \in Nat /\ cap * b \in Nat
      OBVIOUS
    <2>3. PICK x \in Nat, y \in Nat : x = cap * a /\ y = cap * b
      BY <2>2
    <2>4. left = 1000 - x /\ y <= left
      BY <1>4, <1>11, <2>1, <2>3
    <2>5. cap * Cardinality(F \cup over) = x + y
      BY <1>12, <2>1, <2>2, <2>3
    <2>. QED BY <2>4, <2>5
  <1>14. IsFilling(next, n, cap)
    <2>1. ASSUME NEW k \in 1..n PROVE next.of[k] \in 0..cap
      <3>1. CASE k \in F \cup over
        BY <1>10, <3>1
      <3>2. CASE k \notin F \cup over
        <4>1. k \in free /\ q[k] \in Nat /\ ~(q[k] > cap) /\ next.of[k] = q[k]
          BY <1>3, <1>8, <1>9, <1>10, <3>2
        <4>. QED BY <4>1
      <3>. QED BY <3>1, <3>2
    <2>2. next.of \in [1..n -> 0..cap]
      <3>1. next.of = [k \in 1..n |-> next.of[k]]
        BY <1>10
      <3>. QED BY <2>1, <3>1
    <2>3. next.frozen \in SUBSET (1..n)
      BY <1>3, <1>10
    <2>4. \A k \in next.frozen : next.of[k] = cap
      BY <1>3, <1>10
    <2>. QED BY <1>10, <1>13, <2>2, <2>3, <2>4 DEF IsFilling
  <1>15. CASE over = {}
    <2>1. next.frozen = F
      BY <1>10, <1>15
    <2>2. \A k \in free : next.of[k] = (left * inv[k]) \div all
      BY <1>3, <1>8, <1>10, <1>15
    <2>3. Settled(next, inv, n, cap)
      <3>1. ASSUME NEW r, NEW l, NEW t, r = (1..n) \ next.frozen,
                   l = 1000 - cap * Cardinality(next.frozen), t = Books!Total(inv, r)
            PROVE  \A k \in r : next.of[k] = (l * inv[k]) \div t
        <4>1. r = free /\ l = left /\ t = all
          BY <1>3, <1>4, <1>5, <2>1, <3>1
        <4>. QED BY <2>2, <4>1
      <3>. QED BY ONLY <3>1 DEF Settled
    <2>. QED BY <1>14, <2>3
  <1>16. CASE over # {}
    <2>1. Cardinality(over) >= 1
      BY <1>11, <1>16, FS_EmptySet
    <2>2. Cardinality(next.frozen) >= Cardinality(w.frozen) + 1
      BY <1>1, <1>6, <1>10, <1>11, <1>12, <2>1
    <2>3. ~Settled(w, inv, n, cap)
      <3>1. PICK k \in over : q[k] > cap
        BY <1>9, <1>16
      <3>2. w.of[k] \in 0..cap
        BY <1>3 DEF IsFilling
      <3>3. w.of[k] # q[k]
        BY <1>8, <3>1, <3>2
      <3>4. k \in free /\ q[k] = (left * inv[k]) \div all
        BY <1>8
      <3>5. free = (1..n) \ w.frozen /\ left = 1000 - cap * Cardinality(w.frozen)
            /\ all = Books!Total(inv, free)
        BY <1>1, <1>3, <1>4, <1>5
      <3>. QED BY ONLY <3>3, <3>4, <3>5 DEF Settled
    <2>. QED BY <1>14, <2>2, <2>3
  <1>. QED BY <1>15, <1>16

\* A settled filling, or one that froze everybody, shares the capital out.
LEMMA FillingAddsUp ==
    ASSUME NEW n \in Nat \ {0}, NEW inv, DOMAIN inv = 1..n, \A k \in 1..n : inv[k] \in Nat \ {0},
           NEW cap \in Nat, cap >= 1000 \div n,
           NEW w, IsFilling(w, n, cap), w.frozen = 1..n \/ Settled(w, inv, n, cap)
    PROVE  SumFunction(w.of) \in (1000 - 2 * n)..1000
  <1>1. PICK F \in SUBSET (1..n) : F = w.frozen
    BY DEF IsFilling
  <1>2. PICK v : v = w.of
    OBVIOUS
  <1>3. /\ cap * Cardinality(F) <= 1000 /\ DOMAIN v = 1..n
        /\ \A k \in 1..n : v[k] \in Int
        /\ \A k \in F : v[k] = cap
    BY <1>1, <1>2 DEF IsFilling
  <1>4. IsFiniteSet(F) /\ Cardinality(F) \in Nat
    BY PlacesAreFinite, FS_Subset, FS_CardinalityType
  <1>5. Books!Numbers(v, F) /\ Books!Total(v, F) = cap * Cardinality(F)
    <2>1. Books!IsFiniteSet(F) /\ cap \in Int /\ \A k \in F : v[k] = cap
      BY <1>3, <1>4, FiniteBooks
    <2>2. Books!Numbers(v, F) /\ Books!Total(v, F) = cap * Books!Cardinality(F)
      BY ONLY <2>1, Books!SumConstant
    <2>. QED BY <2>2, FiniteBooks
  <1>6. SumFunction(v) = Books!Total(v, 1..n)
    BY <1>3, PlacesAreFinite, SumIsInt
  <1>7. CASE F = 1..n
    <2>1. Cardinality(F) = n
      BY <1>7, PlacesAreFinite
    <2>2. SumFunction(v) = cap * n /\ cap * n <= 1000
      BY <1>3, <1>5, <1>6, <1>7, <2>1
    <2>3. PICK d \in Nat : d = 1000 \div n /\ 1000 < n * d + n
      BY FloorBetween
    <2>4. n * d <= n * cap
      <3>1. d <= cap
        BY <2>3
      <3>. QED BY <3>1, ProductGrows
    <2>5. n * cap = cap * n /\ cap * n \in Nat
      OBVIOUS
    <2>6. PICK s \in Nat, t \in Nat : s = cap * n /\ t = n * d
      BY <2>3
    <2>7. s <= 1000 /\ t <= s /\ 1000 < t + n
      BY <2>2, <2>3, <2>4, <2>5, <2>6
    <2>8. s \in (1000 - 2 * n)..1000
      BY <2>7
    <2>. QED BY <1>2, <2>2, <2>6, <2>8
  <1>8. CASE F # 1..n
    <2>1. PICK free : free = (1..n) \ F
      OBVIOUS
    <2>2. PICK left : left = 1000 - cap * Cardinality(F)
      OBVIOUS
    <2>3. PICK all : all = Books!Total(inv, free)
      OBVIOUS
    <2>4. /\ IsFiniteSet(free) /\ left \in Nat /\ all \in Nat \ {0}
          /\ Cardinality(F) + Cardinality(free) = n
      <3>1. PICK h : h = [j \in free |-> inv[j]]
        OBVIOUS
      <3>3. DOMAIN h = free /\ \A j \in free : h[j] = inv[j]
        BY <3>1
      <3>2. IsRound(n, inv, cap, F, free, h, left, all)
        BY <1>3, <1>8, <2>1, <2>2, <2>3, <3>3 DEF IsRound
      <3>4. RoundGives(n, cap, F, free, h, left, all)
        BY ONLY <3>2, RoundFacts
      <3>. QED BY <3>4 DEF RoundGives
    <2>5. Settled(w, inv, n, cap)
      BY <1>1, <1>8
    <2>6. \A k \in free : v[k] = (left * inv[k]) \div all
      <3>1. free = (1..n) \ w.frozen /\ left = 1000 - cap * Cardinality(w.frozen)
            /\ all = Books!Total(inv, free)
        BY <1>1, <2>1, <2>2, <2>3
      <3>. QED BY ONLY <1>2, <2>5, <3>1 DEF Settled
    <2>7. /\ Books!Numbers(v, free) /\ Books!Total(v, free) \in Int
          /\ Books!Total(v, free) <= left /\ left <= Books!Total(v, free) + Cardinality(free)
          /\ Cardinality(free) \in Nat
      <3>1. \A k \in free : inv[k] \in Nat \ {0}
        BY <2>1
      <3>2. IsFiniteSet(free) /\ left \in Nat /\ all \in Nat \ {0} /\ all = Books!Total(inv, free)
        BY <2>3, <2>4
      <3>. QED BY ONLY <2>6, <3>1, <3>2, FloorsAddUp
    <2>8. Books!Total(v, F \cup free) = Books!Total(v, F) + Books!Total(v, free)
      <3>1. F \cap free = {}
        BY <2>1
      <3>. QED BY ONLY <1>5, <2>7, <3>1, Books!SumSplit
    <2>9. F \cup free = 1..n
      BY <2>1
    <2>10. PICK c \in Nat, s \in Int, m \in Nat :
              c = cap * Cardinality(F) /\ s = Books!Total(v, free) /\ m = Cardinality(free)
      BY <1>4, <2>7
    <2>11. /\ SumFunction(v) = c + s /\ left = 1000 - c
           /\ s <= left /\ left <= s + m /\ m <= n
      <3>1. SumFunction(v) = Books!Total(v, F) + Books!Total(v, free)
        BY <1>6, <2>8, <2>9
      <3>2. SumFunction(v) = c + s
        BY <1>5, <2>10, <3>1
      <3>3. left = 1000 - c /\ s <= left /\ left <= s + m
        BY <2>2, <2>7, <2>10
      <3>4. m <= n
        BY <1>4, <2>4, <2>10
      <3>. QED BY <3>2, <3>3, <3>4
    <2>12. c + s \in (1000 - 2 * n)..1000
      BY <2>11
    <2>. QED BY <1>2, <2>11, <2>12
  <1>. QED BY <1>7, <1>8

\* Everybody's slice is within the cap, and together they share the capital out.
LEMMA FillIs ==
    ASSUME NEW n \in Nat \ {0}, NEW inv, DOMAIN inv = 1..n, Len(inv) = n,
           \A k \in 1..n : inv[k] \in Nat \ {0},
           NEW cap \in Nat, cap >= 1000 \div n, NEW v, v = Fill(inv, cap)
    PROVE  v \in [1..n -> 0..cap] /\ SumFunction(v) \in (1000 - 2 * n)..1000
  <1>. DEFINE D == {w \in [of : [1..n -> 0..cap], frozen : SUBSET (1..n)] : IsFilling(w, n, cap)}
              base == [of |-> [k \in DOMAIN inv |-> 0], frozen |-> {}]
              step == [w \in D |-> IF w.frozen = DOMAIN inv THEN w ELSE FreezeRound(w, inv, cap)]
              W(g) == g = [i \in 0..n |->
                            IF i = 0 THEN base
                            ELSE IF g[i - 1].frozen = DOMAIN inv THEN g[i - 1]
                            ELSE FreezeRound(g[i - 1], inv, cap)]
              fill == CHOOSE g : W(g)
  <1>1. \A w : w \in D <=> IsFilling(w, n, cap)
    BY DEF IsFilling
  <1>2. IsFilling(base, n, cap) /\ base.frozen = {}
    <2>1. [k \in DOMAIN inv |-> 0] \in [1..n -> 0..cap]
      OBVIOUS
    <2>2. cap * Cardinality({}) <= 1000
      BY FS_EmptySet
    <2>. QED BY <2>1, <2>2 DEF IsFilling
  <1>3. ASSUME NEW w \in D PROVE step[w] \in D
    <2>1. IsFilling(w, n, cap)
      BY <1>1
    <2>2. CASE w.frozen = DOMAIN inv
      BY <2>2
    <2>3. CASE w.frozen # DOMAIN inv
      <3>1. PICK next : next = FreezeRound(w, inv, cap)
        OBVIOUS
      <3>2. IsFilling(next, n, cap)
        BY <2>1, <2>3, <3>1, RoundIs
      <3>3. next \in D
        BY <1>1, <3>2
      <3>. QED BY <2>3, <3>1, <3>3
    <2>. QED BY <2>2, <2>3
  <1>4. \E g : W(g)
    <2>0. PICK E : E = D
      OBVIOUS
    <2>1. PICK s : s = step
      OBVIOUS
    <2>2. s \in [E -> E] /\ base \in E
      BY <1>1, <1>2, <1>3, <2>0, <2>1
    <2>3. PICK g : Books!Iterates(base, s, n, g) /\ \A i \in 0..n : g[i] \in E
      <3>. HIDE DEF base
      <3>1. n \in Nat
        OBVIOUS
      <3>. QED BY ONLY <2>2, <3>1, Books!IteratesExist
    <2>4. g = [i \in 0..n |-> IF i = 0 THEN base ELSE s[g[i - 1]]]
      BY <2>3 DEF Books!Iterates
    <2>5. ASSUME NEW i \in 0..n, i # 0
          PROVE  s[g[i - 1]] = IF g[i - 1].frozen = DOMAIN inv THEN g[i - 1]
                               ELSE FreezeRound(g[i - 1], inv, cap)
      <3>1. i - 1 \in 0..n
        BY <2>5
      <3>2. PICK w \in D : w = g[i - 1]
        BY <2>0, <2>3, <3>1
      <3>. QED BY <2>1, <3>2
    <2>6. W(g)
      <3>. HIDE DEF base, step, D
      <3>. QED BY <2>4, <2>5
    <2>. QED BY <2>6
  <1>5. PICK g : g = fill
    OBVIOUS
  <1>6. W(g)
    <2>. HIDE DEF W
    <2>. QED BY <1>4, <1>5
  <1>7. v = g[n].of
    BY <1>5 DEF Fill
  <1>. HIDE DEF fill, base
  <1>8. g[0] = base
    BY <1>6
  <1>9. ASSUME NEW i \in 1..n
        PROVE  g[i] = IF g[i - 1].frozen = 1..n THEN g[i - 1] ELSE FreezeRound(g[i - 1], inv, cap)
    <2>1. i \in 0..n /\ i # 0
      OBVIOUS
    <2>. QED BY <1>6, <2>1
  <1>. HIDE DEF W
  <1>. DEFINE At(w, i) == /\ IsFilling(w, n, cap)
                          /\ Cardinality(w.frozen) >= i \/ Settled(w, inv, n, cap)
              Good == {i \in Nat : i <= n => At(g[i], i)}
  <1>10. 0 \in Good
    <2>1. Cardinality(base.frozen) >= 0
      BY <1>2, FS_EmptySet
    <2>2. At(base, 0)
      BY <1>2, <2>1
    <2>. QED BY <1>8, <2>2
  <1>11. ASSUME NEW i \in Nat, i \in Good PROVE i + 1 \in Good
    <2>. SUFFICES ASSUME i + 1 <= n PROVE At(g[i + 1], i + 1)
      OBVIOUS
    <2>1. PICK w : w = g[i]
      OBVIOUS
    <2>2. At(w, i) /\ i + 1 \in 1..n /\ (i + 1) - 1 = i
      BY <1>11, <2>1
    <2>3. PICK next : next = g[i + 1]
      OBVIOUS
    <2>4. next = IF w.frozen = 1..n THEN w ELSE FreezeRound(w, inv, cap)
      BY <1>9, <2>1, <2>2, <2>3
    <2>5. CASE w.frozen = 1..n
      <3>1. Cardinality(w.frozen) = n
        BY <2>5, PlacesAreFinite
      <3>. QED BY <2>2, <2>3, <2>4, <2>5, <3>1
    <2>6. CASE w.frozen # 1..n
      <3>1. /\ IsFilling(next, n, cap)
            /\ \/ Settled(next, inv, n, cap)
               \/ Cardinality(next.frozen) >= Cardinality(w.frozen) + 1 /\ ~Settled(w, inv, n, cap)
        BY <2>2, <2>4, <2>6, RoundIs
      <3>2. Cardinality(w.frozen) \in Nat /\ Cardinality(next.frozen) \in Nat
        <4>1. w.frozen \subseteq 1..n /\ next.frozen \subseteq 1..n
          BY <2>2, <3>1 DEF IsFilling
        <4>. QED BY <4>1, PlacesAreFinite, FS_Subset, FS_CardinalityType
      <3>3. Cardinality(next.frozen) >= i + 1 \/ Settled(next, inv, n, cap)
        BY <2>2, <3>1, <3>2
      <3>. QED BY <2>3, <3>1, <3>3
    <2>. QED BY <2>5, <2>6
  <1>12. n \in Good
    <2>1. n \in Nat
      OBVIOUS
    <2>. HIDE DEF Good
    <2>. QED BY <1>10, <1>11, <2>1, Books!NatInduct
  <1>13. PICK w : w = g[n]
    OBVIOUS
  <1>14. At(w, n)
    BY <1>12, <1>13
  <1>15. w.frozen = 1..n \/ Settled(w, inv, n, cap)
    <2>1. CASE Cardinality(w.frozen) >= n
      <3>1. w.frozen \subseteq 1..n /\ IsFiniteSet(1..n) /\ Cardinality(1..n) = n
        BY <1>14, PlacesAreFinite DEF IsFilling
      <3>2. Cardinality(w.frozen) <= n /\ Cardinality(w.frozen) \in Nat
        BY <3>1, FS_Subset, FS_CardinalityType
      <3>3. Cardinality(w.frozen) = Cardinality(1..n)
        BY <2>1, <3>1, <3>2
      <3>4. w.frozen = 1..n
        BY <3>1, <3>3, FS_Subset
      <3>. QED BY <3>4
    <2>. QED BY <1>14, <2>1
  <1>16. SumFunction(w.of) \in (1000 - 2 * n)..1000
    BY <1>14, <1>15, FillingAddsUp
  <1>. QED BY <1>7, <1>13, <1>14, <1>16 DEF IsFilling

-----------------------------------------------------------------------------
\* Shares of n names at these prices, and what they cost name by name.
Counts(n) == [1..n -> Nat]
PricesFor(n) == [1..n -> Nat \ {0}]
CostsAt(c, price) == [k \in DOMAIN c |-> c[k] * price[k]]

\* The cash left is a number.
LEMMA CashIs ==
    ASSUME NEW n \in Nat, NEW price \in PricesFor(n), NEW c \in Counts(n), NEW capital \in Nat
    PROVE  /\ DOMAIN CostsAt(c, price) = 1..n
           /\ \A k \in 1..n : CostsAt(c, price)[k] = c[k] * price[k] /\ CostsAt(c, price)[k] \in Nat
           /\ Books!Numbers(CostsAt(c, price), 1..n)
           /\ CashLeft(c, price, capital) = capital - Books!Total(CostsAt(c, price), 1..n)
           /\ CashLeft(c, price, capital) \in Int
  <1>1. PICK f : f = CostsAt(c, price)
    OBVIOUS
  <1>2. DOMAIN f = 1..n
    BY <1>1 DEF CostsAt, Counts
  <1>3. \A k \in 1..n : f[k] = c[k] * price[k] /\ f[k] \in Nat
    <2>1. ASSUME NEW k \in 1..n PROVE f[k] = c[k] * price[k] /\ f[k] \in Nat
      <3>1. PICK a \in Nat, b \in Nat : a = c[k] /\ b = price[k]
        BY DEF Counts, PricesFor
      <3>2. f[k] = a * b
        BY <1>1, <3>1 DEF CostsAt, Counts
      <3>. QED BY <3>1, <3>2
    <2>. QED BY <2>1
  <1>4. Books!Numbers(f, 1..n) /\ SumFunction(f) = Books!Total(f, 1..n) /\ SumFunction(f) \in Int
    BY <1>2, <1>3, PlacesAreFinite, SumIsInt
  <1>5. CashLeft(c, price, capital) = capital - SumFunction(f)
    BY <1>1 DEF CashLeft, CostsAt
  <1>6. capital - SumFunction(f) \in Int
    BY <1>4
  <1>. QED BY <1>1, <1>2, <1>3, <1>4, <1>5, <1>6

\* One share more of the affordable name furthest below its slice, or none is
\* affordable.
LEMMA TopUpIs ==
    ASSUME NEW n \in Nat, NEW price \in PricesFor(n), NEW c \in Counts(n), NEW capital \in Nat,
           NEW w \in Counts(n), NEW next, next = TopUp(c, w, price, capital),
           NEW cash, cash = CashLeft(c, price, capital)
    PROVE  /\ next \in Counts(n)
           /\ \/ next = c /\ \A k \in 1..n : price[k] > cash
              \/ \E k \in 1..n : price[k] <= cash /\ CashLeft(next, price, capital) = cash - price[k]
  <1>1. cash \in Int /\ DOMAIN c = 1..n /\ \A k \in 1..n : price[k] \in Nat /\ c[k] \in Nat /\ w[k] \in Nat
    BY CashIs DEF Counts, PricesFor
  <1>2. PICK S \in SUBSET (1..n) : S = {k \in 1..n : price[k] <= cash}
    OBVIOUS
  <1>3. PICK short : short = [k \in 1..n |-> Short(c, w, price, capital, k)]
    OBVIOUS
  <1>4. PICK worst : worst = {k \in DOMAIN c : /\ price[k] <= cash
                               /\ \A j \in DOMAIN c : price[j] <= cash =>
                                     Short(c, w, price, capital, j) <= Short(c, w, price, capital, k)}
    OBVIOUS
  <1>5. next = IF worst = {} THEN c ELSE [c EXCEPT ![Min(worst)] = @ + 1]
    BY <1>4 DEF TopUp
  <1>6. worst = {k \in S : \A j \in S : short[j] <= short[k]}
    BY <1>1, <1>2, <1>3, <1>4
  <1>7. \A k \in S : short[k] \in Int
    <2>1. ASSUME NEW k \in 1..n PROVE short[k] \in Int
      <3>1. PICK a \in Int, b \in Int, d \in Int : a = w[k] /\ b = c[k] /\ d = price[k]
        BY <1>1
      <3>2. short[k] = capital * a - 1000 * b * d
        BY <1>3, <3>1 DEF Short
      <3>. QED BY <3>2
    <2>. QED BY <2>1
  <1>8. CASE S = {}
    <2>1. worst = {}
      BY <1>6, <1>8
    <2>2. \A k \in 1..n : price[k] > cash
      BY <1>1, <1>2, <1>8
    <2>. QED BY <1>5, <2>1, <2>2
  <1>9. CASE S # {}
    <2>1. worst # {}
      <3>1. n \in Nat /\ S \subseteq 1..n /\ S # {} /\ \A k \in S : short[k] \in Int
        BY <1>2, <1>7, <1>9
      <3>2. PICK b \in S : \A a \in S : short[a] <= short[b]
        BY ONLY <3>1, Books!GreatestOf
      <3>. QED BY <1>6, <3>2
    <2>2. PICK k : k = Min(worst)
      OBVIOUS
    <2>3. k \in worst
      <3>1. worst \subseteq Int /\ worst # {} /\ 1 \in Int /\ \A x \in worst : 1 <= x
        BY <1>2, <1>6, <2>1
      <3>2. Books!Min(worst) \in worst
        BY ONLY <3>1, Books!MinIs
      <3>. QED BY <2>2, <3>2 DEF Min, Books!Min
    <2>4. k \in 1..n /\ price[k] <= cash
      BY <1>2, <1>6, <2>3
    <2>5. next = [c EXCEPT ![k] = c[k] + 1]
      BY <1>5, <2>1, <2>2
    <2>6. next \in Counts(n) /\ next[k] = c[k] + 1 /\ \A j \in (1..n) \ {k} : next[j] = c[j]
      BY <1>1, <2>4, <2>5 DEF Counts
    <2>7. PICK f : f = CostsAt(c, price)
      OBVIOUS
    <2>8. PICK h : h = CostsAt(next, price)
      OBVIOUS
    <2>9. /\ Books!Numbers(f, 1..n) /\ cash = capital - Books!Total(f, 1..n)
          /\ \A j \in 1..n : f[j] = c[j] * price[j] /\ f[j] \in Nat
      BY <2>7, CashIs
    <2>10. /\ CashLeft(next, price, capital) = capital - Books!Total(h, 1..n)
           /\ \A j \in 1..n : h[j] = next[j] * price[j]
      BY <2>6, <2>8, CashIs
    <2>11. h[k] = f[k] + price[k]
      <3>1. PICK a \in Nat, b \in Nat : a = c[k] /\ b = price[k]
        BY <1>1, <2>4
      <3>2. h[k] = (a + 1) * b /\ f[k] = a * b
        BY <2>4, <2>6, <2>9, <2>10, <3>1
      <3>3. (a + 1) * b = a * b + b
        OBVIOUS
      <3>. QED BY <3>1, <3>2, <3>3
    <2>12. \A j \in (1..n) \ {k} : h[j] = f[j]
      BY <2>6, <2>9, <2>10
    <2>13. Books!Total(h, 1..n) = Books!Total(f, 1..n) + price[k] /\ Books!Total(f, 1..n) \in Int
      <3>1. PICK p \in Int : p = price[k]
        BY <1>1, <2>4
      <3>2. Books!Numbers(f, 1..n) /\ k \in 1..n /\ h[k] = f[k] + p
        BY <2>4, <2>9, <2>11, <3>1
      <3>3. Books!Total(h, 1..n) = Books!Total(f, 1..n) + p /\ Books!Total(f, 1..n) \in Int
        BY ONLY <2>12, <3>1, <3>2, Books!SumChange
      <3>. QED BY <3>1, <3>3
    <2>14. CashLeft(next, price, capital) = cash - price[k]
      BY <1>1, <2>4, <2>9, <2>10, <2>13
    <2>. QED BY <2>4, <2>6, <2>14
  <1>. QED BY <1>8, <1>9

\* Whole shares of the slices cost no more than the capital.
LEMMA SlicesAre ==
    ASSUME NEW n \in Nat, NEW price \in PricesFor(n), NEW w \in Counts(n), NEW capital \in Nat,
           SumFunction(w) <= 1000, NEW c, c = Slices(w, price, capital)
    PROVE  c \in Counts(n) /\ CashLeft(c, price, capital) >= 0
  <1>1. DOMAIN w = 1..n /\ \A k \in 1..n : price[k] \in Nat \ {0} /\ w[k] \in Nat
    BY DEF Counts, PricesFor
  <1>2. ASSUME NEW k \in 1..n
        PROVE  c[k] \in Nat /\ 1000 * (c[k] * price[k]) <= capital * w[k]
    <2>1. PICK p \in Nat \ {0}, v \in Nat : p = price[k] /\ v = w[k]
      BY <1>1
    <2>2. c[k] = (capital * v) \div (1000 * p)
      BY <1>1, <2>1 DEF Slices
    <2>3. PICK a \in Nat, d \in Nat \ {0} : a = capital * v /\ d = 1000 * p
      BY <2>1
    <2>4. PICK q \in Nat : q = a \div d /\ d * q <= a
      BY FloorIs
    <2>5. c[k] = q /\ 1000 * (q * p) = d * q
      BY <2>2, <2>3, <2>4
    <2>. QED BY <2>1, <2>3, <2>4, <2>5
  <1>3. c \in Counts(n)
    BY <1>1, <1>2 DEF Counts, Slices
  <1>4. PICK f : f = CostsAt(c, price)
    OBVIOUS
  <1>5. /\ Books!Numbers(f, 1..n) /\ CashLeft(c, price, capital) = capital - Books!Total(f, 1..n)
        /\ \A k \in 1..n : f[k] = c[k] * price[k] /\ f[k] \in Nat
    BY <1>3, <1>4, CashIs
  <1>6. PICK x : x = [k \in 1..n |-> 1000 * f[k]]
    OBVIOUS
  <1>7. PICK y : y = [k \in 1..n |-> capital * w[k]]
    OBVIOUS
  <1>8. \A k \in 1..n : x[k] = 1000 * f[k] /\ y[k] = capital * w[k] /\ x[k] <= y[k]
    BY <1>2, <1>5, <1>6, <1>7
  <1>9. Books!Numbers(w, 1..n) /\ SumFunction(w) = Books!Total(w, 1..n)
    BY <1>1, PlacesAreFinite, SumIsInt
  <1>10. Books!Numbers(x, 1..n) /\ Books!Total(x, 1..n) = 1000 * Books!Total(f, 1..n)
         /\ Books!Total(f, 1..n) \in Int
    <2>1. PICK a \in Int : a = 1000
      OBVIOUS
    <2>2. Books!Numbers(f, 1..n) /\ \A k \in 1..n : x[k] = a * f[k]
      BY <1>5, <1>8, <2>1
    <2>3. a \in Int /\ Books!Numbers(f, 1..n) /\ \A k \in 1..n : x[k] = a * f[k]
      BY <2>1, <2>2
    <2>4. Books!Numbers(x, 1..n) /\ Books!Total(x, 1..n) = a * Books!Total(f, 1..n)
          /\ Books!Total(f, 1..n) \in Int
      BY ONLY <2>3, Books!SumTimes
    <2>. QED BY <2>1, <2>4
  <1>11. Books!Numbers(y, 1..n) /\ Books!Total(y, 1..n) = capital * Books!Total(w, 1..n)
         /\ Books!Total(w, 1..n) \in Int
    <2>1. Books!Numbers(w, 1..n) /\ capital \in Int /\ \A k \in 1..n : y[k] = capital * w[k]
      BY <1>8, <1>9
    <2>. QED BY ONLY <2>1, Books!SumTimes
  <1>12. Books!Total(x, 1..n) <= Books!Total(y, 1..n)
    <2>1. Books!Numbers(x, 1..n) /\ Books!Numbers(y, 1..n) /\ \A k \in 1..n : x[k] <= y[k]
      BY <1>8, <1>10, <1>11
    <2>. QED BY ONLY <2>1, Books!SumLeq
  <1>13. PICK s \in Int, t \in Int : s = Books!Total(f, 1..n) /\ t = Books!Total(w, 1..n)
    BY <1>10, <1>11
  <1>14. 1000 * s <= capital * t /\ t <= 1000
    BY <1>9, <1>10, <1>11, <1>12, <1>13
  <1>15. capital * t <= capital * 1000
    <2>1. capital * (1000 - t) >= 0
      BY <1>14
    <2>. QED BY <2>1
  <1>16. s <= capital
    BY <1>14, <1>15
  <1>. QED BY <1>3, <1>5, <1>13, <1>16

\* Shares are bought until not one more can be.
LEMMA BuyIs ==
    ASSUME NEW n \in Nat \ {0}, NEW price \in PricesFor(n), NEW w \in Counts(n),
           NEW capital \in Nat, NEW slices \in Counts(n), CashLeft(slices, price, capital) >= 0,
           NEW c, c = Buy(slices, w, price, capital)
    PROVE  /\ c \in Counts(n) /\ CashLeft(c, price, capital) >= 0
           /\ \A k \in 1..n : CashLeft(c, price, capital) < price[k]
  <1>. DEFINE Cash(d) == CashLeft(d, price, capital)
              most == Cash(slices) \div Min(Range(price))
              Top(d) == TopUp(d, w, price, capital)
              W(g) == g = [i \in 0..most |-> IF i = 0 THEN slices ELSE Top(g[i - 1])]
              buy == CHOOSE g : W(g)
  <1>1. PICK low \in Nat \ {0} : low = Min(Range(price)) /\ \A k \in 1..n : low <= price[k]
    <2>1. PICK S : S = Range(price)
      OBVIOUS
    <2>2. S = {price[k] : k \in 1..n}
      BY <2>1 DEF Range, PricesFor
    <2>3. \A k \in 1..n : price[k] \in Nat \ {0} /\ price[k] \in S
      BY <2>2 DEF PricesFor
    <2>4. S \subseteq Int /\ S # {} /\ 0 \in Int /\ \A x \in S : 0 <= x
      <3>1. 1 \in 1..n
        OBVIOUS
      <3>. QED BY <2>2, <2>3, <3>1
    <2>5. Books!Min(S) \in S /\ \A x \in S : Books!Min(S) <= x
      BY ONLY <2>4, Books!MinIs
    <2>6. Min(S) = Books!Min(S)
      BY DEF Min, Books!Min
    <2>7. Min(S) \in Nat \ {0}
      BY <2>2, <2>3, <2>5, <2>6
    <2>. QED BY <2>1, <2>3, <2>5, <2>6, <2>7
  <1>2. PICK cash \in Nat : cash = Cash(slices)
    <2>1. n \in Nat
      OBVIOUS
    <2>. QED BY <2>1, CashIs
  <1>3. PICK m \in Nat : m = most /\ m = cash \div low /\ cash < low * m + low
    BY <1>1, <1>2, FloorBetween
  <1>4. PICK D : D = Counts(n)
    OBVIOUS
  <1>5. \A d \in D : Top(d) \in D /\ Cash(d) \in Int
    BY <1>4, TopUpIs, CashIs
  <1>6. \E g : W(g)
    <2>1. PICK s : s = [d \in D |-> Top(d)]
      OBVIOUS
    <2>2. s \in [D -> D] /\ slices \in D /\ m \in Nat
      BY <1>4, <1>5, <2>1
    <2>3. PICK g : Books!Iterates(slices, s, m, g) /\ \A i \in 0..m : g[i] \in D
      BY ONLY <2>2, Books!IteratesExist
    <2>4. g = [i \in 0..m |-> IF i = 0 THEN slices ELSE s[g[i - 1]]]
      BY <2>3 DEF Books!Iterates
    <2>5. ASSUME NEW i \in 0..m, i # 0 PROVE s[g[i - 1]] = Top(g[i - 1])
      <3>1. i - 1 \in 0..m
        BY <2>5
      <3>2. g[i - 1] \in D
        BY <2>3, <3>1
      <3>. QED BY <2>1, <3>2
    <2>6. g = [i \in 0..m |-> IF i = 0 THEN slices ELSE Top(g[i - 1])]
      <3>. HIDE DEF Top
      <3>. QED BY <2>4, <2>5
    <2>7. W(g)
      <3>. HIDE DEF Top, most
      <3>. QED BY <1>3, <2>6
    <2>. QED BY <2>7
  <1>7. PICK g : g = buy
    OBVIOUS
  <1>8. W(g)
    <2>. HIDE DEF W
    <2>. QED BY <1>6, <1>7
  <1>9. c = g[m]
    BY <1>3, <1>7 DEF Buy
  <1>. HIDE DEF buy, most
  <1>10. g[0] = slices
    <2>1. 0 \in 0..m
      OBVIOUS
    <2>. HIDE DEF Top
    <2>. QED BY <1>3, <1>8, <2>1
  <1>11. ASSUME NEW i \in 1..m PROVE g[i] = Top(g[i - 1])
    <2>1. i \in 0..m /\ i # 0
      OBVIOUS
    <2>. HIDE DEF Top
    <2>. QED BY <1>3, <1>8, <2>1
  <1>. HIDE DEF W
  <1>. DEFINE At(d, i) == /\ d \in D /\ Cash(d) >= 0
                          /\ (\A k \in 1..n : Cash(d) < price[k]) \/ Cash(d) <= cash - i * low
              Good == {i \in Nat : i <= m => At(g[i], i)}
  <1>12. 0 \in Good
    <2>1. At(slices, 0)
      BY <1>2, <1>4
    <2>. QED BY <1>10, <2>1
  <1>13. ASSUME NEW i \in Nat, i \in Good PROVE i + 1 \in Good
    <2>. SUFFICES ASSUME i + 1 <= m PROVE At(g[i + 1], i + 1)
      OBVIOUS
    <2>1. PICK d : d = g[i]
      OBVIOUS
    <2>2. PICK e : e = g[i + 1]
      OBVIOUS
    <2>3. At(d, i) /\ e = Top(d)
      <3>1. i + 1 \in 1..m /\ (i + 1) - 1 = i
        OBVIOUS
      <3>. QED BY <1>11, <1>13, <2>1, <2>2, <3>1
    <2>4. PICK h \in Int : h = Cash(d)
      BY <1>5, <2>3
    <2>5. /\ e \in D
          /\ \/ e = d /\ \A k \in 1..n : price[k] > h
             \/ \E k \in 1..n : price[k] <= h /\ Cash(e) = h - price[k]
      <3>1. n \in Nat /\ d \in Counts(n)
        BY <1>4, <2>3
      <3>. QED BY <1>4, <2>3, <2>4, <3>1, TopUpIs
    <2>6. CASE e = d /\ \A k \in 1..n : price[k] > h
      <3>1. \A k \in 1..n : price[k] \in Int
        BY DEF PricesFor
      <3>2. \A k \in 1..n : h < price[k]
        BY <2>6, <3>1
      <3>. QED BY <2>2, <2>3, <2>4, <2>6, <3>2
    <2>7. CASE \E k \in 1..n : price[k] <= h /\ Cash(e) = h - price[k]
      <3>1. PICK k \in 1..n : price[k] <= h /\ Cash(e) = h - price[k]
        BY <2>7
      <3>2. PICK p \in Nat : p = price[k] /\ low <= p
        BY <1>1 DEF PricesFor
      <3>3. Cash(e) = h - p /\ p <= h
        BY <3>1, <3>2
      <3>4. h <= cash - i * low
        <4>1. ~(\A j \in 1..n : h < price[j])
          BY <3>1, <3>2
        <4>. QED BY <2>3, <2>4, <4>1
      <3>5. (i + 1) * low = i * low + low /\ i * low \in Nat
        OBVIOUS
      <3>6. h - p <= cash - (i + 1) * low /\ h - p >= 0
        BY <3>2, <3>3, <3>4, <3>5
      <3>. QED BY <2>2, <2>5, <3>3, <3>6
    <2>. QED BY <2>5, <2>6, <2>7
  <1>14. m \in Good
    <2>. HIDE DEF Good
    <2>. QED BY <1>12, <1>13, Books!NatInduct
  <1>15. At(c, m)
    BY <1>9, <1>14
  <1>16. PICK h \in Int : h = Cash(c)
    BY <1>5, <1>15
  <1>17. \A k \in 1..n : h < price[k]
    <2>1. CASE h <= cash - m * low
      <3>1. m * low = low * m /\ low * m \in Nat
        OBVIOUS
      <3>2. h < low
        BY <1>3, <2>1, <3>1
      <3>3. \A k \in 1..n : price[k] \in Int
        BY DEF PricesFor
      <3>. QED BY <1>1, <3>2, <3>3
    <2>. QED BY <1>15, <1>16, <2>1
  <1>. QED BY <1>4, <1>15, <1>16, <1>17

-----------------------------------------------------------------------------
\* A day's close is a price.
LEMMA MovedIs ==
    ASSUME NEW close \in Price1, NEW step \in Nat
    PROVE  Moved(close, step) \in Price1
  <1>1. PICK a \in Nat : a = close * step
    BY DEF Price1
  <1>2. PICK b \in Nat : b = a \div 100
    OBVIOUS
  <1>3. Max({1, b}) = IF 1 >= b THEN 1 ELSE b
    BY GreaterOfTwo
  <1>4. Moved(close, step) = Max({1, b})
    BY <1>1, <1>2 DEF Moved
  <1>. QED BY <1>3, <1>4 DEF Price1

\* A horizon asked for is one of the five.
LEMMA YearsAre == \A y : ValidYears(y) \in {1, 2, 3, 5, 10}
  BY DEF ValidYears

\* Prices, horizon and capital stay what they may be.
LEMMA PlanInductive ==
    /\ PlannerInit => PlanTypes
    /\ PlanTypes /\ [PlannerNext]_planVars => PlanTypes'
  <1>1. PlannerInit => PlanTypes
    <2>. SUFFICES ASSUME PlannerInit PROVE PlanTypes
      OBVIOUS
    <2>1. ASSUME NEW s \in Shortlist PROVE Closes(s) \in Seq(Price1) /\ Len(Closes(s)) > 0
      <3>1. PICK p : p = Opening[s]
        OBVIOUS
      <3>2. p \in Price1
        BY <3>1, PlannerAssumption DEF Price1
      <3>3. Closes(s) = <<p>>
        BY <3>1 DEF PlannerInit, Closes
      <3>4. <<p>> \in Seq(Price1) /\ Len(<<p>>) = 1
        BY <3>2
      <3>. QED BY <3>3, <3>4
    <2>2. asked.years = 5 /\ asked.capital = 0
      BY DEF PlannerInit
    <2>. QED BY <2>1, <2>2 DEF PlanTypes
  <1>2. ASSUME PlanTypes, TradingDay PROVE PlanTypes'
    <2>1. PICK step \in [Shortlist -> Steps \cup {0}] :
             tapeOf' = [s \in Shortlist |->
                IF step[s] = 0 THEN tapeOf[s]
                ELSE [closes |-> Append(tapeOf[s].closes, Moved(Last(tapeOf[s].closes), step[s])),
                      day |-> session']]
      BY <1>2 DEF TradingDay
    <2>2. ASSUME NEW s \in Shortlist
          PROVE  tapeOf'[s].closes \in Seq(Price1) /\ Len(tapeOf'[s].closes) > 0
      <3>1. PICK c : c = tapeOf[s].closes
        OBVIOUS
      <3>2. c \in Seq(Price1) /\ Len(c) > 0
        BY <1>2, <3>1 DEF PlanTypes, Closes
      <3>3. CASE step[s] = 0
        BY <2>1, <3>1, <3>2, <3>3
      <3>4. CASE step[s] # 0
        <4>1. PICK x : x = Moved(Last(c), step[s])
          OBVIOUS
        <4>2. step[s] \in Nat
          BY PlannerAssumption
        <4>3. Last(c) \in Price1
          <5>1. 1 \in Nat \ {0}
            OBVIOUS
          <5>. QED BY <3>2, <5>1, LastPrices
        <4>4. x \in Price1
          BY <4>1, <4>2, <4>3, MovedIs
        <4>5. tapeOf'[s].closes = Append(c, x)
          BY <2>1, <3>1, <3>4, <4>1
        <4>6. Append(c, x) \in Seq(Price1) /\ Len(Append(c, x)) = Len(c) + 1 /\ Len(c) \in Nat
          BY <3>2, <4>4, AppendProperties, LenProperties
        <4>. QED BY <4>5, <4>6
      <3>. QED BY <3>3, <3>4
    <2>3. asked' = asked
      BY <1>2 DEF TradingDay
    <2>. QED BY <1>2, <2>2, <2>3 DEF PlanTypes, Closes
  <1>3. ASSUME PlanTypes, AskPlan PROVE PlanTypes'
    <2>1. PICK y \in Asked, c \in Capital : asked' = [years |-> ValidYears(y), capital |-> c]
      BY <1>3 DEF AskPlan
    <2>2. asked'.years \in {1, 2, 3, 5, 10} /\ asked'.capital \in Nat
      BY <2>1, YearsAre, PlannerAssumption
    <2>3. tapeOf' = tapeOf
      BY <1>3 DEF AskPlan
    <2>. QED BY <1>3, <2>2, <2>3 DEF PlanTypes, Closes
  <1>4. ASSUME PlanTypes, UNCHANGED planVars PROVE PlanTypes'
    BY <1>4 DEF PlanTypes, Closes, planVars
  <1>. QED BY <1>1, <1>2, <1>3, <1>4 DEF PlannerNext

\* The weights of a choice of n stocks, and the cap on each.
IsAim(w, most, chosen, n, y) ==
    /\ y \in Nat /\ chosen \in Seq(Shortlist) /\ n \in Nat \ {0} /\ n = Len(chosen)
    /\ w = Filled(chosen, y) /\ most = CapOf3(n)

\* Each weight is within the cap; together they are the capital but for the roundings.
LEMMA FilledIs ==
    ASSUME PlanTypes, NEW w, NEW most, NEW chosen, NEW n, NEW y, IsAim(w, most, chosen, n, y)
    PROVE  /\ most \in Nat /\ w \in [1..n -> 0..most]
           /\ SumFunction(w) \in (1000 - 2 * n)..1000
  <1>. USE DEF IsAim
  <1>1. DOMAIN chosen = 1..n /\ \A k \in 1..n : chosen[k] \in Shortlist
    BY LenProperties, ElementOfSeq
  <1>2. PICK inv : inv = [k \in 1..n |-> Inverse100(Volatility(Closes(chosen[k]), y * Td))]
    OBVIOUS
  <1>3. ASSUME NEW k \in 1..n PROVE inv[k] \in Nat \ {0}
    <2>1. PICK v \in Nat : v = Volatility(Closes(chosen[k]), y * Td)
      <3>1. PICK c : c = Closes(chosen[k])
        OBVIOUS
      <3>2. c \in Seq(Price1) /\ Len(c) > 0
        BY <1>1, <3>1 DEF PlanTypes
      <3>3. y * Td \in Nat
        BY PlannerAssumption
      <3>. QED BY <3>1, <3>2, <3>3, VolatilityIs
    <2>2. PICK d \in Nat \ {0} : d = Max({5, v})
      BY GreaterOfTwo
    <2>3. PICK q \in Nat : q = 10000 \div d
      OBVIOUS
    <2>4. Inverse100(v) = Max({1, q})
      BY <2>2, <2>3 DEF Inverse100
    <2>5. Max({1, q}) \in Nat \ {0}
      BY GreaterOfTwo
    <2>. QED BY <1>2, <2>1, <2>4, <2>5
  <1>4. PICK cap \in Nat : cap = CapOf3(n) /\ cap >= 1000 \div n
    <2>1. PICK q \in Nat : q = 1000 \div n
      OBVIOUS
    <2>2. PICK b \in Nat : b = MaxWeight
      BY PlannerAssumption
    <2>3. Max({b, q}) = IF b >= q THEN b ELSE q
      BY GreaterOfTwo
    <2>. QED BY <2>1, <2>2, <2>3 DEF CapOf3
  <1>5. w = Fill(inv, cap)
    BY <1>1, <1>2, <1>4 DEF Filled
  <1>6. DOMAIN inv = 1..n /\ Len(inv) = n
    BY <1>2
  <1>7. /\ n \in Nat \ {0} /\ DOMAIN inv = 1..n /\ Len(inv) = n
        /\ \A k \in 1..n : inv[k] \in Nat \ {0}
        /\ cap \in Nat /\ cap >= 1000 \div n /\ w = Fill(inv, cap)
    BY <1>3, <1>4, <1>5, <1>6
  <1>8. w \in [1..n -> 0..cap] /\ SumFunction(w) \in (1000 - 2 * n)..1000
    BY ONLY <1>7, FillIs
  <1>. QED BY <1>4, <1>8

\* A list in which nothing is twice holds as many as it is long.
LEMMA NoneTwice ==
    ASSUME NEW S, NEW q \in Seq(S), NEW n \in Nat, n = Len(q),
           \A i, j \in 1..n : q[i] = q[j] => i = j
    PROVE  Cardinality(Range(q)) = n
  <1>1. DOMAIN q = 1..n
    BY LenProperties
  <1>2. PICK T : T = Range(q)
    OBVIOUS
  <1>3. T = {q[k] : k \in 1..n}
    BY <1>1, <1>2 DEF Range
  <1>4. q \in [1..n -> T] /\ q = [k \in 1..n |-> q[k]]
    <2>1. q = [k \in 1..n |-> q[k]]
      BY <1>1, SeqDef
    <2>. QED BY <1>3, <2>1
  <1>5. q \in Surjection(1..n, T) /\ q \in Injection(1..n, T)
    BY <1>3, <1>4 DEF Surjection, Injection, IsInjective
  <1>6. IsFiniteSet(1..n) /\ Cardinality(1..n) = n
    BY PlacesAreFinite
  <1>7. /\ Cardinality(T) <= Cardinality(1..n)
        /\ Cardinality(T) = Cardinality(1..n) <=> q \in Injection(1..n, T)
    BY <1>5, <1>6, FS_Surjection
  <1>. QED BY <1>2, <1>5, <1>6, <1>7

\* The shares of a choice cost no more than the capital, and what is left buys none.
LEMMA SharesAre ==
    ASSUME PlanTypes, NEW y \in Nat, NEW chosen \in Seq(Shortlist),
           NEW n \in Nat \ {0}, n = Len(chosen), NEW capital \in Nat,
           NEW shares, shares = SharesFor(chosen, y, capital),
           NEW spent, spent = SumFunction([k \in DOMAIN chosen |-> shares[k] * Price(chosen[k])])
    PROVE  /\ capital - spent >= 0
           /\ \A k \in 1..n : capital - spent < Price(chosen[k])
  <1>1. DOMAIN chosen = 1..n /\ \A k \in 1..n : chosen[k] \in Shortlist
    BY LenProperties, ElementOfSeq
  <1>2. PICK price : price = [k \in 1..n |-> Price(chosen[k])]
    OBVIOUS
  <1>3. price \in PricesFor(n)
    <2>1. ASSUME NEW k \in 1..n PROVE Price(chosen[k]) \in Nat \ {0}
      <3>1. PICK c : c = Closes(chosen[k])
        OBVIOUS
      <3>2. c \in Seq(Price1) /\ Len(c) > 0 /\ 1 \in Nat \ {0}
        BY <1>1, <3>1 DEF PlanTypes
      <3>3. Last(c) \in Price1
        BY <3>2, LastPrices
      <3>. QED BY <3>1, <3>3 DEF Price, Price1
    <2>. QED BY <1>2, <2>1 DEF PricesFor
  <1>4. PICK w : w = Filled(chosen, y)
    OBVIOUS
  <1>5. w \in Counts(n) /\ SumFunction(w) <= 1000
    <2>0. PICK most : most = CapOf3(n)
      OBVIOUS
    <2>1. most \in Nat /\ w \in [1..n -> 0..most] /\ SumFunction(w) \in (1000 - 2 * n)..1000
      <3>1. IsAim(w, most, chosen, n, y)
        BY <2>0, <1>4 DEF IsAim
      <3>. QED BY <3>1, FilledIs
    <2>. QED BY <2>1 DEF Counts
  <1>6. PICK slices : slices = Slices(w, price, capital)
    OBVIOUS
  <1>7. n \in Nat
    OBVIOUS
  <1>8. slices \in Counts(n) /\ CashLeft(slices, price, capital) >= 0
    BY <1>3, <1>5, <1>6, <1>7, SlicesAre
  <1>9. shares = Buy(slices, w, price, capital)
    BY <1>1, <1>2, <1>4, <1>6 DEF SharesFor, Split
  <1>10. /\ shares \in Counts(n) /\ CashLeft(shares, price, capital) >= 0
         /\ \A k \in 1..n : CashLeft(shares, price, capital) < price[k]
    BY <1>3, <1>5, <1>8, <1>9, BuyIs
  <1>11. CashLeft(shares, price, capital) = capital - spent
    <2>1. DOMAIN shares = DOMAIN chosen
      BY <1>1, <1>10 DEF Counts
    <2>2. [k \in DOMAIN shares |-> shares[k] * price[k]]
            = [k \in DOMAIN chosen |-> shares[k] * Price(chosen[k])]
      BY <1>1, <1>2, <2>1
    <2>. QED BY <2>2 DEF CashLeft
  <1>. QED BY <1>2, <1>10, <1>11

\* The plan for any choice adds up.
LEMMA PlanIsSound == PlanTypes => PlanAddsUp
  <1>. SUFFICES ASSUME PlanTypes PROVE PlanAddsUp
    OBVIOUS
  <1>1. PICK y \in Nat, capital \in Nat : y = asked.years /\ capital = asked.capital
    BY DEF PlanTypes
  <1>2. PICK chosen : chosen = Choose(y)
    OBVIOUS
  <1>3. IsChoice(chosen)
    BY <1>1, <1>2, ChooseIs DEF PlanTypes
  <1>4. PICK n \in Nat : n = Len(chosen) /\ DOMAIN chosen = 1..n
    BY <1>3, LenProperties DEF IsChoice
  <1>5. PICK w : w = Filled(chosen, y)
    OBVIOUS
  <1>6. PICK p : p = PlanOf(chosen)
    OBVIOUS
  <1>7. p.picks = chosen
    BY <1>6 DEF PlanOf
  <1>8. PlanAddsUp <=> AddsUp(p, w)
    BY <1>1, <1>2, <1>5, <1>6, <1>7 DEF PlanAddsUp, PlanHolds, Plan
  <1>9. ASSUME n > 0
        PROVE  /\ capital - Deployed(p) >= 0
               /\ \A k \in 1..n : capital - Deployed(p) < Price(chosen[k])
    <2>1. PICK shares : shares = SharesFor(chosen, y, capital)
      OBVIOUS
    <2>2. chosen # <<>> /\ n \in Nat \ {0} /\ chosen \in Seq(Shortlist)
      BY <1>3, <1>4, <1>9 DEF IsChoice
    <2>3. p.shares = shares
      BY <1>1, <1>6, <2>1, <2>2 DEF PlanOf
    <2>4. PICK spent : spent = SumFunction([k \in DOMAIN chosen |-> shares[k] * Price(chosen[k])])
      OBVIOUS
    <2>5. Deployed(p) = spent
      BY <1>7, <2>3, <2>4 DEF Deployed
    <2>6. capital - spent >= 0 /\ \A k \in 1..n : capital - spent < Price(chosen[k])
      BY <1>4, <2>1, <2>2, <2>4, SharesAre
    <2>. QED BY <2>5, <2>6
  <1>10. Cardinality(Range(chosen)) = n /\ n <= PickCount
    BY <1>3, <1>4, NoneTwice DEF IsChoice
  <1>11. ASSUME NEW k \in 1..n
         PROVE  Cardinality({j \in 1..n : MetaOf[chosen[j]].sector = MetaOf[chosen[k]].sector})
                  <= PerSector
    <2>1. chosen[k] \in Shortlist
      BY <1>3, <1>4, ElementOfSeq DEF IsChoice
    <2>2. OfSector(chosen, chosen[k])
            = {j \in 1..n : MetaOf[chosen[j]].sector = MetaOf[chosen[k]].sector}
      BY <1>4 DEF OfSector
    <2>. QED BY <1>3, <2>1, <2>2 DEF IsChoice
  <1>12. ASSUME n > 0
         PROVE  (\A k \in DOMAIN w : w[k] <= CapOf3(n)) /\ SumFunction(w) \in (1000 - 2 * n)..1000
    <2>1. n \in Nat \ {0} /\ chosen \in Seq(Shortlist)
      BY <1>3, <1>12 DEF IsChoice
    <2>0. PICK most : most = CapOf3(n)
      OBVIOUS
    <2>2. /\ most \in Nat /\ w \in [1..n -> 0..most]
          /\ SumFunction(w) \in (1000 - 2 * n)..1000
      <3>1. IsAim(w, most, chosen, n, y)
        BY <2>0, <1>1, <1>4, <1>5, <2>1 DEF IsAim
      <3>. QED BY <3>1, FilledIs
    <2>. QED BY <2>0, <2>2
  <1>. QED BY <1>1, <1>4, <1>7, <1>8, <1>9, <1>10, <1>11, <1>12 DEF AddsUp

\* Whatever the archive and whatever is asked for, a plan spends the capital and no
\* more until not one share more can be bought, holds no stock twice and no sector too
\* often, and aims at slices within the cap that share the capital out.
THEOREM PlanIsWhole == PlannerSpec => []PlanAddsUp
  <1>1. PlannerInit => PlanTypes
    BY PlanInductive
  <1>2. PlanTypes /\ [PlannerNext]_planVars => PlanTypes'
    BY PlanInductive
  <1>3. PlanTypes => PlanAddsUp
    BY PlanIsSound
  <1>. QED BY <1>1, <1>2, <1>3, PTL DEF PlannerSpec

\* Money is neither lost nor made: book and exposures, sales and buys, shares and
\* capital agree in every statement, rotation and plan.
THEOREM MoneyIsWhole == PortfolioSpec => []MoneyAddsUp
  BY BookIsWhole, RotationIsWhole, PlanIsWhole, PTL DEF PortfolioSpec, MoneyAddsUp
=============================================================================
