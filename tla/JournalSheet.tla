---------------------------- MODULE JournalSheet ----------------------------
(***************************************************************************)
(* How src/journal_import.rs reads an uploaded sheet or a pasted table     *)
(* into trade rows: the header is found by its columns, or the lines are   *)
(* read by position. Number, date and column-name formats are abstracted:  *)
(* a cell is [fits, word, num], the roles its text fits as a heading in    *)
(* the order they are tried, its text, and the number it reads as, if any. *)
(***************************************************************************)
EXTENDS Journal

BlankCell == [fits |-> <<>>, word |-> "", num |-> None]
BlankLine(line) == \A i \in DOMAIN line : line[i] = BlankCell

\* header_map: a column takes the first role it fits that no earlier column has.
TakeColumn(map, fits, col) ==
    LET free == SelectSeq(fits, LAMBDA role : role \notin DOMAIN map)
    IN  IF free = <<>> THEN map
        ELSE [role \in DOMAIN map \cup {free[1]} |-> IF role = free[1] THEN col ELSE map[role]]
ColumnRoles(line) ==
    FoldLeft(LAMBDA map, col : TakeColumn(map, line[col].fits, col), <<>>, [c \in DOMAIN line |-> c])
UsableHeader(line) ==
    /\ "symbol" \in DOMAIN ColumnRoles(line)
    /\ DOMAIN ColumnRoles(line) \cap {"pnl", "entry", "exit"} # {}

\* The earliest of the headers with the most columns; 0 when there is none.
TableStart(sheet) ==
    LET Width(i) == Cardinality(DOMAIN ColumnRoles(sheet[i]))
        heads == {i \in DOMAIN sheet : UsableHeader(sheet[i])}
        widest == {i \in heads : \A j \in heads : Width(j) <= Width(i)}
    IN  IF heads = {} THEN 0 ELSE CHOOSE i \in widest : \A j \in widest : i <= j

-----------------------------------------------------------------------------
CellAt(line, map, role) ==
    IF role \in DOMAIN map /\ map[role] \in DOMAIN line THEN line[map[role]] ELSE BlankCell
NormalizeSide(cell) == IF cell.word = "SELL" THEN "SELL" ELSE "BUY"
LegPrice(num) == IF num # None /\ num[1] > 0 THEN num ELSE None
QtyOf(num) == IF num = None THEN 0 ELSE IF num[1] < 0 THEN -num[1] ELSE num[1]

TradeRow(symbol, side, qty, order, entry, exit, pnl, date) ==
    [symbol |-> symbol, direction |-> side, qty |-> qty, order |-> order,
     entry |-> entry, exit |-> exit, pnl |-> pnl, date |-> date]

\* A line is read as a trade, warned of, or passed over when it names no stock.
Nameless == [kind |-> "nameless"]
Warned == [kind |-> "warned"]
Read(trade) == [kind |-> "trade", trade |-> trade]

\* parse_row: an outcome is needed, a P&L or both prices.
ParseRow(line, map) ==
    LET Num(role) == CellAt(line, map, role).num
        symbol == CellAt(line, map, "symbol").word
    IN  IF symbol = "" THEN Nameless
        ELSE IF Num("pnl") = None /\ None \in {LegPrice(Num("entry")), LegPrice(Num("exit"))} THEN Warned
        ELSE Read(TradeRow(symbol, NormalizeSide(CellAt(line, map, "side")), QtyOf(Num("qty")),
                           LegPrice(Num("order")), LegPrice(Num("entry")), LegPrice(Num("exit")),
                           Num("pnl"), Num("date")))

\* parse_positional: symbol, side, quantity and two prices; else symbol, side and P&L;
\* else symbol and P&L. What does not fit one shape is tried as the next.
ParsePositional(line) ==
    LET symbol == line[1].word
        legs == Len(line) >= 5 /\ None \notin {LegPrice(line[4].num), LegPrice(line[5].num)}
    IN  IF symbol = "" THEN Nameless
        ELSE IF legs
        THEN Read(TradeRow(symbol, NormalizeSide(line[2]), QtyOf(line[3].num), None,
                           LegPrice(line[4].num), LegPrice(line[5].num), None, None))
        ELSE IF Len(line) >= 3 /\ line[3].num # None
        THEN Read(TradeRow(symbol, NormalizeSide(line[2]), 0, None, None, None, line[3].num, None))
        ELSE IF Len(line) >= 2 /\ line[2].num # None
        THEN Read(TradeRow(symbol, "BUY", 0, None, None, None, line[2].num, None))
        ELSE Warned

ReadsAsData(line) == Len(line) >= 2 /\ line[1].word # "" /\ \E c \in 2..Len(line) : line[c].num # None

\* parse_trades_csv: the trades of the lines under the header, or of all lines.
ParseTrades(sheet) ==
    LET start == TableStart(sheet)
        map == ColumnRoles(sheet[start])
        body == SelectSeq(SubSeq(sheet, start + 1, Len(sheet)), LAMBDA line : ~BlankLine(line))
        parsed == [k \in DOMAIN body |->
                      IF start > 0 THEN ParseRow(body[k], map) ELSE ParsePositional(body[k])]
        trades == SelectSeq(parsed, LAMBDA r : r.kind = "trade")
    IN  IF start = 0 /\ (body = <<>> \/ ~ReadsAsData(body[1])) THEN <<>>
        ELSE [k \in DOMAIN trades |-> trades[k].trade]
=============================================================================
