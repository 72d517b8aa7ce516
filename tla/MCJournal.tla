----------------------------- MODULE MCJournal -----------------------------
\* Model-checking instance of Journal: a sell or a buy staged by the desk,
\* and broker statements with dated, dateless, P&L-only and repeated lines.
EXTENDS JournalSheet

MCStagedSell == {[sym |-> "B", dir |-> "SELL", intended |-> 2, qty |-> 1]}
MCStagedBuy == {[sym |-> "A", dir |-> "BUY", intended |-> 2, qty |-> 1]}

Heading(roles) == [BlankCell EXCEPT !.fits = roles, !.word = "heading"]
Word(w) == [BlankCell EXCEPT !.word = w]
Number(n) == [BlankCell EXCEPT !.word = "number", !.num = Some(n)]
CellOf(option) == IF option = None THEN BlankCell ELSE Number(option[1])

\* A summary above the table, "Order Price" and "Net P&L" columns, an "Entry Date"
\* that would pass for a price, a blank and an unusable line.
Summary == <<Heading(<<"symbol">>), Heading(<<"pnl">>)>>
Titles == <<Heading(<<"symbol">>), Heading(<<"side">>), Heading(<<"qty">>), Heading(<<"order">>),
            Heading(<<"entry">>), Heading(<<"exit">>), Heading(<<"pnl">>),
            Heading(<<"entry", "date">>)>>
Legs(day) == <<Word("C"), Word("BUY"), Number(1), Number(2), Number(1), Number(2), BlankCell,
               CellOf(day)>>
PnlOnly(day) == <<Word("D"), BlankCell, BlankCell, BlankCell, BlankCell, BlankCell, Number(-2),
                  CellOf(day)>>
Unusable == <<Word("E"), Word("BUY"), BlankCell, BlankCell, Number(1), Number(2)>>
Unread == <<Word("E"), Word("BUY"), Number(1)>>

MCDated == {ParseTrades(<<Summary, Titles, Legs(Some(1)), <<BlankCell, BlankCell>>, Unread,
                          Unusable, PnlOnly(Some(1))>>),
            ParseTrades(<<Titles, Legs(Some(2)), Legs(Some(2))>>)}
\* A paste without a header.
MCDateless == {ParseTrades(<<<<Word("C"), Word("BUY"), Number(1), Number(1), Number(2)>>>>)}
=============================================================================
