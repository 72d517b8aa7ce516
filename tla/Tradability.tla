----------------------------- MODULE Tradability -----------------------------
(***************************************************************************)
(* The tradability index (src/tradability.rs): per symbol of the daily     *)
(* archive a liquidity tier and an intraday verdict, from the archive, the *)
(* latest instruments dump (src/kite_instruments.rs) and an optional       *)
(* surveillance list. Display-only; the pages of Desk drop what it blocks. *)
(*                                                                         *)
(* The dump is written in place once a day, so a crash can leave a garbled *)
(* one. A tradingsymbol is <<base, suffix>>, "" for none.                  *)
(***************************************************************************)
EXTENDS Integers, Sequences, FiniteSets, SequencesExt

CONSTANTS
    Names,           \* symbols of the archive
    DailyOf,         \* per name: its daily rows [date, close, turn], a set
    CapOf,           \* per name: market capitalisation, 0 when not known
    Dumps,           \* instrument dumps: sets of tradingsymbols
    Watched,         \* surveillance lists: sets of names
    TurnoverWindow,  \* 60
    DeepTurn, OkTurn, ThinTurn, LowPrice, MicroCap

TurnAssumption == 0 < ThinTurn /\ ThinTurn <= OkTurn /\ OkTurn <= DeepTurn
ASSUME TurnAssumption

VARIABLES
    dump,    \* latest dump in the cache: its state and its tradingsymbols
    listed,  \* surveillance.csv, the empty set when there is none
    index    \* the cached answer: per name its picture; none when the cache is cold

tradVars == <<dump, listed, index>>

T2T == {"BE", "BZ", "BL"}
Cold == <<>>

-----------------------------------------------------------------------------
\* Median of a sequence; of an even number the mean of the middle two.
MedianOf(xs) ==
    LET s == SortSeq(xs, <)
        n == Len(s)
    IN  IF n = 0 THEN 0
        ELSE IF n % 2 = 1 THEN s[n \div 2 + 1] ELSE (s[n \div 2] + s[n \div 2 + 1]) \div 2

Liquidity(turn, days) ==
    IF days = 0 \/ turn <= 0 THEN "unknown"
    ELSE IF turn >= DeepTurn THEN "deep"
    ELSE IF turn >= OkTurn THEN "ok"
    ELSE IF turn >= ThinTurn THEN "thin" ELSE "very thin"

\* load_series_map: one tradingsymbol. A trade-to-trade one marks its base too.
SeriesStep(map, ts) ==
    IF ts[2] \in T2T
    THEN [k \in DOMAIN map \cup {<<ts[1], "">>, ts} |->
              IF k \in {<<ts[1], "">>, ts} THEN ts[2] ELSE map[k]]
    ELSE [k \in DOMAIN map \cup {ts} |-> IF k \in DOMAIN map THEN map[k] ELSE "EQ"]

\* The dump's symbols are the keys of a HashMap, visited in any order.
SeriesMap(order) == FoldLeft(SeriesStep, <<>>, order)

\* assess: a surveillance measure or a trade-to-trade series blocks, liquidity
\* comes next, then the softer cautions.
Assess(series, close, turn, days, cap, watched) ==
    LET tier == Liquidity(turn, days)
        lowPriced == close > 0 /\ close < LowPrice
        microCap == cap > 0 /\ cap < MicroCap
        verdict == IF watched \/ series \in T2T THEN "blocked"
                   ELSE IF tier = "very thin" THEN "high_risk"
                   ELSE IF tier = "thin" \/ lowPriced \/ microCap THEN "caution" ELSE "ok"
    IN  [series |-> series, tier |-> tier, turn |-> turn, verdict |-> verdict,
         flags |-> {f \in {"watched", "t2t", "thin", "low", "micro"} :
                       \/ f = "watched" /\ watched
                       \/ f = "t2t" /\ series \in T2T
                       \/ f = "thin" /\ tier \in {"thin", "very thin"}
                       \/ f = "low" /\ lowPriced
                       \/ f = "micro" /\ microCap}]

ByDate(rows) == SetToSortSeq(rows, LAMBDA x, y : x.date < y.date)

\* build_index for one name: rows without a close are not read, a turnover that is
\* no number counts as nothing.
Picture(s, series, watched) ==
    LET rows == ByDate({r \in DailyOf[s] : r.close > 0})
        recent == SubSeq(rows, IF Len(rows) > TurnoverWindow THEN Len(rows) - TurnoverWindow + 1
                               ELSE 1, Len(rows))
        turns == [k \in DOMAIN recent |-> recent[k].turn]
    IN  Assess(IF <<s, "">> \in DOMAIN series THEN series[<<s, "">>] ELSE "unknown",
               Last(rows).close, MedianOf(turns), Len(turns), CapOf[s], s \in watched)

Indexed(series, watched) ==
    [s \in {s \in Names : \E r \in DailyOf[s] : r.close > 0} |-> Picture(s, series, watched)]

-----------------------------------------------------------------------------
TradInit ==
    /\ dump = [state |-> "absent", symbols |-> {}]
    /\ listed = {}
    /\ index = Cold

\* save_cached of today's dump, whole or cut off; the latest file is the one read.
SaveDump(d) ==
    /\ dump' \in {[state |-> "whole", symbols |-> d], [state |-> "garbled", symbols |-> {}]}
    /\ UNCHANGED <<listed, index>>

\* The user puts a list beside the archive, or takes it away.
DropList(w) ==
    /\ listed' = w
    /\ UNCHANGED <<dump, index>>

\* build_index, stored in the cache: no series are known unless the dump parses.
BuildIndex ==
    /\ index' = Indexed(SeriesMap(SetToSeq(dump.symbols)), listed)
    /\ UNCHANGED <<dump, listed>>

TradNext ==
    \/ \E d \in Dumps : SaveDump(d)
    \/ \E w \in Watched : DropList(w)
    \/ BuildIndex

=============================================================================
