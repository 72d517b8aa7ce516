------------------------------ MODULE TickFold ------------------------------
(***************************************************************************)
(* What the analytics thread makes of the tick stream: a binary frame of   *)
(* the Kite WebSocket is parsed into ticks (src/ingestion_engine.rs), each *)
(* tick is folded into its symbol's live state, and a snapshot scores the  *)
(* symbol's edges against it (src/analytics_kernel.rs).                    *)
(*                                                                         *)
(* One producer feeds one consumer through an unbounded queue, so a tick   *)
(* is folded in the step that sends it. Volumes travel as signed words.    *)
(* Prices are whole, ratios are percent, spreads basis points. A book is   *)
(* its best prices and the sizes summed over its five levels.              *)
(***************************************************************************)
EXTENDS Integers, Sequences, SequencesExt, TLC

CONSTANTS
    Tracked, Subscribed, Unknown,  \* symbols with edges; with a token; a foreign token
    EdgesOf,           \* [Tracked -> sequence of [dir, exp, n]]
    Ltps, Books,       \* prices and order books on the wire
    NoBook,
    Word,              \* 2^32: volumes arrive as signed words of this size
    MaxVolume,         \* bound: volume of a day
    Window, HistoryCap,            \* LIVE_WINDOW, MICRO_/RVOL_HISTORY_CAP
    SweepTicks, MinTrades, MinSpreads, Widening,
    ShrinkStrength                 \* SHRINK_STRENGTH; the prior is 0 R

ASSUME FoldAssumption ==
    /\ Subscribed \subseteq Tracked /\ Unknown \notin Tracked
    /\ Word \in Nat \ {0} /\ Word % 2 = 0
    /\ MaxVolume \in Nat
    /\ Ltps \subseteq Int
    /\ {Window, HistoryCap} \subseteq Nat \ {0}

VARIABLES
    tape,    \* per symbol: the day's volume on the wire, and, auxiliary, the volume of
             \* all days, what of it was there before the first tick, prices ticked
    states   \* Engine.states

foldVars == <<tape, states>>

LiveState0 ==
    [prices |-> <<>>, pv |-> 0, vol |-> 0, anchor |-> 0, anchored |-> FALSE,
     deltas |-> <<>>, book |-> NoBook, ltqs |-> <<>>, spreads |-> <<>>]

Untold(v) == [day |-> v, total |-> v, base |-> 0, seen |-> {}]

\* Nothing is seen; what a day has traded before the first
\* tick is the base of the count.
FoldInit ==
    /\ \E v \in {0, MaxVolume \div 2} : tape = [s \in Tracked |-> Untold(v)]
    /\ states = [s \in Tracked |-> LiveState0]

-----------------------------------------------------------------------------
\* The parser.

\* read_i32 of a volume that the exchange counts without a bound.
Signed(v) == v - Word * ((v + Word \div 2) \div Word)

\* An LTP packet carries no quantity, no volume and no book; a quote packet no book.
ParsePacket(p) ==
    IF p.len = "short" THEN <<>> ELSE
    <<[sym |-> p.sym, ltp |-> p.ltp,
       ltq |-> IF p.len = "ltp" THEN 0 ELSE p.ltq,
       vol |-> IF p.len = "ltp" THEN 0 ELSE Signed(p.vol),
       book |-> IF p.len = "full" THEN p.book ELSE NoBook]>>

\* Packets up to the first truncated one.
ParseFrame(packets) ==
    LET cut == {k \in DOMAIN packets : ~packets[k].whole}
        Before(k) == \A c \in cut : k < c
    IN  FlattenSeq([k \in DOMAIN packets |->
                        IF Before(k) THEN ParsePacket(packets[k]) ELSE <<>>])

-----------------------------------------------------------------------------
\* LiveState.

AtLeast(x, lo) == IF x < lo THEN lo ELSE x
Between(x, lo, hi) == IF x > hi THEN hi ELSE AtLeast(x, lo)
Ratio(x, y) == IF y = 0 THEN 0 ELSE x \div y
Total(s) == FoldLeft(+, 0, s)
Pushed(s, x, cap) == Append(IF Len(s) = cap THEN Tail(s) ELSE s, x)
PushedIf(test, s, x, cap) == IF test THEN Pushed(s, x, cap) ELSE s

\* Mutant: the first tick's day volume counts as traded now.
DeltaFromZero(state, vol) == AtLeast(vol - state.anchor, 0)

\* Volume of a tick: nothing before there is an anchor, nothing on a step back.
VolDelta(state, vol) ==
    IF state.anchored THEN AtLeast(vol - state.anchor, 0) ELSE 0

SpreadBps(book) ==
    IF book = NoBook \/ book.bid <= 0 \/ book.ask <= 0 THEN 0
    ELSE ((book.ask - book.bid) * 20000) \div (book.bid + book.ask)

Update(state, t) ==
    LET d == VolDelta(state, t.vol)
        book == IF t.book = NoBook THEN state.book ELSE t.book
        spread == SpreadBps(book)
    IN  [prices |-> Pushed(state.prices, t.ltp, Window),
         pv |-> state.pv + t.ltp * d,
         vol |-> state.vol + d,
         anchor |-> t.vol,
         anchored |-> TRUE,
         deltas |-> PushedIf(d > 0, state.deltas, d, HistoryCap),
         book |-> book,
         ltqs |-> PushedIf(t.ltq > 0, state.ltqs, t.ltq, HistoryCap),
         spreads |-> PushedIf(spread > 0, state.spreads, spread, HistoryCap)]

\* Engine::on_tick: a token without a symbol is ignored.
Folded(engine, t) ==
    IF t.sym \in DOMAIN engine THEN [engine EXCEPT ![t.sym] = Update(@, t)] ELSE engine

-----------------------------------------------------------------------------
\* The features of a snapshot.

HasPrice(state) == state.prices # <<>>

\* Population standard deviation, to the whole price below.
StdDev(prices) ==
    LET mean == Ratio(Total(prices), Len(prices))
        var == Ratio(Total([k \in DOMAIN prices |-> (prices[k] - mean) * (prices[k] - mean)]),
                     Len(prices))
    IN  CHOOSE r \in 0..var : r * r <= var /\ (r + 1) * (r + 1) > var

\* The stop's base: never below ATR_FLOOR_PCT, 0.2%, of the price.
AtrProxy(state) == AtLeast(StdDev(state.prices), Last(state.prices) \div 500)

Obi(book) ==
    IF book = NoBook THEN 0
    ELSE Ratio((book.bidQty - book.askQty) * 100, book.bidQty + book.askQty)

Rvol(state) ==
    IF state.deltas = <<>> THEN 100
    ELSE Ratio(Last(state.deltas) * 100 * Len(state.deltas), Total(state.deltas))

\* The latest trade against the ones before it; 0 with too few of them.
BlockMult(state) ==
    LET n == Len(state.ltqs) IN
    IF n < MinTrades THEN 0
    ELSE Ratio(Last(state.ltqs) * 100 * (n - 1), Total(Front(state.ltqs)))

\* The last prices all step the way of sign.
Run(prices, sign) ==
    \A k \in (Len(prices) - SweepTicks)..(Len(prices) - 1) : sign * (prices[k + 1] - prices[k]) > 0

TickSweep(state) ==
    IF \/ Len(state.prices) <= SweepTicks
       \/ Len(state.ltqs) < MinTrades
       \/ BlockMult(state) <= 100 THEN 0
    ELSE IF Run(state.prices, 1) THEN 1
    ELSE IF Run(state.prices, -1) THEN -1 ELSE 0

SpreadWidening(state) ==
    LET n == Len(state.spreads)
        prior == SortSeq(Front(state.spreads), <)
        median == prior[(n - 1) \div 2 + 1]
    IN  n >= MinSpreads /\ median > 0 /\ Last(state.spreads) >= Widening * median

\* LiveFeatures; the deviation from VWAP is in hundredths of a percent. RSI and
\* the z-score, shown and read by nothing, are left out.
Features(state) ==
    LET last == Last(state.prices)
        vwap == IF state.vol > 0 THEN state.pv \div state.vol ELSE last
    IN  [obi |-> Obi(state.book), vwap |-> vwap,
         dev |-> Ratio((last - vwap) * 10000, vwap),
         rvol |-> Rvol(state), spread |-> SpreadBps(state.book),
         block |-> BlockMult(state), sweep |-> TickSweep(state),
         widening |-> SpreadWidening(state)]

\* Live confirmation of an edge, 100 being neutral.
LiveScore(dir, f) ==
    LET book == Between(f.obi, -100, 100) \div 2
        dev == Between(f.dev \div 2, -50, 50)
    IN  Between(IF dir = "Long" THEN 100 + book + dev ELSE 100 - book - dev, 0, 200)

\* shrunk_expectancy toward 0 R.
Shrunk(exp, n) == Ratio(n * exp, n + ShrinkStrength)

\* One unsized candidate per edge of a symbol that has a price.
SnapshotCandidates ==
    UNION {{LET f == Features(states[s])
                edge == EdgesOf[s][k]
                conf == LiveScore(edge.dir, f)
            IN  [symbol |-> s, dir |-> edge.dir, price |-> Last(states[s].prices),
                 atr |-> AtrProxy(states[s]), conf |-> conf,
                 score |-> Shrunk(edge.exp, edge.n) * conf] :
                k \in DOMAIN EdgesOf[s]} : s \in {q \in Tracked : HasPrice(states[q])}}

-----------------------------------------------------------------------------
\* The exchange trades.
Trade(s) ==
    /\ \E q \in 1..2 :
        /\ tape[s].day + q <= MaxVolume
        /\ tape' = [tape EXCEPT ![s].day = @ + q, ![s].total = @ + q]
    /\ UNCHANGED states

\* Sends state what the tape shows. Only quote and full packets are subscribed.
Packet(s, len, ltp, ltq, book, whole) ==
    [sym |-> s, len |-> len, ltp |-> ltp, ltq |-> ltq, book |-> book, whole |-> whole,
     vol |-> IF s \in Tracked THEN tape[s].day ELSE 0]

\* What the tape has told with these ticks: the count of a symbol starts with its
\* first tick.
Told(ticks) ==
    [s \in Tracked |->
        LET of == {k \in DOMAIN ticks : ticks[k].sym = s} IN
        IF of = {} THEN tape[s]
        ELSE [tape[s] EXCEPT !.base = IF states[s].anchored THEN @ ELSE tape[s].total,
                             !.seen = @ \cup {ticks[k].ltp : k \in of}]]

\* A frame of the session: a packet, and behind it one that may be cut short.
LiveFrame(s) ==
    \E len \in {"quote", "full", "short"}, ltp \in Ltps, ltq \in {0, 1}, book \in Books,
       other \in {s, Unknown}, whole \in BOOLEAN :
        LET ticks == ParseFrame(<<Packet(s, len, ltp, ltq, book, TRUE),
                                  Packet(other, "quote", ltp, 0, NoBook, whole)>>)
        IN  /\ tape' = Told(ticks)
            /\ states' = FoldLeft(Folded, states, ticks)

FoldNext == \E s \in Subscribed : Trade(s) \/ LiveFrame(s)
FoldSpec == FoldInit /\ [][FoldNext]_foldVars

-----------------------------------------------------------------------------
\* Volume is counted once: VWAP weighs no more than was traded since the first
\* tick of the symbol, whatever was traded before it, between two ticks, over a
\* volume that does not fit its word, or over the end of a replayed day; and every
\* rupee in the numerator has its share in the denominator, so the VWAP lies
\* between prices that were ticked.
CountedOnce ==
    \A s \in Tracked :
        /\ states[s].vol <= tape[s].total - tape[s].base
        /\ states[s].vol > 0 =>
              \E lo, hi \in tape[s].seen :
                  lo * states[s].vol <= states[s].pv /\ states[s].pv <= hi * states[s].vol
=============================================================================
