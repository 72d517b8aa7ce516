------------------------------- MODULE Replay -------------------------------
(***************************************************************************)
(* run_replay (src/ingestion_engine.rs): archived bars of the last days    *)
(* are sent as ticks, slot by slot over the universe, and folded like live *)
(* ones. Symbols whose histories differ in length drift apart: slot k is   *)
(* the k-th bar of each, whatever its time.                                *)
(***************************************************************************)
EXTENDS TickFold, SeqFilter, FiniteSets

CONSTANTS
    Archives,   \* possible archives: [Tracked -> sequence of Candle]
    DaysBack,   \* days_back asked for; 0 is taken as 1
    NoDay

Candle == [day : Nat, vol : Int, open : Int, close : Int]

\* load_candles reads a file in the order of its dates.
DaysInOrder(bars) == \A i, j \in 1..Len(bars) : i < j => bars[i].day <= bars[j].day

ASSUME ReplayAssumption ==
    /\ DaysBack \in Nat /\ IsFiniteSet(Tracked)
    /\ \A archive \in Archives : \A s \in Tracked :
          archive[s] \in Seq(Candle) /\ DaysInOrder(archive[s])

VARIABLES
    series,  \* windowed bars of the symbols that have any, in universe order
    slot, place,    \* slot and place in the series of the sweep
    cum,     \* per symbol: cum_volume and cur_day
    halt,    \* the shared stop flag, or the receiver gone
    ended

replayVars == <<series, slot, place, cum, halt, ended>>

\* Days are counted back from the symbol's own last day.
Recent(bars) ==
    Filter(bars, {b \in Range(bars) : b.day >= bars[Len(bars)].day - (AtLeast(DaysBack, 1) - 1)})

\* A symbol without candles is left out.
Windowed(archive) ==
    LET held == Filter(SetToSeq(Tracked), {s \in Tracked : archive[s] # <<>>})
    IN  [k \in DOMAIN held |-> [sym |-> held[k], bars |-> Recent(archive[held[k]])]]

ReplayInit ==
    /\ tape = [s \in Tracked |-> Untold(0)]
    /\ states = [s \in Tracked |-> LiveState0]
    /\ \E archive \in Archives : series = Windowed(archive)
    /\ slot = 1 /\ place = 1
    /\ cum = [s \in Tracked |-> [vol |-> 0, day |-> NoDay]]
    /\ halt = FALSE
    /\ ended = (series = <<>>)

Slots == {Len(series[k].bars) : k \in DOMAIN series}

\* The book leans with the bar.
SynthBook(bar) ==
    LET base == AtLeast(bar.vol \div 20, 1)
    IN  [bid |-> bar.close - 1, ask |-> bar.close + 1,
         bidQty |-> IF bar.close >= bar.open THEN 16 * base ELSE 6 * base,
         askQty |-> IF bar.close >= bar.open THEN 6 * base ELSE 16 * base]

\* Mutant: the counter runs on over the end of a day.
RunningOn(c, bar) == [vol |-> c.vol + AtLeast(bar.vol, 0), day |-> bar.day]

\* cum_volume of a symbol with its next bar.
Running(c, bar) ==
    [vol |-> (IF c.day = bar.day THEN c.vol ELSE 0) + AtLeast(bar.vol, 0), day |-> bar.day]

\* One symbol's bar of the slot; nothing if its history is shorter.
EmitBar ==
    /\ ~ended /\ place \in DOMAIN series
    /\ place > 1 \/ ~halt
    /\ LET s == series[place].sym
           bars == series[place].bars
           bar == bars[slot]
           c == Running(cum[s], bar)
       IN  IF slot > Len(bars) THEN UNCHANGED <<tape, states, cum, ended>>
           ELSE /\ cum' = [cum EXCEPT ![s] = c]
                /\ tape' = [tape EXCEPT ![s] =
                        [day |-> c.vol, total |-> @.total + AtLeast(bar.vol, 0),
                         base |-> IF states[s].anchored THEN @.base
                                  ELSE @.total + AtLeast(bar.vol, 0),
                         seen |-> @.seen \cup {bar.close}]]
                /\ \/ states' = Folded(states, [sym |-> s, ltp |-> bar.close, ltq |-> 0, vol |-> c.vol,
                                        book |-> SynthBook(bar)]) /\ ended' = FALSE
                   \/ halt /\ ended' = TRUE /\ UNCHANGED states   \* the receiver is gone
    /\ place' = place + 1
    /\ UNCHANGED <<series, slot, halt>>

\* The sweep is over: the next slot, unless it was the last.
NextSlot ==
    /\ ~ended /\ place > Len(series)
    /\ slot' = slot + 1 /\ place' = 1
    /\ ended' = ~\E n \in Slots : n >= slot + 1
    /\ UNCHANGED <<series, cum, halt, tape, states>>

\* `stop` is looked at before a slot, and not inside it.
StopBetweenSlots ==
    /\ ~ended /\ halt /\ place = 1
    /\ ended' = TRUE
    /\ UNCHANGED <<series, slot, place, cum, halt, tape, states>>

\* Somebody stops the replay, and the analytics thread leaves the channel.
Halt ==
    /\ ~halt
    /\ halt' = TRUE
    /\ UNCHANGED <<series, slot, place, cum, ended, tape, states>>

ReplayNext == EmitBar \/ NextSlot \/ StopBetweenSlots \/ Halt
ReplaySpec == ReplayInit /\ [][ReplayNext]_<<foldVars, replayVars>>

-----------------------------------------------------------------------------
\* Bars of a series already sent when the sweep stands at `place` of `slot`.
Sent(k) ==
    LET due == IF k < place THEN slot ELSE slot - 1
    IN  IF due <= Len(series[k].bars) THEN due ELSE Len(series[k].bars)

\* What the n-th bar's day traded up to that bar.
DayVolume(bars, n) ==
    SumFunctionOnSet([j \in DOMAIN bars |-> AtLeast(bars[j].vol, 0)],
                     {j \in 1..n : bars[j].day = bars[n].day})

\* A replayed tick carries what its session has traded so far: whatever the other
\* symbols' histories, and on whatever day of its own the symbol is, cum_volume is
\* the volume of that day's bars sent until now.
SessionVolume ==
    \A k \in DOMAIN series :
        Sent(k) # 0 => cum[series[k].sym].vol = DayVolume(series[k].bars, Sent(k))
=============================================================================
