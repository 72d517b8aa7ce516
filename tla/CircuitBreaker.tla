--------------------------- MODULE CircuitBreaker ---------------------------
(***************************************************************************)
(* The synthetic-drawdown circuit breaker: the desk scheduler's 15 s       *)
(* evaluation (src/main.rs, src/circuit_breaker.rs) and the manual freeze  *)
(* switch (src/server.rs).                                                 *)
(*                                                                         *)
(* The journal is represented by the profit its manually accepted trades   *)
(* have booked per day; Journal models the rows themselves. Open trades do *)
(* not count: the scheduler's map of marks is created empty and stays so.  *)
(* Amounts are in units of 1% of the capital pool.                         *)
(***************************************************************************)
EXTENDS Integers, Functions

CONSTANTS
    MaxDay,     \* bound: days explored
    MaxMove,    \* bound: largest profit or loss booked on one day
    Threshold   \* drawdown that freezes (2 = DRAWDOWN_FREEZE_PCT of the pool)

ASSUME BreakerAssumption ==
    MaxDay \in Nat \ {0} /\ MaxMove \in Nat /\ Threshold \in Nat \ {0}

VARIABLES
    today,     \* IST date
    booked,    \* per day: profit of the accepted trades closed on it
    freeze,    \* RwLock<FreezeState>
    sched      \* scheduler thread: "idle", or inside the breaker with a verdict

vars == <<today, booked, freeze, sched>>

Days == 1..MaxDay
Profit == -MaxMove..MaxMove
Sums == -(MaxDay * MaxMove)..(MaxDay * MaxMove)
Reasons == {"", "manual", "drawdown"}
Freeze == [frozen : BOOLEAN, reason : Reasons, pnl : Sums]

\* FreezeState::active
Active == [frozen |-> FALSE, reason |-> "", pnl |-> 0]

TypeOK ==
    /\ today \in Days
    /\ booked \in [Days -> Profit]
    /\ freeze \in Freeze
    /\ freeze.frozen <=> freeze.reason # ""
    /\ sched \in [pc : {"idle", "apply"}, pnl : Sums]

Init ==
    /\ today = 1
    /\ booked = [d \in Days |-> 0]
    /\ freeze = Active
    /\ sched = [pc |-> "idle", pnl |-> 0]

-----------------------------------------------------------------------------
\* evaluate sums every accepted entry of the journal, whatever its date.
DailyPnl == SumFunction(booked)

Breach(pnl) == pnl <= -Threshold

\* The journal Mutex: held by the scheduler from its read to its freeze write.
JournalFree == sched.pc = "idle"

\* Mutant: the handlers do not wait for the journal lock.
BookUnlocked(d, p) ==
    /\ booked' = [booked EXCEPT ![d] = p]
    /\ UNCHANGED <<today, freeze, sched>>

\* The journal handlers: logging, closing, relabelling, importing or deleting a
\* trade of day d (an import may date it earlier) changes what d has booked.
Book(d, p) ==
    /\ JournalFree
    /\ booked' = [booked EXCEPT ![d] = p]
    /\ UNCHANGED <<today, freeze, sched>>

\* POST /api/journal/clear
ClearJournal ==
    /\ JournalFree
    /\ booked' = [d \in Days |-> 0]
    /\ UNCHANGED <<today, freeze, sched>>

NextDay ==
    /\ today < MaxDay
    /\ today' = today + 1
    /\ UNCHANGED <<booked, freeze, sched>>

\* POST /api/signal_freeze
SignalFreeze(on) ==
    /\ freeze' = [freeze EXCEPT !.frozen = on,
                                !.reason = IF on THEN "manual" ELSE ""]
    /\ UNCHANGED <<today, booked, sched>>

-----------------------------------------------------------------------------
\* The scheduler thread.

\* Lock the journal, read every entry and evaluate.
Evaluate ==
    /\ sched.pc = "idle"
    /\ sched' = [pc |-> "apply", pnl |-> DailyPnl]
    /\ UNCHANGED <<today, booked, freeze>>

\* Mutant: the verdict is written as it is, clearing a freeze when losses shrink.
ApplyOverwrite ==
    /\ sched.pc = "apply"
    /\ freeze' = [frozen |-> Breach(sched.pnl), pnl |-> sched.pnl,
                  reason |-> IF Breach(sched.pnl) THEN "drawdown" ELSE ""]
    /\ sched' = [sched EXCEPT !.pc = "idle"]
    /\ UNCHANGED <<today, booked>>

\* Mutant: the verdict only updates the figure shown.
ApplyShowOnly ==
    /\ sched.pc = "apply"
    /\ freeze' = [freeze EXCEPT !.pnl = sched.pnl]
    /\ sched' = [sched EXCEPT !.pc = "idle"]
    /\ UNCHANGED <<today, booked>>

\* Update the figure shown, freeze on a breach unless frozen already, unlock.
Apply ==
    /\ sched.pc = "apply"
    /\ freeze' = IF Breach(sched.pnl) /\ ~freeze.frozen
                 THEN [frozen |-> TRUE, reason |-> "drawdown", pnl |-> sched.pnl]
                 ELSE [freeze EXCEPT !.pnl = sched.pnl]
    /\ sched' = [sched EXCEPT !.pc = "idle"]
    /\ UNCHANGED <<today, booked>>

\* The process ends, at any step, and is started again: the journal is on
\* disk, the freeze was in memory.
Restart ==
    /\ freeze' = Active
    /\ sched' = [pc |-> "idle", pnl |-> 0]
    /\ UNCHANGED <<today, booked>>

-----------------------------------------------------------------------------
Next ==
    \/ \E d \in 1..today, p \in Profit : Book(d, p)
    \/ ClearJournal \/ NextDay \/ Restart
    \/ \E on \in BOOLEAN : SignalFreeze(on)
    \/ Evaluate \/ Apply

Spec == Init /\ [][Next]_vars

\* The scheduler loops for ever and gets the journal lock, because a handler
\* holds it for one bounded transaction. Strong fairness of Apply: the process
\* is not restarted inside every single evaluation.
FairSpec == Spec /\ WF_vars(Evaluate) /\ SF_vars(Apply)

-----------------------------------------------------------------------------
\* Only the manual switch or a restart lifts a freeze: neither a recovering nor
\* a cleared journal does (main.rs, "never auto-clear a freeze").
LiftedByHandOnly ==
    [][freeze.frozen /\ ~freeze'.frozen => SignalFreeze(FALSE) \/ Restart]_vars

\* When the breaker freezes the desk, the journal breaches the threshold at that
\* very moment: no close, delete or clear slips between the read and the freeze.
FreezesOnCurrentJournal ==
    [][~freeze.frozen /\ freeze'.reason = "drawdown" => Breach(DailyPnl)]_vars

\* A journal in breach freezes the desk, whatever the user clears by hand and
\* however often the process restarts: the freeze is rebuilt from the journal.
BreachFreezes == Breach(DailyPnl) ~> freeze.frozen \/ ~Breach(DailyPnl)

\* circuit_breaker.rs:4, "If today's cumulative paper loss breaches": a freeze
\* by the breaker means that today itself has lost the threshold.
FrozenByTodaysLoss ==
    [][~freeze.frozen /\ freeze'.reason = "drawdown" => Breach(booked[today])]_vars
=============================================================================
