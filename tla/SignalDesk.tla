----------------------------- MODULE SignalDesk -----------------------------
(***************************************************************************)
(* From a booked loss to a dashboard without signals: the circuit breaker  *)
(* and the packet push share one FreezeState (src/main.rs). The breaker    *)
(* sets it and tells nobody, the manual switch sets it and notifies, the   *)
(* analytics thread reads it once an emission, and a restart forgets it    *)
(* together with the packet, the settings and every connection.            *)
(***************************************************************************)
EXTENDS CircuitBreaker

CONSTANTS Clients, Settings, DefaultSettings  \* those of SignalPush

VARIABLES settings, ana, packet, client

Push == INSTANCE SignalPush WITH frozen <- freeze.frozen

pushVars == <<settings, ana, packet, client>>
deskVars == <<vars, pushVars>>

DeskInit == Init /\ Push!Init

-----------------------------------------------------------------------------
\* What the user and the clock do to the journal leaves the packets alone.
Keep ==
    /\ (\E d \in 1..today, p \in Profit : Book(d, p)) \/ ClearJournal \/ NextDay \/ Evaluate
    /\ UNCHANGED pushVars

\* The switch: the freeze is written, then every suspended connection is woken.
Switch(on) == SignalFreeze(on) /\ Push!SignalFreeze(on)

\* The breaker writes the same freeze and wakes nobody (Push!BreakerFreeze).
Trip == Apply /\ UNCHANGED pushVars

\* Connections end with the process; packet and settings start afresh.
Reboot ==
    /\ Restart
    /\ settings' = DefaultSettings
    /\ ana' = [pc |-> "idle", out |-> Push!Blank]
    /\ packet' = Push!Blank
    /\ client' = [c \in Clients |-> Push!Off]

Emission == UNCHANGED vars /\ Push!Emission

Connection(c) ==
    /\ UNCHANGED vars
    /\ \/ Push!Connect(c) \/ Push!Serve(c) \/ Push!Ignore(c) \/ Push!Disconnect(c)
       \/ \E s \in Settings : Push!Configure(c, s)

DeskNext ==
    \/ Keep \/ Trip \/ Reboot \/ Emission
    \/ \E on \in BOOLEAN : Switch(on)
    \/ \E c \in Clients : Connection(c)

DeskSpec == DeskInit /\ [][DeskNext]_deskVars

\* The fairness of both modules, for the reasons given there.
DeskFairSpec ==
    /\ DeskSpec
    /\ WF_deskVars(Evaluate /\ UNCHANGED pushVars) /\ SF_deskVars(Trip)
    /\ WF_deskVars(Emission)
    /\ \A c \in Clients : /\ WF_deskVars(UNCHANGED vars /\ Push!SendDone(c))
                          /\ SF_deskVars(UNCHANGED vars /\ Push!Push(c))

-----------------------------------------------------------------------------
\* A journal in breach freezes the desk again after every unfreeze and restart; and it
\* empties every dashboard, although the breaker's freeze wakes no connection and an
\* emission under way may have read the freeze before it, unless the journal
\* recovers, the dashboard leaves, or freezes are lifted and the process is restarted
\* without end.
BreachStopsTheDesk ==
    /\ BreachFreezes
    /\ <>[][~(Reboot \/ Switch(FALSE))]_deskVars =>
          \A c \in Clients :
              Breach(DailyPnl) /\ client[c].pc # "off"
                  ~> ~Breach(DailyPnl) \/ client[c].pc = "off" \/ ~client[c].shown.signals
=============================================================================
