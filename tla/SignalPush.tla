----------------------------- MODULE SignalPush -----------------------------
(***************************************************************************)
(* The signal packet on its way to the dashboards: the analytics thread    *)
(* ranks with the current settings, applies the freeze and replaces the    *)
(* shared packet once a second (src/main.rs); each WebSocket connection    *)
(* pushes the packet when notified and applies settings (src/server.rs).   *)
(*                                                                         *)
(* `Notify::notify_waiters` leaves no permit behind: only connections that *)
(* are suspended in their select! at that moment are woken.                *)
(***************************************************************************)
EXTENDS Integers

CONSTANTS
    Clients,         \* WebSocket connections
    Settings,        \* (budget, risk%) pairs after UserSettings::new
    DefaultSettings  \* those the server starts with

ASSUME SettingsAssumption == DefaultSettings \in Settings

VARIABLES
    frozen,    \* FreezeState.frozen
    settings,  \* RwLock<UserSettings>
    ana,       \* analytics thread: the emission it is working on
    packet,    \* RwLock<SignalPacket>
    client     \* per connection: where it is, what it sends, what it shows

vars == <<frozen, settings, ana, packet, client>>

\* A packet: are there signals or a plan in it, the settings they were made
\* for, and does it carry the freeze alert. Auxiliary, named by properties only:
\* `held`, the alert is that of the freeze now in force.
Packet == [signals : BOOLEAN, settings : Settings, alert : BOOLEAN, held : BOOLEAN]
Blank == [signals |-> FALSE, settings |-> DefaultSettings, alert |-> FALSE, held |-> FALSE]
Unheld(p) == [p EXCEPT !.held = FALSE]

AnaPc == {"idle", "ranked", "filtered"}
ClientPc == {"off", "select", "woken", "sending"}
Off == [pc |-> "off", buf |-> Blank, shown |-> Blank]

TypeOK ==
    /\ frozen \in BOOLEAN
    /\ settings \in Settings
    /\ ana \in [pc : AnaPc, out : Packet]
    /\ packet \in Packet
    /\ client \in [Clients -> [pc : ClientPc, buf : Packet, shown : Packet]]
    /\ \A c \in Clients : client[c].pc = "off" => client[c] = Off

Init ==
    /\ frozen = FALSE
    /\ settings = DefaultSettings
    /\ ana = [pc |-> "idle", out |-> Blank]
    /\ packet = Blank
    /\ client = [c \in Clients |-> Off]

\* Notify::notify_waiters
NotifyWaiters(cl) ==
    [c \in Clients |-> IF cl[c].pc = "select" THEN [cl[c] EXCEPT !.pc = "woken"] ELSE cl[c]]

-----------------------------------------------------------------------------
\* The freeze switch.

\* POST /api/signal_freeze
SignalFreeze(on) ==
    /\ frozen' = on
    /\ LET Keep(p) == IF on THEN p ELSE Unheld(p)
       IN  /\ client' = NotifyWaiters([c \in Clients |->
                  [client[c] EXCEPT !.buf = Keep(@), !.shown = Keep(@)]])
           /\ ana' = [ana EXCEPT !.out = Keep(@)]
           /\ packet' = Keep(packet)
    /\ UNCHANGED settings

\* The circuit breaker sets the flag and notifies nobody.
BreakerFreeze ==
    /\ frozen' = TRUE
    /\ UNCHANGED <<settings, ana, packet, client>>

-----------------------------------------------------------------------------
\* The analytics thread, once a second.

\* Mutant: the thread keeps the settings it started with.
RankWithDefaults ==
    /\ ana.pc = "idle"
    /\ \E signals \in BOOLEAN :
          ana' = [pc |-> "ranked", out |-> [signals |-> signals, settings |-> DefaultSettings,
                                            alert |-> FALSE, held |-> FALSE]]
    /\ UNCHANGED <<frozen, settings, packet, client>>

\* Snapshot, rank and plan with the settings read now.
Rank ==
    /\ ana.pc = "idle"
    /\ \E signals \in BOOLEAN :
          ana' = [pc |-> "ranked", out |-> [signals |-> signals, settings |-> settings,
                                            alert |-> FALSE, held |-> FALSE]]
    /\ UNCHANGED <<frozen, settings, packet, client>>

\* Mutant: the alert goes out but the rows are not cleared.
FilterAlertOnly ==
    /\ ana.pc = "ranked"
    /\ ana' = [pc |-> "filtered", out |-> [ana.out EXCEPT !.alert = frozen, !.held = frozen]]
    /\ UNCHANGED <<frozen, settings, packet, client>>

\* Read the freeze: when frozen, clear the rows and the plan and add the alert.
Filter ==
    /\ ana.pc = "ranked"
    /\ ana' = [pc |-> "filtered",
               out |-> IF frozen THEN [ana.out EXCEPT !.signals = FALSE, !.alert = TRUE,
                                                      !.held = TRUE]
                       ELSE ana.out]
    /\ UNCHANGED <<frozen, settings, packet, client>>

\* Mutant: the packet is replaced without notifying.
EmitSilently ==
    /\ ana.pc = "filtered"
    /\ packet' = ana.out
    /\ ana' = [ana EXCEPT !.pc = "idle"]
    /\ UNCHANGED <<frozen, settings, client>>

\* Replace the shared packet and notify.
Emit ==
    /\ ana.pc = "filtered"
    /\ packet' = ana.out
    /\ client' = NotifyWaiters(client)
    /\ ana' = [ana EXCEPT !.pc = "idle"]
    /\ UNCHANGED <<frozen, settings>>

-----------------------------------------------------------------------------
\* handle_socket, one connection c.

\* Send the packet as it is now.
Send(c) ==
    client' = [client EXCEPT ![c] = [client[c] EXCEPT !.pc = "sending", !.buf = packet]]

\* A new connection: its first frame is the current packet.
Connect(c) ==
    /\ client[c].pc = "off"
    /\ Send(c)
    /\ UNCHANGED <<frozen, settings, ana, packet>>

\* The send completes and the loop suspends in select! again.
SendDone(c) ==
    /\ client[c].pc = "sending"
    /\ client' = [client EXCEPT ![c] = [client[c] EXCEPT !.pc = "select",
                                              !.shown = client[c].buf]]
    /\ UNCHANGED <<frozen, settings, ana, packet>>

\* Branch (a): woken by a notify.
Push(c) ==
    /\ client[c].pc = "woken"
    /\ Send(c)
    /\ UNCHANGED <<frozen, settings, ana, packet>>

\* Branch (b): a settings message, confirmed by sending the packet. When a wake is pending too, select! may take
\* this branch and drop the wake.
Configure(c, s) ==
    /\ client[c].pc \in {"select", "woken"}
    /\ settings' = s
    /\ Send(c)
    /\ UNCHANGED <<frozen, ana, packet>>

\* Branch (b): a ping, a binary frame or text that is no settings message is
\* ignored; a pending wake is dropped with it.
Ignore(c) ==
    /\ client[c].pc = "woken"
    /\ client' = [client EXCEPT ![c].pc = "select"]
    /\ UNCHANGED <<frozen, settings, ana, packet>>

\* The client closes, or a send fails.
Disconnect(c) ==
    /\ client[c].pc # "off"
    /\ client' = [client EXCEPT ![c] = Off]
    /\ UNCHANGED <<frozen, settings, ana, packet>>

-----------------------------------------------------------------------------
Emission == Rank \/ Filter \/ Emit

Serve(c) == SendDone(c) \/ Push(c)

Next ==
    \/ \E on \in BOOLEAN : SignalFreeze(on)
    \/ BreakerFreeze
    \/ Emission
    \/ \E c \in Clients : \/ Connect(c) \/ Serve(c) \/ Ignore(c) \/ Disconnect(c)
                          \/ \E s \in Settings : Configure(c, s)

Spec == Init /\ [][Next]_vars

\* The analytics loop runs until shutdown and a send completes or fails. Strong
\* fairness of Push: select! polls its branches in random order, so a connection
\* woken again and again does not take branch (b) every time. Nobody has to
\* configure, freeze or disconnect.
FairSpec ==
    /\ Spec
    /\ WF_vars(Emission)
    /\ \A c \in Clients : WF_vars(SendDone(c)) /\ SF_vars(Push(c))

-----------------------------------------------------------------------------
\* Once the present freeze has shown on a dashboard it stays shown: no frame
\* ranked earlier, no echo and no push overtakes it with signals until the freeze
\* is lifted (main.rs, "halt new suggestions + clear the queue").
FreezeHolds ==
    [][\A c \in Clients :
          client[c].shown.held /\ client'[c].shown # client[c].shown
              => ~client'[c].shown.signals \/ ~frozen']_vars

\* A freeze reaches every dashboard, although wakes are lost while a frame is
\* being sent and the freeze's own push still carries the packet of before.
FreezeReachesClients ==
    \A c \in Clients :
        frozen /\ client[c].pc # "off"
            ~> ~client[c].shown.signals \/ ~frozen \/ client[c].pc = "off"

\* Settings reach every dashboard: each eventually shows rows made for them.
SettingsReachClients ==
    \A c \in Clients, s \in Settings :
        settings = s /\ client[c].pc # "off"
            ~> client[c].shown.settings = s \/ settings # s \/ client[c].pc = "off"
=============================================================================
