---------------------------- MODULE SignalProofs ----------------------------
(***************************************************************************)
(* Signals, from the bars they are found on to the dashboards they are     *)
(* shown on, for every instance.                                           *)
(*                                                                         *)
(* SignalPush, for any set of connections and of settings: types, and that *)
(* a freeze once shown on a dashboard stays shown.                         *)
(*                                                                         *)
(* Signals, for every chart and all periods: each indicator of a chart     *)
(* agrees with that of the chart one bar longer, so no strategy sees the   *)
(* future.                                                                 *)
(***************************************************************************)
EXTENDS SignalPush, Signals, FiniteSetTheorems, SequenceTheorems, TLAPS

Facts == INSTANCE FoldFacts WITH Op <- Append

\* A packet marked as made under the present freeze is one: the freeze is in
\* force and there are no signals in it.
Sound(p) == p.held => frozen /\ ~p.signals

\* Along the way from the analytics thread over the shared packet and the send
\* buffer to the screen, `held` never gets lost: whatever is upstream of a held
\* packet is held too. This is what FreezeHolds needs about the steps before.
HeldInv ==
    /\ Sound(packet) /\ Sound(ana.out)
    /\ ana.pc = "filtered" /\ packet.held => ana.out.held
    /\ \A c \in Clients :
          /\ Sound(client[c].buf) /\ Sound(client[c].shown)
          /\ client[c].buf.held \/ client[c].shown.held => packet.held
          /\ client[c].pc = "sending" /\ client[c].shown.held => client[c].buf.held

IInv == TypeOK /\ HeldInv

\* The inductive invariant holds of the initial state.
LEMMA InitIInv == Init => IInv
  <1>. SUFFICES ASSUME Init PROVE IInv
    OBVIOUS
  <1>1. Blank \in Packet
    BY SettingsAssumption DEF Blank, Packet
  <1>2. TypeOK
    BY <1>1, SettingsAssumption DEF Init, TypeOK, Off, AnaPc, ClientPc
  <1>3. HeldInv
    BY DEF Init, HeldInv, Sound, Off, Blank
  <1>. QED BY <1>2, <1>3 DEF IInv

\* A connection's record, as the type invariant has it.
ClientRecord == [pc : ClientPc, buf : Packet, shown : Packet]

\* What notify_waiters does to one connection: it may leave select!, and keeps
\* its frames.
LEMMA NotifyKeepsFrames ==
    ASSUME NEW cl, cl \in [Clients -> ClientRecord]
    PROVE  /\ NotifyWaiters(cl) \in [Clients -> ClientRecord]
           /\ \A c \in Clients :
                 /\ NotifyWaiters(cl)[c].buf = cl[c].buf
                 /\ NotifyWaiters(cl)[c].shown = cl[c].shown
                 /\ \/ NotifyWaiters(cl)[c].pc = cl[c].pc
                    \/ cl[c].pc = "select" /\ NotifyWaiters(cl)[c].pc = "woken"
  <1>1. ASSUME NEW c \in Clients
        PROVE  /\ NotifyWaiters(cl)[c] \in ClientRecord
               /\ NotifyWaiters(cl)[c].buf = cl[c].buf
               /\ NotifyWaiters(cl)[c].shown = cl[c].shown
               /\ \/ NotifyWaiters(cl)[c].pc = cl[c].pc
                  \/ cl[c].pc = "select" /\ NotifyWaiters(cl)[c].pc = "woken"
    <2>1. cl[c] \in ClientRecord
      OBVIOUS
    <2>2. NotifyWaiters(cl)[c] = IF cl[c].pc = "select" THEN [cl[c] EXCEPT !.pc = "woken"]
                                 ELSE cl[c]
      BY DEF NotifyWaiters
    <2>. QED BY <2>1, <2>2 DEF ClientRecord, ClientPc
  <1>. QED BY <1>1 DEF NotifyWaiters

\* Lifting the freeze leaves packets well typed and none of them held.
LEMMA UnheldPacket ==
    ASSUME NEW p \in Packet
    PROVE  Unheld(p) \in Packet /\ ~Unheld(p).held
  BY DEF Unheld, Packet

\* A blank packet is never held.
LEMMA UnheldBlank == Unheld(Blank) = Blank
  <1>1. Blank \in Packet
    BY SettingsAssumption DEF Blank, Packet
  <1>2. Unheld(Blank) \in Packet
    BY <1>1, UnheldPacket
  <1>3. /\ Unheld(Blank).signals = Blank.signals /\ Unheld(Blank).alert = Blank.alert
        /\ Unheld(Blank).settings = Blank.settings /\ Unheld(Blank).held = Blank.held
    BY <1>1 DEF Unheld, Packet, Blank
  <1>. QED BY <1>1, <1>2, <1>3 DEF Packet

\* POST /api/signal_freeze with true: the marks stay, and stay sound.
LEMMA FreezeOnStep ==
    ASSUME IInv, SignalFreeze(TRUE)
    PROVE  IInv'
  <1>. USE DEF IInv
  <1>1. client \in [Clients -> ClientRecord]
    BY DEF TypeOK, ClientRecord
  <1>2. [c \in Clients |-> [client[c] EXCEPT !.buf = @, !.shown = @]] = client
    BY <1>1 DEF ClientRecord
  <1>3. /\ frozen' = TRUE /\ client' = NotifyWaiters(client)
        /\ [ana EXCEPT !.out = @] = ana
        /\ UNCHANGED <<ana, packet, settings>>
    BY <1>2 DEF SignalFreeze, TypeOK
  <1>4. TypeOK'
    <2>1. client' \in [Clients -> ClientRecord]
      BY <1>1, <1>3, NotifyKeepsFrames
    <2>2. \A c \in Clients : client'[c].pc = "off" => client'[c] = Off
      BY <1>1, <1>3 DEF NotifyWaiters, TypeOK, ClientRecord
    <2>. QED BY <1>3, <2>1, <2>2 DEF TypeOK, ClientRecord
  <1>5. HeldInv'
    BY <1>1, <1>3, NotifyKeepsFrames DEF HeldInv, Sound
  <1>. QED BY <1>4, <1>5

\* POST /api/signal_freeze with false: nothing is held any more.
LEMMA FreezeOffStep ==
    ASSUME IInv, SignalFreeze(FALSE)
    PROVE  IInv'
  <1>. USE DEF IInv
  <1>. DEFINE lifted == [c \in Clients |-> [client[c] EXCEPT !.buf = Unheld(@),
                                                         !.shown = Unheld(@)]]
  <1>1. client \in [Clients -> ClientRecord]
    BY DEF TypeOK, ClientRecord
  <1>2. /\ frozen' = FALSE /\ client' = NotifyWaiters(lifted)
        /\ ana' = [ana EXCEPT !.out = Unheld(@)]
        /\ packet' = Unheld(packet) /\ UNCHANGED settings
    BY DEF SignalFreeze
  <1>3. \A c \in Clients : /\ lifted[c].pc = client[c].pc
                           /\ lifted[c].buf = Unheld(client[c].buf)
                           /\ lifted[c].shown = Unheld(client[c].shown)
    BY <1>1 DEF ClientRecord
  <1>4. lifted \in [Clients -> ClientRecord]
    BY <1>1, UnheldPacket DEF ClientRecord
  <1>. HIDE DEF lifted
  <1>5. \A c \in Clients : /\ client'[c].buf = Unheld(client[c].buf)
                           /\ client'[c].shown = Unheld(client[c].shown)
                           /\ client'[c].pc = "off" => client[c].pc = "off"
    BY <1>2, <1>3, <1>4, NotifyKeepsFrames
  <1>6. TypeOK'
    <2>1. client' \in [Clients -> ClientRecord]
      BY <1>2, <1>4, NotifyKeepsFrames
    <2>2. ana' \in [pc : AnaPc, out : Packet] /\ packet' \in Packet
      BY <1>2, UnheldPacket DEF TypeOK
    <2>3. \A c \in Clients : client'[c].pc = "off" => client'[c] = Off
      <3>. SUFFICES ASSUME NEW c \in Clients, client'[c].pc = "off"
                    PROVE  client'[c] = Off
        OBVIOUS
      <3>1. client[c].pc = "off"
        BY ONLY <1>5, c \in Clients, client'[c].pc = "off"
      <3>2. client[c] = Off
        BY <3>1 DEF TypeOK
      <3>3. Unheld(Blank) = Blank
        BY UnheldBlank
      <3>4. client'[c].buf = Unheld(Off.buf) /\ client'[c].shown = Unheld(Off.shown)
        BY <1>5, <3>2
      <3>5. client'[c].buf = Blank /\ client'[c].shown = Blank
        BY <3>3, <3>4 DEF Off
      <3>. QED BY <2>1, <3>5 DEF Off, ClientRecord
    <2>. QED BY <1>2, <2>1, <2>2, <2>3 DEF TypeOK, ClientRecord
  <1>7. ~packet'.held /\ ~ana'.out.held
    BY <1>2, UnheldPacket DEF TypeOK
  <1>8. \A c \in Clients : ~client'[c].buf.held /\ ~client'[c].shown.held
    <2>. SUFFICES ASSUME NEW c \in Clients
                  PROVE  ~client'[c].buf.held /\ ~client'[c].shown.held
      OBVIOUS
    <2>1. client[c].buf \in Packet /\ client[c].shown \in Packet
      BY <1>1 DEF ClientRecord
    <2>2. client'[c].buf = Unheld(client[c].buf) /\ client'[c].shown = Unheld(client[c].shown)
      BY <1>5
    <2>. QED BY <2>1, <2>2, UnheldPacket
  <1>9. HeldInv'
    BY <1>7, <1>8 DEF HeldInv, Sound
  <1>. QED BY <1>6, <1>9

\* The breaker only adds the flag.
LEMMA BreakerStep ==
    ASSUME IInv, BreakerFreeze
    PROVE  IInv'
  BY DEF IInv, TypeOK, HeldInv, Sound, BreakerFreeze

\* The three steps of an emission: a packet ranked under the freeze replaces one
\* that is held only by another that is held.
LEMMA EmissionStep ==
    ASSUME IInv, Emission
    PROVE  IInv'
  <1>. USE DEF IInv
  <1>1. CASE Rank
    <2>1. PICK signals \in BOOLEAN :
             ana' = [pc |-> "ranked", out |-> [signals |-> signals, settings |-> settings,
                                               alert |-> FALSE, held |-> FALSE]]
      BY <1>1 DEF Rank
    <2>2. TypeOK'
      BY <1>1, <2>1 DEF Rank, TypeOK, AnaPc, Packet
    <2>3. HeldInv'
      BY <1>1, <2>1 DEF Rank, HeldInv, Sound
    <2>. QED BY <2>2, <2>3
  <1>2. CASE Filter
    <2>1. TypeOK'
      BY <1>2 DEF Filter, TypeOK, AnaPc, Packet
    <2>2. HeldInv'
      <3>1. CASE frozen
        <4>1. ana'.out.held /\ ~ana'.out.signals
          BY <1>2, <3>1 DEF Filter, TypeOK, Packet
        <4>. QED BY <1>2, <3>1, <4>1 DEF Filter, HeldInv, Sound
      <3>2. CASE ~frozen
        BY <1>2, <3>2 DEF Filter, HeldInv, Sound
      <3>. QED BY <3>1, <3>2
    <2>. QED BY <2>1, <2>2
  <1>3. CASE Emit
    <2>1. client \in [Clients -> ClientRecord]
      BY DEF TypeOK, ClientRecord
    <2>2. /\ packet' = ana.out /\ client' = NotifyWaiters(client)
          /\ ana' = [ana EXCEPT !.pc = "idle"] /\ UNCHANGED <<frozen, settings>>
          /\ ana.pc = "filtered"
      BY <1>3 DEF Emit
    <2>3. TypeOK'
      <3>1. client' \in [Clients -> ClientRecord]
        BY <2>1, <2>2, NotifyKeepsFrames
      <3>2. \A c \in Clients : client'[c].pc = "off" => client'[c] = Off
        BY <2>1, <2>2 DEF NotifyWaiters, TypeOK, ClientRecord
      <3>. QED BY <2>2, <3>1, <3>2 DEF TypeOK, ClientRecord, AnaPc
    <2>4. ana'.pc = "idle" /\ ana'.out = ana.out
      BY <2>2 DEF TypeOK
    <2>5. HeldInv'
      BY <2>1, <2>2, <2>4, NotifyKeepsFrames DEF HeldInv, Sound
    <2>. QED BY <2>3, <2>5
  <1>. QED BY <1>1, <1>2, <1>3 DEF Emission

\* A step that replaces the record of one connection by one whose frames are
\* sound and held only downstream of what is held.
LEMMA ClientStep ==
    ASSUME IInv, NEW c \in Clients, NEW new \in ClientRecord,
           client' = [client EXCEPT ![c] = new],
           new.pc = "off" => new = Off,
           Sound(new.buf), Sound(new.shown),
           new.buf.held \/ new.shown.held => packet.held,
           new.pc = "sending" /\ new.shown.held => new.buf.held,
           UNCHANGED <<frozen, ana, packet>>, settings' \in Settings
    PROVE  IInv'
  BY DEF IInv, TypeOK, HeldInv, Sound, ClientRecord

\* Taking the packet as it is now into the send buffer.
LEMMA SendStep ==
    ASSUME IInv, NEW c \in Clients, Send(c),
           UNCHANGED <<frozen, ana, packet>>, settings' \in Settings
    PROVE  IInv'
  <1>. DEFINE new == [client[c] EXCEPT !.pc = "sending", !.buf = packet]
  <1>1. new \in ClientRecord /\ new.pc = "sending" /\ new.buf = packet
           /\ new.shown = client[c].shown
    BY DEF IInv, TypeOK, ClientRecord, ClientPc
  <1>2. Sound(new.buf) /\ Sound(new.shown) /\ (new.shown.held => packet.held)
    BY <1>1 DEF IInv, HeldInv
  <1>3. client' = [client EXCEPT ![c] = new]
    BY DEF Send
  <1>. HIDE DEF new
  <1>. QED BY <1>1, <1>2, <1>3, ClientStep

\* Every step of a connection.
LEMMA ConnectionStep ==
    ASSUME IInv, NEW c \in Clients,
           \/ Connect(c) \/ Serve(c) \/ Ignore(c) \/ Disconnect(c)
           \/ \E s \in Settings : Configure(c, s)
    PROVE  IInv'
  <1>0. settings \in Settings /\ client[c] \in ClientRecord
    BY DEF IInv, TypeOK, ClientRecord
  <1>1. CASE Connect(c) \/ Push(c)
    BY <1>0, <1>1, SendStep DEF Connect, Push
  <1>2. CASE \E s \in Settings : Configure(c, s)
    BY <1>2, SendStep DEF Configure
  <1>3. CASE SendDone(c)
    <2>. DEFINE new == [client[c] EXCEPT !.pc = "select", !.shown = client[c].buf]
    <2>1. new \in ClientRecord /\ new.pc = "select" /\ new.buf = client[c].buf
             /\ new.shown = client[c].buf
      BY <1>0 DEF ClientRecord, ClientPc
    <2>2. Sound(new.buf) /\ Sound(new.shown)
             /\ (new.buf.held \/ new.shown.held => packet.held)
      BY <2>1 DEF IInv, HeldInv
    <2>3. client' = [client EXCEPT ![c] = new] /\ UNCHANGED <<frozen, settings, ana, packet>>
      BY <1>3 DEF SendDone
    <2>. HIDE DEF new
    <2>. QED BY <1>0, <2>1, <2>2, <2>3, ClientStep
  <1>4. CASE Ignore(c)
    <2>. DEFINE new == [client[c] EXCEPT !.pc = "select"]
    <2>1. new \in ClientRecord /\ new.pc = "select" /\ new.buf = client[c].buf
             /\ new.shown = client[c].shown
      BY <1>0 DEF ClientRecord, ClientPc
    <2>2. Sound(new.buf) /\ Sound(new.shown)
             /\ (new.buf.held \/ new.shown.held => packet.held)
      BY <2>1 DEF IInv, HeldInv
    <2>3. client' = [client EXCEPT ![c] = new] /\ UNCHANGED <<frozen, settings, ana, packet>>
      BY <1>4 DEF Ignore
    <2>. HIDE DEF new
    <2>. QED BY <1>0, <2>1, <2>2, <2>3, ClientStep
  <1>5. CASE Disconnect(c)
    <2>1. Off \in ClientRecord /\ Sound(Off.buf) /\ Sound(Off.shown)
             /\ ~Off.buf.held /\ ~Off.shown.held
      BY SettingsAssumption DEF Off, Blank, ClientRecord, ClientPc, Packet, Sound
    <2>2. client' = [client EXCEPT ![c] = Off] /\ UNCHANGED <<frozen, settings, ana, packet>>
      BY <1>5 DEF Disconnect
    <2>. QED BY <1>0, <2>1, <2>2, ClientStep
  <1>. QED BY <1>1, <1>2, <1>3, <1>4, <1>5 DEF Serve

\* The inductive invariant is kept by every step.
LEMMA NextIInv == IInv /\ [Next]_vars => IInv'
  <1>. SUFFICES ASSUME IInv, [Next]_vars PROVE IInv'
    OBVIOUS
  <1>1. CASE \E on \in BOOLEAN : SignalFreeze(on)
    BY <1>1, FreezeOnStep, FreezeOffStep
  <1>2. CASE UNCHANGED vars
    BY <1>2 DEF IInv, TypeOK, HeldInv, Sound, vars
  <1>. QED
    BY <1>1, <1>2, BreakerStep, EmissionStep, ConnectionStep DEF Next

\* Every state is well typed: the emission, the packet and every connection's
\* frames, for any set of connections and of settings.
THEOREM TypeCorrect == Spec => []TypeOK
  <1>1. IInv => TypeOK
    BY DEF IInv
  <1>. QED BY InitIInv, NextIInv, <1>1, PTL DEF Spec

\* A step of one connection under the invariant: a dashboard that shows the
\* present freeze gets no frame with signals.
LEMMA FrameStep ==
    ASSUME IInv, Next, NEW c \in Clients,
           client[c].shown.held, client'[c].shown # client[c].shown, frozen'
    PROVE  ~client'[c].shown.signals
  <1>0. client \in [Clients -> ClientRecord]
    BY DEF IInv, TypeOK, ClientRecord
  <1>1. CASE \E on \in BOOLEAN : SignalFreeze(on)
    <2>1. SignalFreeze(TRUE)
      BY <1>1 DEF SignalFreeze
    <2>2. [d \in Clients |-> [client[d] EXCEPT !.buf = @, !.shown = @]] = client
      BY <1>0 DEF ClientRecord
    <2>3. client' = NotifyWaiters(client)
      BY <2>1, <2>2 DEF SignalFreeze
    <2>. QED BY <1>0, <2>3, NotifyKeepsFrames
  <1>2. CASE BreakerFreeze
    BY <1>2 DEF BreakerFreeze
  <1>3. CASE Emission
    <2>1. client' = client \/ client' = NotifyWaiters(client)
      BY <1>3 DEF Emission, Rank, Filter, Emit
    <2>. QED BY <1>0, <2>1, NotifyKeepsFrames
  <1>4. ASSUME NEW d \in Clients,
               \/ Connect(d) \/ Push(d) \/ Ignore(d) \/ \E s \in Settings : Configure(d, s)
        PROVE  FALSE
    <2>1. CASE Connect(d) \/ Push(d) \/ \E s \in Settings : Configure(d, s)
      <3>1. Send(d)
        BY <2>1 DEF Connect, Push, Configure
      <3>. QED BY <1>0, <3>1 DEF Send, ClientRecord
    <2>2. CASE Ignore(d)
      BY <1>0, <2>2 DEF Ignore, ClientRecord
    <2>. QED BY <1>4, <2>1, <2>2
  <1>5. ASSUME NEW d \in Clients, SendDone(d)
        PROVE  ~client'[c].shown.signals
    <2>1. c = d /\ client[c].pc = "sending" /\ client'[c].shown = client[c].buf
      BY <1>0, <1>5 DEF SendDone, ClientRecord
    <2>. QED BY <2>1 DEF IInv, HeldInv, Sound
  <1>6. ASSUME NEW d \in Clients, Disconnect(d)
        PROVE  ~client'[c].shown.signals
    BY <1>0, <1>6 DEF Disconnect, Off, Blank
  <1>. QED BY <1>1, <1>2, <1>3, <1>4, <1>5, <1>6 DEF Next, Serve

\* Once the present freeze has shown on a dashboard it stays shown, whatever the
\* number of connections and settings and however emissions, echoes, pushes and
\* the two writers of the freeze interleave.
THEOREM FreezeStaysShown == Spec => FreezeHolds
  <1>. DEFINE Held == \A c \in Clients :
          client[c].shown.held /\ client'[c].shown # client[c].shown
              => ~client'[c].shown.signals \/ ~frozen'
  <1>1. IInv /\ [Next]_vars => [Held]_vars
    BY FrameStep
  <1>2. FreezeHolds <=> [][Held]_vars
    BY DEF FreezeHolds
  <1>. HIDE DEF Held
  <1>. QED BY InitIInv, NextIInv, <1>1, <1>2, PTL DEF Spec

-----------------------------------------------------------------------------
\* d is b with one bar more, of the last day or a later one.
Longer(b, d, n) ==
    /\ n \in Nat /\ DOMAIN b = 1..n /\ DOMAIN d = 1..(n + 1) /\ Len(b) = n /\ Len(d) = n + 1
    /\ \A i \in 1..n : d[i] = b[i]
    /\ \A i \in 1..(n + 1) : d[i].day \in Int
    /\ \A i \in 1..n : d[i].day <= d[n + 1].day

\* y is x and a value more at most, that of the new bar.
Agree(x, y, n) ==
    /\ DOMAIN y \subseteq 1..(n + 1) /\ DOMAIN x = DOMAIN y \cap (1..n)
    /\ \A i \in DOMAIN x : y[i] = x[i]

\* Both start at lo and have no gap.
Extends(x, y, lo, n) ==
    /\ lo \in Nat \ {0} /\ n \in Nat /\ DOMAIN x = lo..n /\ DOMAIN y = lo..(n + 1)
    /\ \A i \in lo..n : y[i] = x[i]

\* Such values agree.
LEMMA ExtendsAgree ==
    ASSUME NEW x, NEW y, NEW lo, NEW n, Extends(x, y, lo, n)
    PROVE  Agree(x, y, n)
  <1>1. lo..n = (lo..(n + 1)) \cap (1..n) /\ lo..(n + 1) \subseteq 1..(n + 1)
    BY DEF Extends
  <1>. QED BY <1>1 DEF Extends, Agree

\* Sums over the same values are the same.
LEMMA OverBarsSame ==
    ASSUME NEW x, NEW y, NEW lo, NEW hi, \A i \in lo..hi : y[i] = x[i]
    PROVE  OverBars(y, lo, hi) = OverBars(x, lo, hi)
  <1>1. [i \in lo..hi |-> y[i]] = [i \in lo..hi |-> x[i]]
    OBVIOUS
  <1>. QED BY <1>1 DEF OverBars

-----------------------------------------------------------------------------
\* h has the first value of g, and of each value the next.
Follows(g, h, s, n) ==
    /\ s \in Nat /\ n \in Nat /\ (s <= n => h[s] = g[s])
    /\ \A i \in (s + 1)..n : h[i - 1] = g[i - 1] => h[i] = g[i]

\* What is defined from value to value is the same as far as the values are.
LEMMA RecursionSame ==
    ASSUME NEW g, NEW h, NEW s, NEW n, Follows(g, h, s, n)
    PROVE  \A i \in s..n : h[i] = g[i]
  <1>. USE DEF Follows
  <1>. DEFINE Good == {k \in Nat : s + k <= n => h[s + k] = g[s + k]}
  <1>1. 0 \in Good
    OBVIOUS
  <1>2. ASSUME NEW k \in Nat, k \in Good PROVE k + 1 \in Good
    <2>. SUFFICES ASSUME s + (k + 1) <= n PROVE h[s + (k + 1)] = g[s + (k + 1)]
      OBVIOUS
    <2>1. PICK i : i = s + (k + 1)
      OBVIOUS
    <2>2. i \in (s + 1)..n /\ i - 1 = s + k /\ s + k <= n
      BY <2>1
    <2>3. h[i - 1] = g[i - 1]
      BY <1>2, <2>2
    <2>. QED BY <2>1, <2>2, <2>3
  <1>. HIDE DEF Good
  <1>3. Nat \subseteq Good
    BY <1>1, <1>2, Facts!NatInduct
  <1>4. ASSUME NEW i \in s..n PROVE h[i] = g[i]
    <2>1. i - s \in Nat /\ s + (i - s) = i /\ i <= n
      OBVIOUS
    <2>2. i - s \in Good
      BY <1>3, <2>1
    <2>. QED BY <2>1, <2>2 DEF Good
  <1>. QED BY <1>4

\* Exponential smoothing, from value to value.
Smooth(x, p, q, i, v) == (x[i] + (p - 1) * v) \div q
Smoothed(g, x, p, q, s, m, base) ==
    g = [i \in s..m |-> IF i = s THEN base ELSE Smooth(x, p, q, i, g[i - 1])]

\* There is one.
LEMMA SmoothedExists ==
    ASSUME NEW x, NEW p, NEW q, NEW s \in Nat, NEW m \in Nat, NEW base
    PROVE  \E g : Smoothed(g, x, p, q, s, m, base)
  <1>. DEFINE Good == {k \in Nat : \E g : Smoothed(g, x, p, q, s, k, base)}
  <1>1. 0 \in Good
    <2>1. PICK g : g = [i \in s..0 |-> base]
      OBVIOUS
    <2>2. g = [i \in s..0 |-> IF i = s THEN base ELSE Smooth(x, p, q, i, g[i - 1])]
      <3>1. \A i \in s..0 : i = s
        OBVIOUS
      <3>. QED BY <2>1, <3>1
    <2>. QED BY <2>2 DEF Smoothed
  <1>2. ASSUME NEW k \in Nat, k \in Good PROVE k + 1 \in Good
    <2>1. PICK g : Smoothed(g, x, p, q, s, k, base)
      BY <1>2
    <2>2. /\ s \in s..k => g[s] = base
          /\ \A i \in s..k : i # s => g[i] = Smooth(x, p, q, i, g[i - 1])
      BY <2>1 DEF Smoothed
    <2>3. PICK h : h = [i \in s..(k + 1) |->
                          IF i = s THEN base
                          ELSE Smooth(x, p, q, i, IF i - 1 = s THEN base ELSE g[i - 1])]
      OBVIOUS
    <2>4. ASSUME NEW i \in s..(k + 1), i # s
          PROVE  h[i] = Smooth(x, p, q, i, h[i - 1])
      <3>1. h[i] = Smooth(x, p, q, i, IF i - 1 = s THEN base ELSE g[i - 1])
        BY <2>3, <2>4
      <3>2. i - 1 \in s..k /\ i - 1 \in s..(k + 1)
        BY <2>4
      <3>3. CASE i - 1 = s
        BY <2>3, <3>1, <3>2, <3>3
      <3>4. CASE i - 1 # s
        <4>1. PICK j : j = i - 1
          OBVIOUS
        <4>2. j \in s..(k + 1) /\ j \in s..k /\ j # s /\ j - 1 \in s..k
          BY <3>2, <3>4, <4>1
        <4>3. h[j] = Smooth(x, p, q, j, IF j - 1 = s THEN base ELSE g[j - 1])
          BY <2>3, <4>2
        <4>4. g[j] = Smooth(x, p, q, j, g[j - 1])
          BY <2>2, <4>2
        <4>5. s \in s..k
          BY <4>2
        <4>6. h[j] = g[j]
          BY <2>2, <4>3, <4>4, <4>5
        <4>. QED BY <3>1, <3>4, <4>1, <4>6
      <3>. QED BY <3>3, <3>4
    <2>5. h = [i \in s..(k + 1) |-> IF i = s THEN base ELSE Smooth(x, p, q, i, h[i - 1])]
      BY <2>3, <2>4
    <2>. QED BY <2>5 DEF Smoothed
  <1>. HIDE DEF Good
  <1>3. m \in Good
    BY <1>1, <1>2, Facts!NatInduct
  <1>. QED BY <1>3 DEF Good

\* A line of numbers from lo to n: its least and its greatest.
LEMMA EndsOf ==
    ASSUME NEW lo \in Nat, NEW n \in Nat, lo <= n
    PROVE  Min(lo..n) = lo /\ Max(lo..n) = n
  <1>1. lo \in lo..n /\ (\A x \in lo..n : lo <= x) /\ n \in lo..n /\ (\A x \in lo..n : x <= n)
    OBVIOUS
  <1>2. \A y \in lo..n : (\A x \in lo..n : y <= x) => y = lo
    BY <1>1
  <1>3. \A y \in lo..n : (\A x \in lo..n : x <= y) => y = n
    BY <1>1
  <1>4. (CHOOSE y \in lo..n : \A x \in lo..n : y <= x) = lo
    BY <1>1, <1>2
  <1>5. (CHOOSE y \in lo..n : \A x \in lo..n : x <= y) = n
    BY <1>1, <1>3
  <1>. QED BY <1>4, <1>5 DEF Min, Max

\* How many there are.
LEMMA LineCount ==
    ASSUME NEW lo \in Nat, NEW n \in Nat
    PROVE  IsFiniteSet(lo..n) /\ Cardinality(lo..n) = IF lo > n THEN 0 ELSE n - lo + 1
  <1>1. lo \in Int /\ n \in Int
    OBVIOUS
  <1>. QED BY <1>1, FS_Interval

EmaOfLine(e, x, lo, p, s, n) ==
    /\ lo \in Nat \ {0} /\ n \in Nat /\ DOMAIN x = lo..n /\ p \in Nat \ {0}
    /\ s = lo + p - 1 /\ e = Ema(x, p)
IsEma(e, x, lo, p, s, n) ==
    /\ DOMAIN e = s..n
    /\ s <= n => e[s] = OverBars(x, lo, s) \div p
    /\ \A i \in (s + 1)..n : e[i] = (2 * x[i] + (p - 1) * e[i - 1]) \div (p + 1)

\* What the mean of a line is: it starts with the p-th value and goes on from value to
\* value.
LEMMA EmaIs ==
    ASSUME NEW e, NEW x, NEW lo, NEW p, NEW s, NEW n, EmaOfLine(e, x, lo, p, s, n)
    PROVE  IsEma(e, x, lo, p, s, n)
  <1>. USE DEF EmaOfLine, IsEma
  <1>1. s \in Nat /\ s >= lo /\ s - p + 1 = lo
    OBVIOUS
  <1>2. CASE Cardinality(lo..n) < p
    <2>1. n < s
      <3>1. CASE lo > n
        BY <1>1, <3>1
      <3>2. CASE ~(lo > n)
        <4>1. n - lo + 1 < p
          BY <1>2, <3>2, LineCount
        <4>. QED BY <4>1
      <3>. QED BY <3>1, <3>2
    <2>2. e = [i \in {} |-> 0]
      BY <1>2 DEF Ema, Undefined
    <2>3. s..n = {} /\ (s + 1)..n = {} /\ ~(s <= n)
      BY <1>1, <2>1
    <2>. QED BY <2>2, <2>3
  <1>3. CASE ~(Cardinality(lo..n) < p)
    <2>1. lo <= n
      <3>1. lo > n => Cardinality(lo..n) = 0
        BY LineCount
      <3>. QED BY <1>3, <3>1
    <2>2. PICK base : base = OverBars(x, lo, s) \div p
      OBVIOUS
    <2>3. PICK y : y = [i \in s..n |-> 2 * x[i]]
      OBVIOUS
    <2>. DEFINE Steps(g) == g = [i \in s..n |-> IF i = s THEN OverBars(x, s - p + 1, s) \div p
                                                ELSE (2 * x[i] + (p - 1) * g[i - 1]) \div (p + 1)]
    <2>4. e = CHOOSE g : Steps(g)
      <3>1. Min(DOMAIN x) + p - 1 = s /\ Max(DOMAIN x) = n
        BY <2>1, EndsOf
      <3>. QED BY <1>3, <3>1 DEF Ema
    <2>5. \E g : Steps(g)
      <3>1. PICK g : Smoothed(g, y, p, p + 1, s, n, base)
        BY <1>1, SmoothedExists
      <3>2. \A i \in s..n : Smooth(y, p, p + 1, i, g[i - 1]) = (2 * x[i] + (p - 1) * g[i - 1]) \div (p + 1)
        BY <2>3 DEF Smooth
      <3>3. g = [i \in s..n |-> IF i = s THEN base ELSE Smooth(y, p, p + 1, i, g[i - 1])]
        BY <3>1 DEF Smoothed
      <3>4. Steps(g)
        BY <1>1, <2>2, <3>2, <3>3
      <3>. QED BY <3>4
    <2>6. Steps(e)
      <3>. HIDE DEF Steps
      <3>. QED BY <2>4, <2>5
    <2>. QED BY <1>1, <2>6
  <1>. QED BY <1>2, <1>3

\* The mean of what agrees agrees.
LEMMA EmaSame ==
    ASSUME NEW x, NEW y, NEW lo, NEW n, Extends(x, y, lo, n), NEW p \in Nat \ {0}
    PROVE  Extends(Ema(x, p), Ema(y, p), lo + p - 1, n)
  <1>1. lo \in Nat \ {0} /\ n \in Nat /\ n + 1 \in Nat /\ DOMAIN x = lo..n /\ DOMAIN y = lo..(n + 1)
        /\ \A i \in lo..n : y[i] = x[i]
    BY DEF Extends
  <1>2. PICK s \in Nat \ {0} : s = lo + p - 1 /\ lo <= s
    BY <1>1
  <1>3. PICK d : d = Ema(x, p)
    OBVIOUS
  <1>4. PICK e : e = Ema(y, p)
    OBVIOUS
  <1>5. IsEma(d, x, lo, p, s, n)
    <2>1. EmaOfLine(d, x, lo, p, s, n)
      BY <1>1, <1>2, <1>3 DEF EmaOfLine
    <2>. QED BY <2>1, EmaIs
  <1>6. IsEma(e, y, lo, p, s, n + 1)
    <2>1. EmaOfLine(e, y, lo, p, s, n + 1)
      BY <1>1, <1>2, <1>4 DEF EmaOfLine
    <2>. QED BY <2>1, EmaIs
  <1>7. s <= n => e[s] = d[s]
    <2>. SUFFICES ASSUME s <= n PROVE e[s] = d[s]
      OBVIOUS
    <2>1. \A i \in lo..s : y[i] = x[i]
      BY <1>1, <1>2
    <2>2. OverBars(y, lo, s) = OverBars(x, lo, s)
      BY <2>1, OverBarsSame
    <2>. QED BY <1>1, <1>2, <1>5, <1>6, <2>2 DEF IsEma
  <1>8. ASSUME NEW i \in (s + 1)..n, e[i - 1] = d[i - 1] PROVE e[i] = d[i]
    <2>1. i \in (s + 1)..(n + 1) /\ y[i] = x[i]
      BY <1>1, <1>2
    <2>. QED BY <1>5, <1>6, <1>8, <2>1 DEF IsEma
  <1>9. \A i \in s..n : e[i] = d[i]
    <2>1. Follows(d, e, s, n)
      BY <1>1, <1>7, <1>8 DEF Follows
    <2>. QED BY <2>1, RecursionSame
  <1>. QED BY <1>1, <1>2, <1>3, <1>4, <1>5, <1>6, <1>9 DEF Extends, IsEma

\* What Wilder's mean of values from the second bar on is.
LEMMA WilderIs ==
    ASSUME NEW n \in Nat, NEW x, NEW p \in Nat \ {0}, NEW e, e = Wilder(x, p, n)
    PROVE  /\ DOMAIN e = (p + 1)..n
           /\ p + 1 <= n => e[p + 1] = OverBars(x, 2, p + 1) \div p
           /\ \A i \in (p + 2)..n : e[i] = (x[i] + (p - 1) * e[i - 1]) \div p
  <1>1. PICK s \in Nat : s = p + 1
    OBVIOUS
  <1>2. PICK base : base = OverBars(x, 2, s) \div p
    OBVIOUS
  <1>. DEFINE Steps(g) == g = [i \in (p + 1)..n |-> IF i = p + 1 THEN OverBars(x, 2, p + 1) \div p
                                                    ELSE (x[i] + (p - 1) * g[i - 1]) \div p]
  <1>3. e = CHOOSE g : Steps(g)
    BY DEF Wilder
  <1>4. \E g : Steps(g)
    <2>1. PICK g : Smoothed(g, x, p, p, s, n, base)
      BY SmoothedExists
    <2>2. Steps(g)
      BY <1>1, <1>2, <2>1 DEF Smoothed, Smooth
    <2>. QED BY <2>2
  <1>5. Steps(e)
    <2>. HIDE DEF Steps
    <2>. QED BY <1>3, <1>4
  <1>. QED BY <1>5

\* Wilder's means of what agrees agree.
LEMMA WilderSame ==
    ASSUME NEW n \in Nat, NEW x, NEW y, \A i \in 2..n : y[i] = x[i], NEW p \in Nat \ {0}
    PROVE  Extends(Wilder(x, p, n), Wilder(y, p, n + 1), p + 1, n)
  <1>1. PICK s \in Nat \ {0} : s = p + 1 /\ s >= 2
    OBVIOUS
  <1>2. PICK d : d = Wilder(x, p, n)
    OBVIOUS
  <1>3. PICK e : e = Wilder(y, p, n + 1)
    OBVIOUS
  <1>4. /\ DOMAIN d = s..n
        /\ s <= n => d[s] = OverBars(x, 2, s) \div p
        /\ \A i \in (s + 1)..n : d[i] = (x[i] + (p - 1) * d[i - 1]) \div p
    BY <1>1, <1>2, WilderIs
  <1>5. /\ DOMAIN e = s..(n + 1)
        /\ s <= n + 1 => e[s] = OverBars(y, 2, s) \div p
        /\ \A i \in (s + 1)..(n + 1) : e[i] = (y[i] + (p - 1) * e[i - 1]) \div p
    <2>1. n + 1 \in Nat
      OBVIOUS
    <2>. QED BY <1>1, <1>3, <2>1, WilderIs
  <1>6. s <= n => e[s] = d[s]
    <2>. SUFFICES ASSUME s <= n PROVE e[s] = d[s]
      OBVIOUS
    <2>1. \A i \in 2..s : y[i] = x[i]
      BY <1>1
    <2>2. OverBars(y, 2, s) = OverBars(x, 2, s)
      BY <2>1, OverBarsSame
    <2>. QED BY <1>1, <1>4, <1>5, <2>2
  <1>7. ASSUME NEW i \in (s + 1)..n, e[i - 1] = d[i - 1] PROVE e[i] = d[i]
    <2>1. i \in (s + 1)..(n + 1) /\ y[i] = x[i]
      BY <1>1
    <2>. QED BY <1>4, <1>5, <1>7, <2>1
  <1>8. \A i \in s..n : e[i] = d[i]
    <2>1. Follows(d, e, s, n)
      BY <1>1, <1>6, <1>7 DEF Follows
    <2>. QED BY <2>1, RecursionSame
  <1>. QED BY <1>1, <1>2, <1>3, <1>4, <1>5, <1>8 DEF Extends

\* A column of the bars.
LEMMA FieldsExtend ==
    ASSUME NEW b, NEW d, NEW n, Longer(b, d, n), NEW f
    PROVE  /\ Extends(Field(b, f), Field(d, f), 1, n)
           /\ Len(Field(b, f)) = n /\ Len(Field(d, f)) = n + 1
  <1>1. PICK x : x = Field(b, f)
    OBVIOUS
  <1>2. PICK y : y = Field(d, f)
    OBVIOUS
  <1>3. n \in Nat /\ x = [i \in 1..n |-> b[i][f]] /\ y = [i \in 1..(n + 1) |-> d[i][f]]
    BY <1>1, <1>2 DEF Longer, Field
  <1>4. \A i \in 1..n : y[i] = x[i]
    BY <1>3 DEF Longer
  <1>5. Len(x) = n /\ Len(y) = n + 1
    <2>1. n + 1 \in Nat
      BY <1>3
    <2>. QED BY <1>3, <2>1
  <1>6. Extends(x, y, 1, n)
    <2>1. DOMAIN x = 1..n /\ DOMAIN y = 1..(n + 1) /\ 1 \in Nat \ {0}
      BY <1>3
    <2>. QED BY <1>3, <1>4, <2>1 DEF Extends
  <1>. QED BY <1>1, <1>2, <1>5, <1>6

\* A level that never changes.
LEMMA ConstantsAgree ==
    ASSUME NEW b, NEW d, NEW n, Longer(b, d, n), NEW t
    PROVE  Agree(Constant(b, t), Constant(d, t), n)
  <1>1. 1..n = (1..(n + 1)) \cap (1..n)
    BY DEF Longer
  <1>. QED BY <1>1 DEF Longer, Constant, Agree

\* Closes and one more.
Closing(c, e, n) == Extends(c, e, 1, n) /\ Len(c) = n /\ Len(e) = n + 1

\* Relative strength.
LEMMA RsiAgrees ==
    ASSUME NEW c, NEW e, NEW n, Closing(c, e, n), NEW p \in Nat \ {0}
    PROVE  Agree(Rsi(c, p), Rsi(e, p), n)
  <1>1. /\ n \in Nat /\ Len(c) = n /\ Len(e) = n + 1 /\ \A i \in 1..n : e[i] = c[i]
    BY DEF Closing, Extends
  <1>2. PICK m : m = Moves(c)
    OBVIOUS
  <1>3. PICK w : w = Moves(e)
    OBVIOUS
  <1>4. /\ DOMAIN m = 2..n /\ DOMAIN w = 2..(n + 1)
        /\ \A i \in 2..n : w[i] = m[i]
    <2>1. m = [i \in 2..n |-> c[i] - c[i - 1]] /\ w = [i \in 2..(n + 1) |-> e[i] - e[i - 1]]
      BY <1>1, <1>2, <1>3 DEF Moves
    <2>2. ASSUME NEW i \in 2..n PROVE w[i] = m[i]
      <3>1. i \in 1..n /\ i - 1 \in 1..n /\ i \in 2..(n + 1)
        BY <1>1
      <3>. QED BY <1>1, <2>1, <3>1
    <2>. QED BY <2>1, <2>2
  <1>5. PICK rise : rise = [i \in DOMAIN m |-> IF m[i] > 0 THEN 100 * m[i] ELSE 0]
    OBVIOUS
  <1>6. PICK rise2 : rise2 = [i \in DOMAIN w |-> IF w[i] > 0 THEN 100 * w[i] ELSE 0]
    OBVIOUS
  <1>7. PICK fall : fall = [i \in DOMAIN m |-> IF m[i] < 0 THEN -(100 * m[i]) ELSE 0]
    OBVIOUS
  <1>8. PICK fall2 : fall2 = [i \in DOMAIN w |-> IF w[i] < 0 THEN -(100 * w[i]) ELSE 0]
    OBVIOUS
  <1>9. (\A i \in 2..n : rise2[i] = rise[i]) /\ (\A i \in 2..n : fall2[i] = fall[i])
    <2>1. \A i \in 2..n : i \in 2..(n + 1)
      BY <1>1
    <2>. QED BY <1>4, <1>5, <1>6, <1>7, <1>8, <2>1
  <1>10. PICK u, u2, v, v2 : /\ u = Wilder(rise, p, n) /\ u2 = Wilder(rise2, p, n + 1)
                             /\ v = Wilder(fall, p, n) /\ v2 = Wilder(fall2, p, n + 1)
    OBVIOUS
  <1>11. Extends(u, u2, p + 1, n) /\ Extends(v, v2, p + 1, n)
    BY <1>1, <1>9, <1>10, WilderSame
  <1>12. /\ Rsi(c, p) = [i \in DOMAIN u |-> IF v[i] = 0 THEN 100 ELSE (100 * u[i]) \div (u[i] + v[i])]
         /\ Rsi(e, p) = [i \in DOMAIN u2 |-> IF v2[i] = 0 THEN 100 ELSE (100 * u2[i]) \div (u2[i] + v2[i])]
    BY <1>1, <1>2, <1>3, <1>5, <1>6, <1>7, <1>8, <1>10 DEF Rsi
  <1>13. Extends(Rsi(c, p), Rsi(e, p), p + 1, n)
    <2>1. \A i \in (p + 1)..n : i \in (p + 1)..(n + 1)
      BY <1>1
    <2>. QED BY <1>11, <1>12, <2>1 DEF Extends
  <1>. QED BY <1>13, ExtendsAgree

\* The difference of two means.
LEMMA MacdExtends ==
    ASSUME NEW c, NEW e, NEW n, Closing(c, e, n)
    PROVE  \E lo : Extends(Macd(c), Macd(e), lo, n)
  <1>1. n \in Nat /\ Extends(c, e, 1, n)
    BY DEF Closing, Extends
  <1>2. PICK f \in Nat \ {0}, s \in Nat \ {0} : f = MacdFast /\ s = MacdSlow
    BY PeriodsAssumption
  <1>3. PICK u, u2, v, v2 : /\ u = Ema(c, f) /\ u2 = Ema(e, f) /\ v = Ema(c, s) /\ v2 = Ema(e, s)
    OBVIOUS
  <1>4. Extends(u, u2, f, n) /\ Extends(v, v2, s, n)
    <2>1. Extends(u, u2, 1 + f - 1, n) /\ Extends(v, v2, 1 + s - 1, n)
      BY <1>1, <1>3, EmaSame
    <2>2. 1 + f - 1 = f /\ 1 + s - 1 = s
      OBVIOUS
    <2>. QED BY <2>1, <2>2
  <1>5. PICK lo \in Nat \ {0} : lo = IF f >= s THEN f ELSE s
    OBVIOUS
  <1>6. /\ Both(u, v) = lo..n /\ Both(u2, v2) = lo..(n + 1)
    BY <1>1, <1>4, <1>5 DEF Both, Extends
  <1>7. /\ Macd(c) = [i \in lo..n |-> u[i] - v[i]]
        /\ Macd(e) = [i \in lo..(n + 1) |-> u2[i] - v2[i]]
    BY <1>2, <1>3, <1>6 DEF Macd
  <1>8. ASSUME NEW i \in lo..n PROVE u2[i] = u[i] /\ v2[i] = v[i] /\ i \in lo..(n + 1)
    BY <1>1, <1>4, <1>5 DEF Extends
  <1>. QED BY <1>1, <1>7, <1>8 DEF Extends

\* Its own mean.
LEMMA MacdSignalAgrees ==
    ASSUME NEW c, NEW e, NEW n, Closing(c, e, n)
    PROVE  Agree(Macd(c), Macd(e), n) /\ Agree(MacdSignal(c), MacdSignal(e), n)
  <1>1. PICK p \in Nat \ {0} : p = MacdSmooth
    BY PeriodsAssumption
  <1>2. PICK lo : Extends(Macd(c), Macd(e), lo, n)
    BY MacdExtends
  <1>3. PICK x, y : x = Macd(c) /\ y = Macd(e)
    OBVIOUS
  <1>4. Extends(x, y, lo, n)
    BY <1>2, <1>3
  <1>5. PICK t : t = lo + p - 1
    OBVIOUS
  <1>6. Extends(Ema(x, p), Ema(y, p), t, n)
    BY <1>4, <1>5, EmaSame
  <1>7. ASSUME NEW z, NEW m \in Nat, DOMAIN z = lo..m, NEW r, r = Ema(z, p),
               NEW q, q = IF z = Undefined THEN Undefined ELSE r, DOMAIN r = t..m
        PROVE  DOMAIN q = t..m /\ \A i \in t..m : q[i] = r[i]
    <2>1. lo \in Nat \ {0}
      BY <1>4 DEF Extends
    <2>2. CASE z = Undefined
      <3>1. DOMAIN z = {} /\ DOMAIN q = {}
        BY <1>7, <2>2 DEF Undefined
      <3>2. ~(lo <= m)
        BY <1>7, <2>1, <3>1
      <3>3. t..m = {}
        BY <1>5, <2>1, <3>2
      <3>. QED BY <3>1, <3>3
    <2>3. CASE z # Undefined
      BY <1>7, <2>3
    <2>. QED BY <2>2, <2>3
  <1>8. PICK q, h : q = MacdSignal(c) /\ h = MacdSignal(e)
    OBVIOUS
  <1>9. /\ n \in Nat /\ n + 1 \in Nat /\ DOMAIN x = lo..n /\ DOMAIN y = lo..(n + 1)
        /\ DOMAIN Ema(x, p) = t..n /\ DOMAIN Ema(y, p) = t..(n + 1) /\ t \in Nat \ {0}
    BY <1>4, <1>6 DEF Extends
  <1>10. DOMAIN q = t..n /\ \A i \in t..n : q[i] = Ema(x, p)[i]
    <2>1. q = IF x = Undefined THEN Undefined ELSE Ema(x, p)
      BY <1>1, <1>3, <1>8 DEF MacdSignal
    <2>. QED BY <1>7, <1>9, <2>1
  <1>11. DOMAIN h = t..(n + 1) /\ \A i \in t..(n + 1) : h[i] = Ema(y, p)[i]
    <2>1. h = IF y = Undefined THEN Undefined ELSE Ema(y, p)
      BY <1>1, <1>3, <1>8 DEF MacdSignal
    <2>. QED BY <1>7, <1>9, <2>1
  <1>12. Extends(q, h, t, n)
    <2>1. \A i \in t..n : i \in t..(n + 1)
      BY <1>9
    <2>. QED BY <1>6, <1>9, <1>10, <1>11, <2>1 DEF Extends
  <1>. QED BY <1>3, <1>4, <1>8, <1>12, ExtendsAgree

\* The trailing mean.
LEMMA MiddleExtends ==
    ASSUME NEW c, NEW e, NEW n, Closing(c, e, n)
    PROVE  Extends(Middle(c), Middle(e), Window, n)
  <1>1. /\ n \in Nat /\ Len(c) = n /\ Len(e) = n + 1 /\ \A i \in 1..n : e[i] = c[i]
    BY DEF Closing, Extends
  <1>2. Window \in Nat \ {0}
    BY PeriodsAssumption
  <1>3. PICK m, m2 : m = Middle(c) /\ m2 = Middle(e)
    OBVIOUS
  <1>4. /\ m = [i \in Window..n |-> OverBars(c, i - Window + 1, i) \div Window]
        /\ m2 = [i \in Window..(n + 1) |-> OverBars(e, i - Window + 1, i) \div Window]
    BY <1>1, <1>3 DEF Middle
  <1>5. ASSUME NEW i \in Window..n PROVE m2[i] = m[i]
    <2>1. \A j \in (i - Window + 1)..i : e[j] = c[j]
      BY <1>1, <1>2
    <2>2. OverBars(e, i - Window + 1, i) = OverBars(c, i - Window + 1, i)
      BY <2>1, OverBarsSame
    <2>3. i \in Window..(n + 1)
      BY <1>1, <1>2
    <2>. QED BY <1>4, <2>2, <2>3
  <1>. QED BY <1>1, <1>2, <1>3, <1>4, <1>5 DEF Extends

Root(v) == CHOOSE r \in 0..v : r * r <= v /\ (r + 1) * (r + 1) > v
Squares(c, m, lo, hi) == [j \in lo..hi |-> (c[j] - m) * (c[j] - m)]

\* What the deviation at a bar is.
LEMMA DeviationIs ==
    ASSUME NEW c
    PROVE  Deviation(c) = [i \in Window..Len(c) |->
               Root(OverBars(Squares(c, Middle(c)[i], i - Window + 1, i), i - Window + 1, i)
                        \div Window)]
  BY DEF Deviation, Root, Squares

\* The trailing deviation.
LEMMA DeviationExtends ==
    ASSUME NEW c, NEW e, NEW n, Closing(c, e, n)
    PROVE  Extends(Deviation(c), Deviation(e), Window, n)
  <1>1. /\ n \in Nat /\ Len(c) = n /\ Len(e) = n + 1 /\ \A i \in 1..n : e[i] = c[i]
    BY DEF Closing, Extends
  <1>2. Window \in Nat \ {0}
    BY PeriodsAssumption
  <1>3. PICK s, s2 : s = Deviation(c) /\ s2 = Deviation(e)
    OBVIOUS
  <1>4. PICK m, m2 : m = Middle(c) /\ m2 = Middle(e)
    OBVIOUS
  <1>5. \A i \in Window..n : m2[i] = m[i]
    BY <1>4, MiddleExtends DEF Extends
  <1>6. /\ s = [i \in Window..n |->
                  Root(OverBars(Squares(c, m[i], i - Window + 1, i), i - Window + 1, i) \div Window)]
        /\ s2 = [i \in Window..(n + 1) |->
                  Root(OverBars(Squares(e, m2[i], i - Window + 1, i), i - Window + 1, i) \div Window)]
    BY <1>1, <1>3, <1>4, DeviationIs
  <1>7. ASSUME NEW i \in Window..n PROVE s2[i] = s[i]
    <2>1. \A j \in (i - Window + 1)..i : e[j] = c[j]
      BY <1>1, <1>2
    <2>2. Squares(e, m2[i], i - Window + 1, i) = Squares(c, m[i], i - Window + 1, i)
      BY <1>5, <2>1 DEF Squares
    <2>3. i \in Window..(n + 1)
      BY <1>1, <1>2
    <2>. QED BY <1>6, <2>2, <2>3
  <1>8. DOMAIN s = Window..n /\ DOMAIN s2 = Window..(n + 1)
    BY <1>6
  <1>. QED BY <1>1, <1>2, <1>3, <1>7, <1>8 DEF Extends

\* Both agree.
LEMMA BandsAgree ==
    ASSUME NEW c, NEW e, NEW n, Closing(c, e, n)
    PROVE  Agree(Middle(c), Middle(e), n) /\ Agree(Deviation(c), Deviation(e), n)
  BY MiddleExtends, DeviationExtends, ExtendsAgree

\* A band around a centre.
LEMMA BandedAgrees ==
    ASSUME NEW x, NEW y, NEW v, NEW w, NEW n, Agree(x, y, n), Agree(v, w, n), NEW k
    PROVE  Agree(Banded(x, v, k), Banded(y, w, k), n)
  BY DEF Agree, Banded, Both

\* The distance from the centre.
LEMMA ZScoreAgrees ==
    ASSUME NEW c, NEW e, NEW n, Closing(c, e, n)
    PROVE  Agree(ZScore(c), ZScore(e), n)
  <1>1. PICK m, m2, s, s2 : m = Middle(c) /\ m2 = Middle(e) /\ s = Deviation(c) /\ s2 = Deviation(e)
    OBVIOUS
  <1>2. /\ Extends(m, m2, Window, n) /\ Agree(s, s2, n)
        /\ DOMAIN s = Window..n
    BY <1>1, MiddleExtends, DeviationExtends, BandsAgree DEF Extends
  <1>3. PICK z, z2 : z = ZScore(c) /\ z2 = ZScore(e)
    OBVIOUS
  <1>4. /\ z = [i \in {j \in DOMAIN s : s[j] > 0} |-> (c[i] - m[i]) \div s[i]]
        /\ z2 = [i \in {j \in DOMAIN s2 : s2[j] > 0} |-> (e[i] - m2[i]) \div s2[i]]
    BY <1>1, <1>3 DEF ZScore
  <1>5. \A i \in DOMAIN s : e[i] = c[i] /\ m2[i] = m[i] /\ s2[i] = s[i] /\ i \in 1..n /\ i \in DOMAIN s2
    <2>1. Window \in Nat \ {0} /\ \A i \in Window..n : i \in 1..n
      BY PeriodsAssumption DEF Closing, Extends
    <2>. QED BY <1>2, <2>1 DEF Closing, Extends, Agree
  <1>6. DOMAIN z = {j \in DOMAIN s : s[j] > 0} /\ DOMAIN z2 = {j \in DOMAIN s2 : s2[j] > 0}
    BY <1>4
  <1>7. DOMAIN z2 \subseteq 1..(n + 1) /\ DOMAIN z = DOMAIN z2 \cap (1..n)
    BY <1>2, <1>5, <1>6 DEF Agree
  <1>8. \A i \in DOMAIN z : z2[i] = z[i]
    BY <1>4, <1>5, <1>6, <1>7
  <1>. QED BY <1>3, <1>7, <1>8 DEF Agree

-----------------------------------------------------------------------------
\* The bars of a day up to a bar are the same.
LEMMA DayToBarSame ==
    ASSUME NEW b, NEW d, NEW n, Longer(b, d, n), NEW i \in 1..n
    PROVE  /\ DayToBar(d, i) = DayToBar(b, i)
           /\ \A j \in DayToBar(b, i) : j \in 1..n /\ d[j] = b[j]
  <1>1. n \in Nat /\ \A j \in 1..i : j \in 1..n
    BY DEF Longer
  <1>. QED BY <1>1 DEF Longer, DayToBar

\* The mean price of the day by volume.
LEMMA VwapAgrees ==
    ASSUME NEW b, NEW d, NEW n, Longer(b, d, n)
    PROVE  Agree(Vwap(b), Vwap(d), n)
  <1>1. PICK v, v2 : v = Vwap(b) /\ v2 = Vwap(d)
    OBVIOUS
  <1>. DEFINE Sold(x, js) == SumFunction([j \in js |-> x[j].vol])
              Paid(x, js) == SumFunction([j \in js |->
                                 ((x[j].high + x[j].low + x[j].close) \div 3) * x[j].vol])
              At(x, i, js) == IF Sold(x, js) = 0 THEN x[i].close ELSE Paid(x, js) \div Sold(x, js)
  <1>2. /\ v = [i \in 1..n |-> At(b, i, DayToBar(b, i))]
        /\ v2 = [i \in 1..(n + 1) |-> At(d, i, DayToBar(d, i))]
    BY <1>1 DEF Longer, Vwap
  <1>3. ASSUME NEW i \in 1..n PROVE At(d, i, DayToBar(d, i)) = At(b, i, DayToBar(b, i))
    <2>1. PICK js : js = DayToBar(b, i)
      OBVIOUS
    <2>2. DayToBar(d, i) = js /\ d[i] = b[i] /\ \A j \in js : d[j] = b[j]
      <3>1. d[i] = b[i]
        BY DEF Longer
      <3>. QED BY <2>1, <3>1, DayToBarSame
    <2>3. [j \in js |-> d[j].vol] = [j \in js |-> b[j].vol]
      BY <2>2
    <2>4. [j \in js |-> ((d[j].high + d[j].low + d[j].close) \div 3) * d[j].vol]
          = [j \in js |-> ((b[j].high + b[j].low + b[j].close) \div 3) * b[j].vol]
      BY <2>2
    <2>5. Sold(d, js) = Sold(b, js) /\ Paid(d, js) = Paid(b, js)
      BY <2>3, <2>4
    <2>. HIDE DEF Sold, Paid
    <2>6. At(d, i, js) = At(b, i, js)
      BY <2>2, <2>5
    <2>. HIDE DEF At
    <2>. QED BY <2>1, <2>2, <2>6
  <1>. HIDE DEF At
  <1>4. /\ \A i \in 1..n : i \in 1..(n + 1)
        /\ 1..n = (1..(n + 1)) \cap (1..n)
    BY DEF Longer
  <1>. QED BY <1>1, <1>2, <1>3, <1>4 DEF Agree

\* The channel of the bars before.
LEMMA ChannelAgrees ==
    ASSUME NEW b, NEW d, NEW n, Longer(b, d, n)
    PROVE  Agree(DonchianUp(b), DonchianUp(d), n) /\ Agree(DonchianLow(b), DonchianLow(d), n)
  <1>1. PICK w \in Nat \ {0} : w = Window + 1
    BY PeriodsAssumption
  <1>2. PICK u, u2, v, v2 : /\ u = DonchianUp(b) /\ u2 = DonchianUp(d)
                            /\ v = DonchianLow(b) /\ v2 = DonchianLow(d)
    OBVIOUS
  <1>3. /\ u = [i \in w..n |-> Max({b[j].high : j \in Before(i)})]
        /\ u2 = [i \in w..(n + 1) |-> Max({d[j].high : j \in Before(i)})]
        /\ v = [i \in w..n |-> Min({b[j].low : j \in Before(i)})]
        /\ v2 = [i \in w..(n + 1) |-> Min({d[j].low : j \in Before(i)})]
    BY <1>1, <1>2 DEF Longer, DonchianUp, DonchianLow
  <1>4. ASSUME NEW i \in w..n PROVE u2[i] = u[i] /\ v2[i] = v[i]
    <2>1. n \in Nat /\ \A j \in 1..n : d[j] = b[j]
      BY DEF Longer
    <2>2. \A j \in Before(i) : j \in 1..n
      BY <1>1, <2>1, PeriodsAssumption DEF Before
    <2>3. {d[j].high : j \in Before(i)} = {b[j].high : j \in Before(i)}
      BY <2>1, <2>2
    <2>4. {d[j].low : j \in Before(i)} = {b[j].low : j \in Before(i)}
      BY <2>1, <2>2
    <2>5. i \in w..(n + 1)
      BY <1>1, <2>1
    <2>. QED BY <1>3, <2>3, <2>4, <2>5
  <1>5. n \in Nat /\ Extends(u, u2, w, n) /\ Extends(v, v2, w, n)
    BY <1>1, <1>3, <1>4 DEF Longer, Extends
  <1>. QED BY <1>2, <1>5, ExtendsAgree

\* The volume against the mean of the bars before.
LEMMA RvolAgrees ==
    ASSUME NEW b, NEW d, NEW n, Longer(b, d, n)
    PROVE  Agree(Rvol(b), Rvol(d), n)
  <1>1. PICK w \in Nat \ {0} : w = Window + 1
    BY PeriodsAssumption
  <1>2. n \in Nat /\ \A j \in 1..n : d[j] = b[j]
    BY DEF Longer
  <1>3. PICK r, r2 : r = Rvol(b) /\ r2 = Rvol(d)
    OBVIOUS
  <1>. DEFINE Mean(x, i) == OverBars(Field(x, "vol"), i - Window, i - 1)
  <1>4. ASSUME NEW i \in w..n PROVE Mean(d, i) = Mean(b, i) /\ d[i] = b[i] /\ i \in w..(n + 1) /\ i \in 1..n
    <2>1. i \in 1..n /\ i \in w..(n + 1)
      BY <1>1, <1>2
    <2>2. \A j \in (i - Window)..(i - 1) : j \in 1..n
      BY <1>1, <1>2, PeriodsAssumption
    <2>3. \A j \in 1..n : Field(d, "vol")[j] = Field(b, "vol")[j]
      BY FieldsExtend DEF Extends
    <2>. QED BY <1>2, <2>1, <2>2, <2>3, OverBarsSame
  <1>5. /\ r = [i \in {j \in w..n : Mean(b, j) > 0} |-> (100 * Window * b[i].vol) \div Mean(b, i)]
        /\ r2 = [i \in {j \in w..(n + 1) : Mean(d, j) > 0} |-> (100 * Window * d[i].vol) \div Mean(d, i)]
    BY <1>1, <1>3 DEF Longer, Rvol
  <1>. HIDE DEF Mean
  <1>6. \A i \in w..(n + 1) : i \in 1..(n + 1) /\ (i \in 1..n => i \in w..n)
    BY <1>1, <1>2
  <1>7. DOMAIN r2 \subseteq 1..(n + 1) /\ DOMAIN r = DOMAIN r2 \cap (1..n)
    BY <1>4, <1>5, <1>6
  <1>8. \A i \in DOMAIN r : r2[i] = r[i]
    BY <1>4, <1>5, <1>7
  <1>. QED BY <1>3, <1>7, <1>8 DEF Agree

\* The first and the last of some bars are among them.
LEMMA EndsAmong ==
    ASSUME NEW n \in Nat, NEW S, S \subseteq 1..n, S # {}
    PROVE  Min(S) \in S /\ Max(S) \in S
  <1>1. \E m \in S : \A x \in S : m >= x
    <2>1. 1 \in Int /\ n \in Int
      OBVIOUS
    <2>. QED BY <2>1, Facts!GreatestInt
  <1>2. Max(S) \in S
    BY <1>1 DEF Max
  <1>3. Min(S) \in S
    <2>1. S \subseteq Int /\ 1 \in Int /\ \A x \in S : 1 <= x
      OBVIOUS
    <2>2. Facts!Min(S) \in S
      BY <2>1, Facts!MinIs
    <2>. QED BY <2>2 DEF Min, Facts!Min
  <1>. QED BY <1>2, <1>3

\* The day before a bar's is the same: the bar appended is of no earlier day than any.
LEMMA PriorDaySame ==
    ASSUME NEW b, NEW d, NEW n, Longer(b, d, n), NEW i \in 1..n
    PROVE  /\ PriorDay(d, i) = PriorDay(b, i)
           /\ \A j \in PriorDay(b, i) : j \in 1..n /\ d[j] = b[j]
  <1>1. /\ n \in Nat /\ \A j \in 1..n : d[j] = b[j] /\ j \in 1..(n + 1)
        /\ \A j \in 1..(n + 1) : j \in 1..n \/ j = n + 1
        /\ n + 1 \in 1..(n + 1)
    BY DEF Longer
  <1>2. PICK e, e2 : /\ e = {j \in 1..n : b[j].day < b[i].day}
                     /\ e2 = {j \in 1..(n + 1) : d[j].day < d[i].day}
    OBVIOUS
  <1>3. e2 = e
    <2>1. ~(d[n + 1].day < d[i].day)
      BY <1>1 DEF Longer
    <2>. QED BY <1>1, <1>2, <2>1
  <1>4. /\ PriorDay(b, i) = {j \in e : \A k \in e : b[k].day <= b[j].day}
        /\ PriorDay(d, i) = {j \in e2 : \A k \in e2 : d[k].day <= d[j].day}
    BY <1>2 DEF Longer, PriorDay
  <1>5. \A j \in e : j \in 1..n /\ d[j] = b[j]
    BY <1>1, <1>2
  <1>. QED BY <1>3, <1>4, <1>5

\* Its levels.
LEMMA LevelsAgree ==
    ASSUME NEW b, NEW d, NEW n, Longer(b, d, n)
    PROVE  /\ Agree(PriorHigh(b), PriorHigh(d), n)
           /\ Agree(PriorLow(b), PriorLow(d), n)
           /\ Agree(PriorClose(b), PriorClose(d), n)
  <1>1. /\ n \in Nat /\ DOMAIN b = 1..n /\ DOMAIN d = 1..(n + 1)
        /\ \A j \in 1..n : j \in 1..(n + 1)
    BY DEF Longer
  <1>2. PICK l, l2 : l = Later(b) /\ l2 = Later(d)
    OBVIOUS
  <1>3. \A i \in 1..n : i \in l2 <=> i \in l
    BY <1>1, <1>2, PriorDaySame DEF Later
  <1>4. l \subseteq 1..n /\ l2 \subseteq 1..(n + 1)
    BY <1>1, <1>2 DEF Later
  <1>5. l = l2 \cap (1..n)
    BY <1>3, <1>4
  <1>6. ASSUME NEW i \in l, NEW js, js = PriorDay(b, i)
        PROVE  /\ PriorDay(d, i) = js
               /\ {d[j].high : j \in js} = {b[j].high : j \in js}
               /\ {d[j].low : j \in js} = {b[j].low : j \in js}
               /\ d[Max(js)].close = b[Max(js)].close
    <2>1. i \in 1..n
      BY <1>4
    <2>2. PriorDay(d, i) = js /\ \A j \in js : j \in 1..n /\ d[j] = b[j]
      BY <1>6, <2>1, PriorDaySame
    <2>3. Max(js) \in js
      <3>1. js # {}
        BY <1>2, <1>6 DEF Later
      <3>2. n \in Nat /\ js \subseteq 1..n
        BY <1>1, <2>2
      <3>. QED BY <3>1, <3>2, EndsAmong
    <2>. QED BY <2>2, <2>3
  <1>7. PICK u, u2, v, v2, w, w2 : /\ u = PriorHigh(b) /\ u2 = PriorHigh(d) /\ v = PriorLow(b)
                                   /\ v2 = PriorLow(d) /\ w = PriorClose(b) /\ w2 = PriorClose(d)
    OBVIOUS
  <1>8. /\ u = [i \in l |-> Max({b[j].high : j \in PriorDay(b, i)})]
        /\ u2 = [i \in l2 |-> Max({d[j].high : j \in PriorDay(d, i)})]
        /\ v = [i \in l |-> Min({b[j].low : j \in PriorDay(b, i)})]
        /\ v2 = [i \in l2 |-> Min({d[j].low : j \in PriorDay(d, i)})]
        /\ w = [i \in l |-> b[Max(PriorDay(b, i))].close]
        /\ w2 = [i \in l2 |-> d[Max(PriorDay(d, i))].close]
    BY <1>2, <1>7 DEF PriorHigh, PriorLow, PriorClose
  <1>9. ASSUME NEW i \in l PROVE u2[i] = u[i] /\ v2[i] = v[i] /\ w2[i] = w[i]
    <2>1. PICK js : js = PriorDay(b, i)
      OBVIOUS
    <2>2. i \in l2
      BY <1>5
    <2>3. u2[i] = Max({d[j].high : j \in js}) /\ v2[i] = Min({d[j].low : j \in js})
          /\ w2[i] = d[Max(js)].close
      BY <1>6, <1>8, <2>1, <2>2
    <2>4. u[i] = Max({b[j].high : j \in js}) /\ v[i] = Min({b[j].low : j \in js})
          /\ w[i] = b[Max(js)].close
      BY <1>8, <2>1
    <2>. QED BY <1>6, <2>1, <2>3, <2>4
  <1>10. /\ DOMAIN u = l /\ DOMAIN v = l /\ DOMAIN w = l
         /\ DOMAIN u2 = l2 /\ DOMAIN v2 = l2 /\ DOMAIN w2 = l2
    BY <1>8
  <1>. QED BY <1>4, <1>5, <1>7, <1>9, <1>10 DEF Agree

\* The pivot of the day before, and the gap from its close.
LEMMA PivotAndGapAgree ==
    ASSUME NEW b, NEW d, NEW n, Longer(b, d, n)
    PROVE  Agree(Pivot(b), Pivot(d), n) /\ Agree(Gap(b), Gap(d), n)
  <1>1. PICK l, l2 : l = Later(b) /\ l2 = Later(d)
    OBVIOUS
  <1>2. PICK u, u2, v, v2, w, w2 : /\ u = PriorHigh(b) /\ u2 = PriorHigh(d) /\ v = PriorLow(b)
                                   /\ v2 = PriorLow(d) /\ w = PriorClose(b) /\ w2 = PriorClose(d)
    OBVIOUS
  <1>3. Agree(u, u2, n) /\ Agree(v, v2, n) /\ Agree(w, w2, n)
    BY <1>2, LevelsAgree
  <1>4. DOMAIN u = l /\ DOMAIN u2 = l2
    BY <1>1, <1>2 DEF PriorHigh
  <1>5. l2 \subseteq 1..(n + 1) /\ l = l2 \cap (1..n)
    BY <1>3, <1>4 DEF Agree
  <1>6. \A i \in l : u2[i] = u[i] /\ v2[i] = v[i] /\ w2[i] = w[i]
    <2>1. DOMAIN v = l /\ DOMAIN w = l
      BY <1>1, <1>2 DEF PriorLow, PriorClose
    <2>. QED BY <1>3, <1>4, <2>1 DEF Agree
  <1>7. Agree(Pivot(b), Pivot(d), n)
    <2>1. PICK p, p2 : p = Pivot(b) /\ p2 = Pivot(d)
      OBVIOUS
    <2>2. /\ p = [i \in l |-> (u[i] + v[i] + w[i]) \div 3]
          /\ p2 = [i \in l2 |-> (u2[i] + v2[i] + w2[i]) \div 3]
      BY <1>1, <1>2, <2>1 DEF Pivot
    <2>. QED BY <1>5, <1>6, <2>1, <2>2 DEF Agree
  <1>8. Agree(Gap(b), Gap(d), n)
    <2>1. PICK p, p2 : p = Gap(b) /\ p2 = Gap(d)
      OBVIOUS
    <2>2. /\ p = [i \in l |-> ((b[Min(DayToBar(b, i))].open - w[i]) * 10000) \div w[i]]
          /\ p2 = [i \in l2 |-> ((d[Min(DayToBar(d, i))].open - w2[i]) * 10000) \div w2[i]]
      BY <1>1, <1>2, <2>1 DEF Gap
    <2>3. ASSUME NEW i \in l
          PROVE  d[Min(DayToBar(d, i))].open = b[Min(DayToBar(b, i))].open
      <3>1. i \in 1..n /\ n \in Nat
        BY <1>5 DEF Longer
      <3>2. PICK js : js = DayToBar(b, i)
        OBVIOUS
      <3>3. DayToBar(d, i) = js /\ \A j \in js : j \in 1..n /\ d[j] = b[j]
        BY <3>1, <3>2, DayToBarSame
      <3>4. Min(js) \in js
        <4>1. js # {}
          BY <3>1, <3>2 DEF DayToBar
        <4>2. js \subseteq 1..n
          BY <3>3
        <4>. QED BY <3>1, <4>1, <4>2, EndsAmong
      <3>. QED BY <3>2, <3>3, <3>4
    <2>4. \A i \in l : p2[i] = p[i]
      BY <1>5, <1>6, <2>2, <2>3
    <2>5. DOMAIN p = l /\ DOMAIN p2 = l2
      BY <2>2
    <2>. QED BY <1>5, <2>1, <2>4, <2>5 DEF Agree
  <1>. QED BY <1>7, <1>8

\* The opening range.
LEMMA OpeningAgrees ==
    ASSUME NEW b, NEW d, NEW n, Longer(b, d, n)
    PROVE  Agree(OpeningHigh(b), OpeningHigh(d), n) /\ Agree(OpeningLow(b), OpeningLow(d), n)
  <1>1. /\ n \in Nat /\ DOMAIN b = 1..n /\ DOMAIN d = 1..(n + 1)
        /\ \A j \in 1..n : j \in 1..(n + 1) /\ d[j] = b[j]
    BY DEF Longer
  <1>2. PICK l, l2 : l = AfterOpening(b) /\ l2 = AfterOpening(d)
    OBVIOUS
  <1>3. l2 \subseteq 1..(n + 1) /\ l = l2 \cap (1..n)
    BY <1>1, <1>2, DayToBarSame DEF AfterOpening
  <1>4. ASSUME NEW i \in 1..n
        PROVE  Opening(d, i) = Opening(b, i) /\ \A j \in Opening(b, i) : d[j] = b[j]
    BY DayToBarSame DEF Opening
  <1>5. PICK u, u2, v, v2 : /\ u = OpeningHigh(b) /\ u2 = OpeningHigh(d)
                            /\ v = OpeningLow(b) /\ v2 = OpeningLow(d)
    OBVIOUS
  <1>6. /\ u = [i \in l |-> Max({b[j].high : j \in Opening(b, i)})]
        /\ u2 = [i \in l2 |-> Max({d[j].high : j \in Opening(d, i)})]
        /\ v = [i \in l |-> Min({b[j].low : j \in Opening(b, i)})]
        /\ v2 = [i \in l2 |-> Min({d[j].low : j \in Opening(d, i)})]
    BY <1>2, <1>5 DEF OpeningHigh, OpeningLow
  <1>7. ASSUME NEW i \in l PROVE u2[i] = u[i] /\ v2[i] = v[i]
    <2>1. PICK js : js = Opening(b, i)
      OBVIOUS
    <2>2. i \in l2 /\ Opening(d, i) = js /\ \A j \in js : d[j] = b[j]
      BY <1>3, <1>4, <2>1
    <2>3. /\ {d[j].high : j \in js} = {b[j].high : j \in js}
          /\ {d[j].low : j \in js} = {b[j].low : j \in js}
      BY <2>2
    <2>4. u2[i] = Max({d[j].high : j \in js}) /\ v2[i] = Min({d[j].low : j \in js})
      BY <1>6, <2>2
    <2>5. u[i] = Max({b[j].high : j \in js}) /\ v[i] = Min({b[j].low : j \in js})
      BY <1>6, <2>1
    <2>. QED BY <2>3, <2>4, <2>5
  <1>8. DOMAIN u = l /\ DOMAIN v = l /\ DOMAIN u2 = l2 /\ DOMAIN v2 = l2
    BY <1>6
  <1>. QED BY <1>3, <1>5, <1>7, <1>8 DEF Agree

\* The mean range.
LEMMA AtrExtends ==
    ASSUME NEW b, NEW d, NEW n, Longer(b, d, n), NEW p \in Nat \ {0}
    PROVE  Extends(Atr(b, p), Atr(d, p), p + 1, n)
  <1>1. n \in Nat /\ Len(b) = n /\ Len(d) = n + 1 /\ \A j \in 1..n : d[j] = b[j]
    BY DEF Longer
  <1>2. PICK x, y : x = TrueRange(b) /\ y = TrueRange(d)
    OBVIOUS
  <1>. DEFINE Range3(z, i) == Max({z[i].high - z[i].low, AbsOf(z[i].high - z[i - 1].close),
                                   AbsOf(z[i].low - z[i - 1].close)})
  <1>3. /\ x = [i \in 2..n |-> Range3(b, i)]
        /\ y = [i \in 2..(n + 1) |-> Range3(d, i)]
    BY <1>1, <1>2 DEF TrueRange
  <1>4. ASSUME NEW i \in 2..n PROVE y[i] = x[i]
    <2>1. i \in 1..n /\ i - 1 \in 1..n /\ i \in 2..(n + 1)
      BY <1>1
    <2>2. d[i] = b[i] /\ d[i - 1] = b[i - 1]
      BY <1>1, <2>1
    <2>3. Range3(d, i) = Range3(b, i)
      BY <2>2
    <2>. HIDE DEF Range3
    <2>. QED BY <1>3, <2>1, <2>3
  <1>5. Atr(b, p) = Wilder(x, p, n) /\ Atr(d, p) = Wilder(y, p, n + 1)
    BY <1>1, <1>2 DEF Atr
  <1>. QED BY <1>1, <1>4, <1>5, WilderSame

UpperBand(b, atr, i) == (b[i].high + b[i].low) \div 2 + TrendMult * atr[i]
LowerBand(b, atr, i) == (b[i].high + b[i].low) \div 2 - TrendMult * atr[i]
TurnFirst(b, atr, i) == [up |-> UpperBand(b, atr, i), lo |-> LowerBand(b, atr, i), dir |-> 1]
TurnNext(b, atr, i, p) ==
    LET up == IF UpperBand(b, atr, i) < p.up \/ b[i - 1].close > p.up THEN UpperBand(b, atr, i) ELSE p.up
        lo == IF LowerBand(b, atr, i) > p.lo \/ b[i - 1].close < p.lo THEN LowerBand(b, atr, i) ELSE p.lo
    IN  [up |-> up, lo |-> lo,
         dir |-> IF b[i].close > up THEN 1 ELSE IF b[i].close < lo THEN -1 ELSE p.dir]
Turning(g, b, atr, s, m) ==
    g = [i \in s..m |-> IF i = s THEN TurnFirst(b, atr, i) ELSE TurnNext(b, atr, i, g[i - 1])]

\* The trend can be followed as far as there are bars.
LEMMA TurningExists ==
    ASSUME NEW b, NEW atr, NEW s \in Nat, NEW m \in Nat
    PROVE  \E g : Turning(g, b, atr, s, m)
  <1>. DEFINE base == TurnFirst(b, atr, s)
              Good == {k \in Nat : \E g : Turning(g, b, atr, s, k)}
  <1>1. 0 \in Good
    <2>1. PICK g : g = [i \in s..0 |-> base]
      OBVIOUS
    <2>2. g = [i \in s..0 |-> IF i = s THEN TurnFirst(b, atr, i) ELSE TurnNext(b, atr, i, g[i - 1])]
      <3>1. \A i \in s..0 : i = s
        OBVIOUS
      <3>. QED BY <2>1, <3>1
    <2>. QED BY <2>2 DEF Turning
  <1>2. ASSUME NEW k \in Nat, k \in Good PROVE k + 1 \in Good
    <2>1. PICK g : Turning(g, b, atr, s, k)
      BY <1>2
    <2>2. /\ s \in s..k => g[s] = base
          /\ \A i \in s..k : i # s => g[i] = TurnNext(b, atr, i, g[i - 1])
      BY <2>1 DEF Turning
    <2>. HIDE DEF base
    <2>3. PICK h : h = [i \in s..(k + 1) |->
                          IF i = s THEN base
                          ELSE TurnNext(b, atr, i, IF i - 1 = s THEN base ELSE g[i - 1])]
      OBVIOUS
    <2>4. ASSUME NEW i \in s..(k + 1), i # s
          PROVE  h[i] = TurnNext(b, atr, i, h[i - 1])
      <3>1. h[i] = TurnNext(b, atr, i, IF i - 1 = s THEN base ELSE g[i - 1])
        BY <2>3, <2>4
      <3>2. i - 1 \in s..k /\ i - 1 \in s..(k + 1)
        BY <2>4
      <3>3. CASE i - 1 = s
        BY <2>3, <3>1, <3>2, <3>3
      <3>4. CASE i - 1 # s
        <4>1. PICK j : j = i - 1
          OBVIOUS
        <4>2. j \in s..(k + 1) /\ j \in s..k /\ j # s /\ j - 1 \in s..k
          BY <3>2, <3>4, <4>1
        <4>3. h[j] = TurnNext(b, atr, j, IF j - 1 = s THEN base ELSE g[j - 1])
          BY <2>3, <4>2
        <4>4. g[j] = TurnNext(b, atr, j, g[j - 1])
          BY <2>2, <4>2
        <4>5. s \in s..k
          BY <4>2
        <4>6. h[j] = g[j]
          BY <2>2, <4>3, <4>4, <4>5
        <4>. QED BY <3>1, <3>4, <4>1, <4>6
      <3>. QED BY <3>3, <3>4
    <2>5. h = [i \in s..(k + 1) |-> IF i = s THEN base ELSE TurnNext(b, atr, i, h[i - 1])]
      BY <2>3, <2>4
    <2>6. h = [i \in s..(k + 1) |-> IF i = s THEN TurnFirst(b, atr, i) ELSE TurnNext(b, atr, i, h[i - 1])]
      BY <2>5 DEF base
    <2>. QED BY <2>6 DEF Turning
  <1>. HIDE DEF Good
  <1>3. m \in Good
    BY <1>1, <1>2, Facts!NatInduct
  <1>. QED BY <1>3 DEF Good

\* What the trend is.
LEMMA TrendIs ==
    ASSUME NEW b, NEW n \in Nat, NEW s \in Nat, s = TrendPeriod + 1,
           NEW atr, atr = Atr(b, TrendPeriod), DOMAIN atr = s..n
    PROVE  \E g : /\ Turning(g, b, atr, s, n)
                  /\ Trend(b) = [i \in s..n |-> g[i].dir]
  <1>. DEFINE Steps(g) ==
          g = [i \in DOMAIN atr |->
                 IF i = TrendPeriod + 1
                 THEN [up |-> (b[i].high + b[i].low) \div 2 + TrendMult * atr[i],
                       lo |-> (b[i].high + b[i].low) \div 2 - TrendMult * atr[i], dir |-> 1]
                 ELSE TurnNext(b, atr, i, g[i - 1])]
  <1>1. PICK e : e = CHOOSE g : Steps(g)
    OBVIOUS
  <1>2. Trend(b) = [i \in DOMAIN atr |-> e[i].dir]
    BY <1>1 DEF Trend, TurnNext, UpperBand, LowerBand
  <1>3. \A g : Steps(g) <=> Turning(g, b, atr, s, n)
    BY DEF Turning, TurnFirst, UpperBand, LowerBand
  <1>4. \E g : Steps(g)
    BY <1>3, TurningExists
  <1>. HIDE DEF Steps
  <1>5. Steps(e)
    BY <1>1, <1>4
  <1>. QED BY <1>2, <1>3, <1>5

\* The trend.
LEMMA TrendAgrees ==
    ASSUME NEW b, NEW d, NEW n, Longer(b, d, n)
    PROVE  Agree(Trend(b), Trend(d), n)
  <1>1. n \in Nat /\ n + 1 \in Nat /\ Len(b) = n /\ Len(d) = n + 1 /\ \A j \in 1..n : d[j] = b[j]
    BY DEF Longer
  <1>2. PICK s \in Nat \ {0} : s = TrendPeriod + 1 /\ s > 1
    BY PeriodsAssumption
  <1>3. PICK u, u2 : u = Atr(b, TrendPeriod) /\ u2 = Atr(d, TrendPeriod)
    OBVIOUS
  <1>4. Extends(u, u2, s, n)
    <2>1. TrendPeriod \in Nat \ {0}
      BY PeriodsAssumption
    <2>. QED BY <1>2, <1>3, <2>1, AtrExtends
  <1>5. PICK g : Turning(g, b, u, s, n) /\ Trend(b) = [i \in s..n |-> g[i].dir]
    <2>1. DOMAIN u = s..n
      BY <1>4 DEF Extends
    <2>. QED BY <1>1, <1>2, <1>3, <2>1, TrendIs
  <1>6. PICK h : Turning(h, d, u2, s, n + 1) /\ Trend(d) = [i \in s..(n + 1) |-> h[i].dir]
    <2>1. DOMAIN u2 = s..(n + 1)
      BY <1>4 DEF Extends
    <2>. QED BY <1>1, <1>2, <1>3, <2>1, TrendIs
  <1>7. ASSUME NEW i \in s..n
        PROVE  /\ i \in s..(n + 1)
               /\ UpperBand(d, u2, i) = UpperBand(b, u, i) /\ LowerBand(d, u2, i) = LowerBand(b, u, i)
               /\ d[i] = b[i] /\ d[i - 1] = b[i - 1]
    <2>1. i \in 1..n /\ i - 1 \in 1..n /\ i \in s..(n + 1)
      BY <1>1, <1>2
    <2>2. d[i] = b[i] /\ d[i - 1] = b[i - 1]
      BY <1>1, <2>1
    <2>3. u2[i] = u[i]
      BY <1>4 DEF Extends
    <2>. QED BY <2>1, <2>2, <2>3 DEF UpperBand, LowerBand
  <1>8. s <= n => h[s] = g[s]
    <2>. SUFFICES ASSUME s <= n PROVE h[s] = g[s]
      OBVIOUS
    <2>1. s \in s..n /\ s \in s..(n + 1)
      BY <1>1, <1>2
    <2>2. g[s] = TurnFirst(b, u, s) /\ h[s] = TurnFirst(d, u2, s)
      BY <1>5, <1>6, <2>1 DEF Turning
    <2>. QED BY <1>7, <2>1, <2>2 DEF TurnFirst
  <1>9. ASSUME NEW i \in (s + 1)..n, h[i - 1] = g[i - 1] PROVE h[i] = g[i]
    <2>1. i \in s..n /\ i \in s..(n + 1) /\ i # s
      BY <1>1, <1>2
    <2>2. g[i] = TurnNext(b, u, i, g[i - 1]) /\ h[i] = TurnNext(d, u2, i, h[i - 1])
      BY <1>5, <1>6, <2>1 DEF Turning
    <2>3. TurnNext(d, u2, i, g[i - 1]) = TurnNext(b, u, i, g[i - 1])
      BY <1>7, <2>1 DEF TurnNext
    <2>. QED BY <1>9, <2>2, <2>3
  <1>10. \A i \in s..n : h[i] = g[i]
    <2>1. Follows(g, h, s, n)
      BY <1>1, <1>2, <1>8, <1>9 DEF Follows
    <2>. QED BY <2>1, RecursionSame
  <1>11. Extends(Trend(b), Trend(d), s, n)
    <2>1. \A i \in s..n : i \in s..(n + 1)
      BY <1>7
    <2>. QED BY <1>1, <1>2, <1>5, <1>6, <1>10, <2>1 DEF Extends
  <1>. QED BY <1>11, ExtendsAgree

-----------------------------------------------------------------------------
\* Whether two series cross on a bar there was is the same.
LEMMA CrossSame ==
    ASSUME NEW n \in Nat, NEW x, NEW y, Agree(x, y, n), NEW v, NEW w, Agree(v, w, n), NEW j \in 1..n
    PROVE  /\ CrossUp(y, w, j) <=> CrossUp(x, v, j)
           /\ CrossDown(y, w, j) <=> CrossDown(x, v, j)
           /\ j \in DOMAIN y <=> j \in DOMAIN x
  <1>1. ASSUME NEW k, k \in {j - 1, j}
        PROVE  k \in Both(y, w) <=> k \in Both(x, v)
    <2>1. k \in 1..(n + 1) => k \in 1..n
      BY <1>1
    <2>. QED BY <2>1 DEF Agree, Both
  <1>2. {j - 1, j} \subseteq Both(y, w) <=> {j - 1, j} \subseteq Both(x, v)
    BY <1>1
  <1>3. ASSUME {j - 1, j} \subseteq Both(x, v)
        PROVE  /\ y[j - 1] = x[j - 1] /\ y[j] = x[j] /\ w[j - 1] = v[j - 1] /\ w[j] = v[j]
    BY <1>3 DEF Agree, Both
  <1>. QED BY <1>2, <1>3 DEF CrossUp, CrossDown, Agree

\* The entries on the bars there were.
LEMMA EarlierEntries ==
    ASSUME NEW n \in Nat, NEW L, NEW S, L \subseteq 1..(n + 1), S \subseteq 1..(n + 1)
    PROVE  {e \in {<<i, "Long">> : i \in L} \cup {<<i, "Short">> : i \in S} : e[1] <= n}
           = {<<i, "Long">> : i \in L \cap (1..n)} \cup {<<i, "Short">> : i \in S \cap (1..n)}
  <1>1. \A i \in 1..(n + 1) : i <= n <=> i \in 1..n
    OBVIOUS
  <1>. DEFINE Of(M, way) == {<<i, way>> : i \in M}
  <1>2. ASSUME NEW M, M \subseteq 1..(n + 1), NEW way
        PROVE  \A e : e \in Of(M, way) /\ e[1] <= n <=> e \in Of(M \cap (1..n), way)
    <2>1. \A i : <<i, way>>[1] = i
      OBVIOUS
    <2>2. ASSUME NEW e, e \in Of(M, way), e[1] <= n PROVE e \in Of(M \cap (1..n), way)
      <3>1. PICK i \in M : e = <<i, way>>
        BY <2>2
      <3>2. i \in M \cap (1..n)
        BY <1>1, <1>2, <2>1, <2>2, <3>1
      <3>. QED BY <3>1, <3>2
    <2>3. ASSUME NEW e, e \in Of(M \cap (1..n), way) PROVE e \in Of(M, way) /\ e[1] <= n
      <3>1. PICK i \in M \cap (1..n) : e = <<i, way>>
        BY <2>3
      <3>2. e[1] = i /\ i <= n
        BY <2>1, <3>1
      <3>. QED BY <3>1, <3>2
    <2>. QED BY <2>2, <2>3
  <1>3. /\ \A e : e \in Of(L, "Long") /\ e[1] <= n <=> e \in Of(L \cap (1..n), "Long")
        /\ \A e : e \in Of(S, "Short") /\ e[1] <= n <=> e \in Of(S \cap (1..n), "Short")
    BY <1>2
  <1>. HIDE DEF Of
  <1>4. {e \in Of(L, "Long") \cup Of(S, "Short") : e[1] <= n}
        = Of(L \cap (1..n), "Long") \cup Of(S \cap (1..n), "Short")
    BY <1>3
  <1>. QED BY <1>4 DEF Of

\* So are the entries on crosses.
LEMMA CrossesSame ==
    ASSUME NEW n \in Nat, NEW x, NEW y, Agree(x, y, n), NEW u, NEW u2, Agree(u, u2, n),
           NEW v, NEW v2, Agree(v, v2, n)
    PROVE  {e \in Crosses(y, u2, v2) : e[1] <= n} = Crosses(x, u, v)
  <1>1. DOMAIN y \subseteq 1..(n + 1) /\ DOMAIN x = DOMAIN y \cap (1..n)
    BY DEF Agree
  <1>2. ASSUME NEW j \in 1..n
        PROVE  /\ CrossUp(y, u2, j) <=> CrossUp(x, u, j)
               /\ CrossDown(y, v2, j) <=> CrossDown(x, v, j)
               /\ j \in DOMAIN y <=> j \in DOMAIN x
    BY CrossSame
  <1>. DEFINE Longs(z, w) == {j \in DOMAIN z : CrossUp(z, w, j)}
              Shorts(z, w, q) == {j \in DOMAIN z : ~CrossUp(z, w, j) /\ CrossDown(z, q, j)}
  <1>3. /\ Longs(x, u) = Longs(y, u2) \cap (1..n)
        /\ Shorts(x, u, v) = Shorts(y, u2, v2) \cap (1..n)
        /\ Longs(y, u2) \subseteq 1..(n + 1) /\ Shorts(y, u2, v2) \subseteq 1..(n + 1)
    BY <1>1, <1>2
  <1>4. /\ Crosses(x, u, v) =
             {<<i, "Long">> : i \in Longs(x, u)} \cup {<<i, "Short">> : i \in Shorts(x, u, v)}
        /\ Crosses(y, u2, v2) =
             {<<i, "Long">> : i \in Longs(y, u2)} \cup {<<i, "Short">> : i \in Shorts(y, u2, v2)}
    BY DEF Crosses
  <1>. HIDE DEF Longs, Shorts
  <1>. QED BY <1>3, <1>4, EarlierEntries

\* The entries on the opening gap are the same.
LEMMA GapAndGoSame ==
    ASSUME NEW b, NEW d, NEW n, Longer(b, d, n)
    PROVE  {e \in GapAndGo(d) : e[1] <= n} = GapAndGo(b)
  <1>1. n \in Nat /\ \A i \in 1..n : d[i] = b[i]
    BY DEF Longer
  <1>2. PICK g, h : g = Gap(b) /\ h = Gap(d)
    OBVIOUS
  <1>3. DOMAIN h \subseteq 1..(n + 1) /\ DOMAIN g = DOMAIN h \cap (1..n) /\ \A i \in DOMAIN g : h[i] = g[i]
    <2>1. Agree(g, h, n)
      BY <1>2, PivotAndGapAgree
    <2>. QED BY <2>1 DEF Agree
  <1>4. PICK s, t : s = DayStart(b) /\ t = DayStart(d)
    OBVIOUS
  <1>5. s = t \cap (1..n) /\ t \subseteq 1..(n + 1) /\ s \subseteq DOMAIN g
    BY <1>2, <1>3, <1>4, DayToBarSame DEF DayStart
  <1>. DEFINE Longs(z, gap, q) == {j \in q : gap[j] > GapMin /\ Bullish(z[j])}
              Shorts(z, gap, q) == {j \in q : gap[j] < -GapMin /\ ~Bullish(z[j])}
  <1>6. /\ GapAndGo(b) =
             {<<i, "Long">> : i \in Longs(b, g, s)} \cup {<<i, "Short">> : i \in Shorts(b, g, s)}
        /\ GapAndGo(d) =
             {<<i, "Long">> : i \in Longs(d, h, t)} \cup {<<i, "Short">> : i \in Shorts(d, h, t)}
    BY <1>2, <1>4 DEF GapAndGo
  <1>7. \A i \in s : d[i] = b[i] /\ h[i] = g[i]
    BY <1>1, <1>3, <1>5
  <1>8. /\ Longs(b, g, s) = Longs(d, h, t) \cap (1..n)
        /\ Shorts(b, g, s) = Shorts(d, h, t) \cap (1..n)
        /\ Longs(d, h, t) \subseteq 1..(n + 1) /\ Shorts(d, h, t) \subseteq 1..(n + 1)
    BY <1>5, <1>7
  <1>. HIDE DEF Longs, Shorts
  <1>. QED BY <1>1, <1>6, <1>8, EarlierEntries

\* And those on a burst of volume.
LEMMA VolumeSame ==
    ASSUME NEW b, NEW d, NEW n, Longer(b, d, n)
    PROVE  {e \in Entries("rvol_breakout", d) : e[1] <= n} = Entries("rvol_breakout", b)
  <1>1. /\ n \in Nat /\ DOMAIN b = 1..n /\ DOMAIN d = 1..(n + 1)
        /\ \A i \in 1..n : d[i] = b[i] /\ i \in 1..(n + 1)
        /\ \A i \in 1..(n + 1) : i <= n <=> i \in 1..n
    BY DEF Longer
  <1>2. PICK u, v : /\ u = {j \in DOMAIN b : CrossUp(Rvol(b), Constant(b, RvolMin), j)}
                    /\ v = {j \in DOMAIN d : CrossUp(Rvol(d), Constant(d, RvolMin), j)}
    OBVIOUS
  <1>3. \A j \in 1..n : CrossUp(Rvol(d), Constant(d, RvolMin), j)
                        <=> CrossUp(Rvol(b), Constant(b, RvolMin), j)
    BY <1>1, RvolAgrees, ConstantsAgree, CrossSame
  <1>4. u = v \cap (1..n) /\ v \subseteq 1..(n + 1)
    BY <1>1, <1>2, <1>3
  <1>. DEFINE Way(z, i) == IF Bullish(z[i]) THEN "Long" ELSE "Short"
  <1>5. /\ Entries("rvol_breakout", b) = {<<i, Way(b, i)>> : i \in u}
        /\ Entries("rvol_breakout", d) = {<<i, Way(d, i)>> : i \in v}
    BY <1>2 DEF Entries
  <1>6. \A i \in u : Way(d, i) = Way(b, i)
    BY <1>1, <1>4
  <1>. HIDE DEF Way
  <1>. QED BY <1>1, <1>4, <1>5, <1>6

\* Where the closes of a chart are concerned.
LEMMA ClosesGrow ==
    ASSUME NEW b, NEW d, NEW n, Longer(b, d, n)
    PROVE  /\ n \in Nat /\ Closing(Field(b, "close"), Field(d, "close"), n)
           /\ Agree(Field(b, "close"), Field(d, "close"), n)
           /\ Agree(Deviation(Field(b, "close")), Deviation(Field(d, "close")), n)
           /\ Agree(Middle(Field(b, "close")), Middle(Field(d, "close")), n)
  <1>1. n \in Nat
    BY DEF Longer
  <1>2. Closing(Field(b, "close"), Field(d, "close"), n)
    BY FieldsExtend DEF Closing
  <1>3. Agree(Field(b, "close"), Field(d, "close"), n)
    BY <1>2, ExtendsAgree DEF Closing
  <1>. QED BY <1>1, <1>2, <1>3, BandsAgree

\* The means of the closes.
LEMMA EmasAgree ==
    ASSUME NEW c, NEW e, NEW n, Closing(c, e, n), NEW p \in Nat \ {0}
    PROVE  Agree(Ema(c, p), Ema(e, p), n)
  <1>1. PICK t : t = 1 + p - 1
    OBVIOUS
  <1>2. Extends(Ema(c, p), Ema(e, p), t, n)
    BY <1>1, EmaSame DEF Closing
  <1>. QED BY <1>2, ExtendsAgree

\* Every strategy of the library enters where it did.
LEMMA EntriesSame ==
    ASSUME NEW b, NEW d, NEW n, Longer(b, d, n), NEW s \in Library
    PROVE  {e \in Entries(s, d) : e[1] <= n} = Entries(s, b)
  <1>1. PICK c, c2 : c = Field(b, "close") /\ c2 = Field(d, "close")
    OBVIOUS
  <1>2. /\ n \in Nat /\ Closing(c, c2, n) /\ Agree(c, c2, n)
        /\ Agree(Deviation(c), Deviation(c2), n) /\ Agree(Middle(c), Middle(c2), n)
    BY <1>1, ClosesGrow
  <1>3. CASE s = "vwap_cross"
    <2>1. Entries(s, b) = Crosses(c, Vwap(b), Vwap(b)) /\ Entries(s, d) = Crosses(c2, Vwap(d), Vwap(d))
      BY <1>1, <1>3 DEF Entries
    <2>. QED BY <1>2, <2>1, VwapAgrees, CrossesSame
  <1>4. CASE s = "ema_cross_9_21"
    <2>1. /\ Entries(s, b) = Crosses(Ema(c, EmaFast), Ema(c, EmaSlow), Ema(c, EmaSlow))
          /\ Entries(s, d) = Crosses(Ema(c2, EmaFast), Ema(c2, EmaSlow), Ema(c2, EmaSlow))
      BY <1>1, <1>4 DEF Entries
    <2>2. Agree(Ema(c, EmaFast), Ema(c2, EmaFast), n) /\ Agree(Ema(c, EmaSlow), Ema(c2, EmaSlow), n)
      BY <1>2, EmasAgree, PeriodsAssumption
    <2>. QED BY <1>2, <2>1, <2>2, CrossesSame
  <1>5. CASE s = "rsi_reversion"
    <2>1. /\ Entries(s, b) = Crosses(Rsi(c, RsiPeriod), Constant(b, 30), Constant(b, 70))
          /\ Entries(s, d) = Crosses(Rsi(c2, RsiPeriod), Constant(d, 30), Constant(d, 70))
      BY <1>1, <1>5 DEF Entries
    <2>2. /\ Agree(Rsi(c, RsiPeriod), Rsi(c2, RsiPeriod), n)
          /\ Agree(Constant(b, 30), Constant(d, 30), n) /\ Agree(Constant(b, 70), Constant(d, 70), n)
      BY <1>2, RsiAgrees, ConstantsAgree, PeriodsAssumption
    <2>. QED BY <1>2, <2>1, <2>2, CrossesSame
  <1>6. CASE s = "macd_cross"
    <2>1. /\ Entries(s, b) = Crosses(Macd(c), MacdSignal(c), MacdSignal(c))
          /\ Entries(s, d) = Crosses(Macd(c2), MacdSignal(c2), MacdSignal(c2))
      BY <1>1, <1>6 DEF Entries
    <2>. QED BY <1>2, <2>1, MacdSignalAgrees, CrossesSame
  <1>7. CASE s = "bollinger_reversion"
    <2>1. /\ Entries(s, b) = Crosses(c, Banded(Middle(c), Deviation(c), -BandMult),
                                       Banded(Middle(c), Deviation(c), BandMult))
          /\ Entries(s, d) = Crosses(c2, Banded(Middle(c2), Deviation(c2), -BandMult),
                                        Banded(Middle(c2), Deviation(c2), BandMult))
      BY <1>1, <1>7 DEF Entries
    <2>2. \A k : Agree(Banded(Middle(c), Deviation(c), k), Banded(Middle(c2), Deviation(c2), k), n)
      BY <1>2, BandedAgrees
    <2>. QED BY <1>2, <2>1, <2>2, CrossesSame
  <1>8. CASE s = "supertrend"
    <2>1. /\ Entries(s, b) = Crosses(Trend(b), Constant(b, 0), Constant(b, 0))
          /\ Entries(s, d) = Crosses(Trend(d), Constant(d, 0), Constant(d, 0))
      BY <1>1, <1>8 DEF Entries
    <2>. QED BY <1>2, <2>1, TrendAgrees, ConstantsAgree, CrossesSame
  <1>9. CASE s = "orb_15m"
    <2>1. /\ Entries(s, b) = Crosses(c, OpeningHigh(b), OpeningLow(b))
          /\ Entries(s, d) = Crosses(c2, OpeningHigh(d), OpeningLow(d))
      BY <1>1, <1>9 DEF Entries
    <2>. QED BY <1>2, <2>1, OpeningAgrees, CrossesSame
  <1>10. CASE s = "donchian_breakout"
    <2>1. /\ Entries(s, b) = Crosses(c, DonchianUp(b), DonchianLow(b))
          /\ Entries(s, d) = Crosses(c2, DonchianUp(d), DonchianLow(d))
      BY <1>1, <1>10 DEF Entries
    <2>. QED BY <1>2, <2>1, ChannelAgrees, CrossesSame
  <1>11. CASE s = "zscore_reversion"
    <2>1. /\ Entries(s, b) = Crosses(ZScore(c), Constant(b, -BandMult), Constant(b, BandMult))
          /\ Entries(s, d) = Crosses(ZScore(c2), Constant(d, -BandMult), Constant(d, BandMult))
      BY <1>1, <1>11 DEF Entries
    <2>2. /\ Agree(ZScore(c), ZScore(c2), n)
          /\ \A t : Agree(Constant(b, t), Constant(d, t), n)
      BY <1>2, ZScoreAgrees, ConstantsAgree
    <2>. QED BY <1>2, <2>1, <2>2, CrossesSame
  <1>12. CASE s = "vwap_band_reversion"
    <2>1. /\ Entries(s, b) = Crosses(c, Banded(Vwap(b), Deviation(c), -BandMult),
                                       Banded(Vwap(b), Deviation(c), BandMult))
          /\ Entries(s, d) = Crosses(c2, Banded(Vwap(d), Deviation(c2), -BandMult),
                                        Banded(Vwap(d), Deviation(c2), BandMult))
      BY <1>1, <1>12 DEF Entries
    <2>2. \A k : Agree(Banded(Vwap(b), Deviation(c), k), Banded(Vwap(d), Deviation(c2), k), n)
      BY <1>2, VwapAgrees, BandedAgrees
    <2>. QED BY <1>2, <2>1, <2>2, CrossesSame
  <1>13. CASE s = "cpr_pivot"
    <2>1. /\ Entries(s, b) = Crosses(c, Pivot(b), Pivot(b))
          /\ Entries(s, d) = Crosses(c2, Pivot(d), Pivot(d))
      BY <1>1, <1>13 DEF Entries
    <2>. QED BY <1>2, <2>1, PivotAndGapAgree, CrossesSame
  <1>14. CASE s = "gap_and_go"
    <2>1. Entries(s, b) = GapAndGo(b) /\ Entries(s, d) = GapAndGo(d)
      BY <1>14 DEF Entries
    <2>. QED BY <2>1, GapAndGoSame
  <1>15. CASE s = "rvol_breakout"
    BY <1>15, VolumeSame
  <1>. QED BY <1>3, <1>4, <1>5, <1>6, <1>7, <1>8, <1>9, <1>10, <1>11, <1>12, <1>13, <1>14, <1>15
         DEF Library

\* So does every strategy of the suggestion pages.
LEMMA SuggestedSame ==
    ASSUME NEW b, NEW d, NEW n, Longer(b, d, n), NEW s \in Suggested, NEW way \in {"Long", "Short"}
    PROVE  SuggestedEntries(s, way, d) \cap (1..n) = SuggestedEntries(s, way, b)
  <1>1. PICK c, c2 : c = Field(b, "close") /\ c2 = Field(d, "close")
    OBVIOUS
  <1>2. n \in Nat /\ Agree(c, c2, n)
    BY <1>1, ClosesGrow
  <1>3. /\ DOMAIN b = 1..n /\ DOMAIN d = 1..(n + 1)
        /\ \A i \in 1..n : i \in 1..(n + 1) /\ i <= n
    BY DEF Longer
  <1>. DEFINE CrossIn(z, x, up, down) ==
                 {i \in DOMAIN z : IF way = "Long" THEN CrossUp(x, up, i) ELSE CrossDown(x, down, i)}
  <1>4. ASSUME NEW u, NEW u2, Agree(u, u2, n), NEW v, NEW v2, Agree(v, v2, n)
        PROVE  CrossIn(d, c2, u2, v2) \cap (1..n) = CrossIn(b, c, u, v)
    <2>1. ASSUME NEW j \in 1..n
          PROVE  /\ CrossUp(c2, u2, j) <=> CrossUp(c, u, j)
                 /\ CrossDown(c2, v2, j) <=> CrossDown(c, v, j)
      BY <1>2, <1>4, CrossSame
    <2>. QED BY <1>3, <2>1
  <1>5. CASE s = "VwapTrend"
    <2>1. /\ SuggestedEntries(s, way, b) = CrossIn(b, c, Vwap(b), Vwap(b))
          /\ SuggestedEntries(s, way, d) = CrossIn(d, c2, Vwap(d), Vwap(d))
      BY <1>1, <1>5 DEF SuggestedEntries
    <2>. HIDE DEF CrossIn
    <2>. QED BY <1>4, <2>1, VwapAgrees
  <1>6. CASE s = "OpeningRange"
    <2>1. /\ SuggestedEntries(s, way, b) = CrossIn(b, c, OpeningHigh(b), OpeningLow(b))
          /\ SuggestedEntries(s, way, d) = CrossIn(d, c2, OpeningHigh(d), OpeningLow(d))
      BY <1>1, <1>6 DEF SuggestedEntries
    <2>. HIDE DEF CrossIn
    <2>. QED BY <1>4, <2>1, OpeningAgrees
  <1>7. CASE s = "PrevDayBreakout"
    <2>1. /\ SuggestedEntries(s, way, b) = CrossIn(b, c, PriorHigh(b), PriorLow(b))
          /\ SuggestedEntries(s, way, d) = CrossIn(d, c2, PriorHigh(d), PriorLow(d))
      BY <1>1, <1>7 DEF SuggestedEntries
    <2>. HIDE DEF CrossIn
    <2>. QED BY <1>4, <2>1, LevelsAgree
  <1>8. CASE s = "GapAndGo"
    <2>1. /\ SuggestedEntries(s, way, b) = {i \in 1..n : <<i, way>> \in GapAndGo(b)}
          /\ SuggestedEntries(s, way, d) = {i \in 1..(n + 1) : <<i, way>> \in GapAndGo(d)}
      BY <1>3, <1>8 DEF SuggestedEntries
    <2>2. \A i \in 1..n : <<i, way>> \in GapAndGo(d) <=> <<i, way>> \in GapAndGo(b)
      <3>1. \A i \in 1..n : <<i, way>>[1] <= n
        BY <1>3
      <3>2. {e \in GapAndGo(d) : e[1] <= n} = GapAndGo(b)
        BY GapAndGoSame
      <3>. QED BY <3>1, <3>2
    <2>. QED BY <1>3, <2>1, <2>2
  <1>. QED BY <1>5, <1>6, <1>7, <1>8 DEF Suggested

-----------------------------------------------------------------------------
ChartBar == [day : Nat, open : {k.open : k \in Candles}, high : {k.high : k \in Candles},
        low : {k.low : k \in Candles}, close : {k.close : k \in Candles},
        vol : {k.vol : k \in Candles}]

\* The bars of a chart are of its last day or of days before.
ChartInv ==
    /\ chart \in Seq(ChartBar)
    /\ \A i \in 1..Len(chart) : chart[i].day <= chart[Len(chart)].day

\* A bar appended leaves it so, and the bars there were as they were.
LEMMA ChartGrows ==
    ASSUME ChartInv, AppendCandle
    PROVE  Longer(chart, chart', Len(chart)) /\ ChartInv'
  <1>1. PICK k \in Candles, day \in 0..MaxCandles :
           /\ IF chart = <<>> THEN day = 0 ELSE day \in {Last(chart).day, Last(chart).day + 1}
           /\ chart' = Append(chart, [day |-> day, open |-> k.open, high |-> k.high,
                                      low |-> k.low, close |-> k.close, vol |-> k.vol])
    BY DEF AppendCandle
  <1>2. PICK bar : bar = [day |-> day, open |-> k.open, high |-> k.high,
                          low |-> k.low, close |-> k.close, vol |-> k.vol]
    OBVIOUS
  <1>3. day \in Nat
    BY <1>1, BoundAssumption
  <1>4. bar \in ChartBar /\ bar.day = day
    BY <1>2, <1>3 DEF ChartBar
  <1>5. PICK n : n = Len(chart)
    OBVIOUS
  <1>6. /\ n \in Nat /\ chart \in Seq(ChartBar) /\ chart' = Append(chart, bar) /\ DOMAIN chart = 1..n
        /\ \A i \in 1..n : chart[i] \in ChartBar
    BY <1>1, <1>2, <1>5 DEF ChartInv
  <1>7. /\ chart' \in Seq(ChartBar) /\ Len(chart') = n + 1 /\ DOMAIN chart' = 1..(n + 1)
        /\ chart'[n + 1] = bar /\ \A i \in 1..n : chart'[i] = chart[i]
    BY <1>4, <1>5, <1>6
  <1>8. \A i \in 1..n : chart[i].day \in Nat
    BY <1>6 DEF ChartBar
  <1>9. \A i \in 1..n : chart[i].day <= day
    <2>. SUFFICES ASSUME NEW i \in 1..n PROVE chart[i].day <= day
      OBVIOUS
    <2>1. chart # <<>> /\ Last(chart) = chart[n] /\ n \in 1..n
      BY <1>5, <1>6 DEF Last
    <2>2. day = chart[n].day \/ day = chart[n].day + 1
      BY <1>1, <2>1
    <2>3. chart[i].day <= chart[n].day
      BY <1>5 DEF ChartInv
    <2>. QED BY <1>3, <1>8, <2>1, <2>2, <2>3
  <1>10. \A i \in 1..(n + 1) : i = n + 1 \/ i \in 1..n
    BY <1>6
  <1>11. Longer(chart, chart', n)
    BY <1>3, <1>4, <1>6, <1>7, <1>8, <1>9, <1>10 DEF Longer
  <1>12. \A i \in 1..(n + 1) : chart'[i].day <= chart'[n + 1].day
    BY <1>3, <1>4, <1>7, <1>9, <1>10
  <1>. QED BY <1>5, <1>7, <1>11, <1>12 DEF ChartInv

\* No strategy of either library, whatever its periods, sees the future: what it enters
\* on among the bars of a chart is the same once another bar is appended.
THEOREM NothingFromTheFuture == ChartSpec => NoLookahead
  <1>1. ChartInit => ChartInv
    BY DEF ChartInit, ChartInv
  <1>2. ASSUME ChartInv, [ChartNext]_chart PROVE ChartInv'
    <2>1. CASE AppendCandle
      BY <1>2, <2>1, ChartGrows
    <2>2. CASE UNCHANGED chart
      BY <1>2, <2>2 DEF ChartInv
    <2>. QED BY <1>2, <2>1, <2>2 DEF ChartNext
  <1>3. ASSUME ChartInv, ChartNext PROVE EntriesStay
    <2>1. Longer(chart, chart', Len(chart)) /\ DOMAIN chart = 1..Len(chart)
      BY <1>3, ChartGrows DEF ChartNext, Longer
    <2>2. \A s \in Library : {e \in Entries(s, chart') : e[1] <= Len(chart)} = Entries(s, chart)
      BY <2>1, EntriesSame
    <2>3. \A s \in Suggested, way \in {"Long", "Short"} :
            SuggestedEntries(s, way, chart') \cap (1..Len(chart)) = SuggestedEntries(s, way, chart)
      BY <2>1, SuggestedSame
    <2>. QED BY <2>1, <2>2, <2>3 DEF EntriesStay
  <1>4. ChartInv /\ [ChartNext]_chart => [EntriesStay]_chart
    BY <1>3
  <1>5. ChartInv /\ [ChartNext]_chart => ChartInv'
    BY <1>2
  <1>. QED BY <1>1, <1>4, <1>5, PTL DEF ChartSpec, NoLookahead
=============================================================================
