------------------------------ MODULE LiveFeed ------------------------------
(***************************************************************************)
(* The live session's threads from connect to shutdown: the blocking Kite  *)
(* WebSocket loop (src/ingestion_engine.rs), the analytics and scheduler   *)
(* threads it runs beside, and main, which stops and joins them            *)
(* (src/main.rs).                                                          *)
(*                                                                         *)
(* The connection is TLS, for which set_read_timeout does nothing: a read  *)
(* returns when a frame arrives or the connection breaks, and not before.  *)
(* The handshake has no timeout either: tungstenite::connect returns when  *)
(* the peer has answered or the connection has broken.                     *)
(***************************************************************************)
EXTENDS Integers

CONSTANTS
    Initial,  \* first backoff (500 ms)
    Longest,  \* longest backoff (30 s)
    Chunk     \* longest sleep between two looks at `stop` (200 ms)

ASSUME BackoffAssumption ==
    /\ Initial \in Nat \ {0} /\ Longest \in Nat /\ Chunk \in Nat \ {0}
    /\ Initial <= Longest

VARIABLES
    up,       \* does Kite accept and keep connections?
    quiet,    \* does the peer leave the connection silent?
    session,  \* regular session (09:15-15:30)
    stop,     \* the shared AtomicBool
    feed,     \* ingestion thread
    live,     \* the other threads still running: "ana", "sched"
    main      \* main thread

vars == <<up, quiet, session, stop, feed, live, main>>

Others == {"ana", "sched"}

TypeOK ==
    /\ up \in BOOLEAN /\ quiet \in BOOLEAN /\ session \in BOOLEAN /\ stop \in BOOLEAN
    /\ feed \in [pc : {"connect", "handshake", "subscribe", "loop", "reading",
                       "lost", "waiting", "ended"},
                 backoff : Initial..Longest, waited : 0..Longest]
    /\ feed.waited <= feed.backoff
    /\ live \subseteq Others
    /\ main \in {"serving", "joining ing", "joining ana", "joining sched", "ended"}

Init ==
    /\ up \in BOOLEAN /\ quiet \in BOOLEAN /\ session \in BOOLEAN
    /\ stop = FALSE
    /\ feed = [pc |-> "connect", backoff |-> Initial, waited |-> 0]
    /\ live = Others
    /\ main = "serving"

Rest == <<up, quiet, session, stop, live, main>>

\* The exchange, the network and the clock.
World ==
    /\ \/ up' = ~up /\ UNCHANGED <<quiet, session>>
       \/ quiet' = ~quiet /\ UNCHANGED <<up, session>>
       \/ session' = ~session /\ UNCHANGED <<up, quiet>>
    /\ UNCHANGED <<stop, feed, live, main>>

-----------------------------------------------------------------------------
\* live_blocking.

GoTo(pc) == feed' = [feed EXCEPT !.pc = pc]

\* `while !stop`, then into tungstenite::connect.
Connect ==
    /\ feed.pc = "connect"
    /\ GoTo(IF stop THEN "ended" ELSE "handshake")
    /\ UNCHANGED Rest

\* The peer completes the TLS handshake and the upgrade: the backoff is reset.
Answered ==
    /\ feed.pc = "handshake"
    /\ up /\ ~quiet
    /\ feed' = [feed EXCEPT !.pc = "subscribe", !.backoff = Initial]
    /\ UNCHANGED Rest

\* Nobody listens, or the connection breaks in the handshake.
Refused ==
    /\ feed.pc = "handshake"
    /\ ~up
    /\ GoTo("lost")
    /\ UNCHANGED Rest

\* Send the subscribe and the mode frame.
Subscribe ==
    /\ feed.pc = "subscribe"
    /\ GoTo(IF up THEN "loop" ELSE "lost")
    /\ UNCHANGED Rest

\* Mutant: the read loop does not look at `stop`.
ReadLoopDeaf ==
    /\ feed.pc = "loop"
    /\ GoTo("reading")
    /\ UNCHANGED Rest

\* Top of the read loop: close on stop, otherwise read.
ReadLoop ==
    /\ feed.pc = "loop"
    /\ GoTo(IF stop THEN "ended" ELSE "reading")
    /\ UNCHANGED Rest

\* A frame arrives: ticks of the session go to the analytics thread, whose end
\* ends the feed; a frame off session, a ping or a text is dropped or answered.
Frame ==
    /\ feed.pc = "reading"
    /\ up /\ ~quiet
    /\ \/ session /\ "ana" \notin live /\ GoTo("ended")
       \/ GoTo("loop")
    /\ UNCHANGED Rest

\* The server closes, or the read fails.
Lost ==
    /\ feed.pc = "reading"
    /\ ~up
    /\ GoTo("lost")
    /\ UNCHANGED Rest

\* After the connection: end on stop, otherwise start to wait.
StartWait ==
    /\ feed.pc = "lost"
    /\ feed' = [feed EXCEPT !.pc = IF stop THEN "ended" ELSE "waiting", !.waited = 0]
    /\ UNCHANGED Rest

AtMost(x, y) == IF x <= y THEN x ELSE y

\* One chunk of the backoff.
Wait ==
    /\ feed.pc = "waiting"
    /\ feed.waited < feed.backoff
    /\ \/ stop /\ GoTo("ended")
       \/ ~stop /\ feed' = [feed EXCEPT !.waited = @ + AtMost(feed.backoff - @, Chunk)]
    /\ UNCHANGED Rest

\* Mutant: the backoff is doubled before the wait's end is recognised.
RetryNever ==
    /\ feed.pc = "waiting"
    /\ feed.waited = feed.backoff
    /\ feed' = [feed EXCEPT !.backoff = AtMost(2 * @, Longest), !.waited = 0]
    /\ UNCHANGED Rest

\* The backoff is over: double it for the next time and reconnect.
Retry ==
    /\ feed.pc = "waiting"
    /\ feed.waited = feed.backoff
    /\ feed' = [pc |-> "connect", backoff |-> AtMost(2 * feed.backoff, Longest), waited |-> 0]
    /\ UNCHANGED Rest

Feed ==
    \/ Connect \/ Answered \/ Refused \/ Subscribe
    \/ ReadLoop \/ Frame \/ Lost \/ StartWait \/ Wait \/ Retry

-----------------------------------------------------------------------------
\* The analytics or the scheduler thread sees `stop` at the top of its loop.
ThreadEnds(t) ==
    /\ stop
    /\ live' = live \ {t}
    /\ UNCHANGED <<up, quiet, session, stop, feed, main>>

\* The server returns: main sets the flag.
ServerReturns ==
    /\ main = "serving"
    /\ stop' = TRUE
    /\ main' = "joining ing"
    /\ UNCHANGED <<up, quiet, session, feed, live>>

\* main joins the ingestion, the analytics and the scheduler thread, in order.
Join ==
    /\ \/ main = "joining ing" /\ feed.pc = "ended" /\ main' = "joining ana"
       \/ main = "joining ana" /\ "ana" \notin live /\ main' = "joining sched"
       \/ main = "joining sched" /\ "sched" \notin live /\ main' = "ended"
    /\ UNCHANGED <<up, quiet, session, stop, feed, live>>

-----------------------------------------------------------------------------
Next ==
    \/ World \/ Feed \/ ServerReturns \/ Join
    \/ \E t \in Others : ThreadEnds(t)

Spec == Init /\ [][Next]_vars

\* Threads run, and what is on the wire is seen. The world owes nothing, and
\* nobody has to stop the server. Strong fairness of the two calls that block: a
\* peer that speaks or breaks the connection again and again ends them, whatever
\* it does in between.
Fairness ==
    /\ WF_vars(Feed) /\ WF_vars(Join)
    /\ SF_vars(Answered \/ Refused) /\ SF_vars(Frame \/ Lost)
    /\ \A t \in Others : WF_vars(ThreadEnds(t))

FairSpec == Spec /\ Fairness

-----------------------------------------------------------------------------
\* The two calls no timeout ends, on a connection whose peer says nothing.
Deaf == feed.pc \in {"handshake", "reading"} /\ quiet

\* The feed comes back: while Kite is up and nobody stops, some attempt after
\* some backoff reaches the read, or one hangs for ever in the handshake with a
\* silent peer.
Reconnects == up ~> \/ feed.pc = "reading" \/ ~up \/ stop
                    \/ [](Deaf /\ feed.pc = "handshake")

\* The process ends after the server, or the feed hangs for ever in a handshake
\* or a read of a silent connection, which no timeout ends.
StopEnds == stop ~> main = "ended" \/ []Deaf
=============================================================================
