---------------------------- MODULE FitUniverse ----------------------------
(***************************************************************************)
(* fit_universe (src/suggestion_engine.rs): the one-place cache, keyed by  *)
(* IST date and number of symbols, in front of the scan that the finder,   *)
(* the picks and the staging console all size from. The lock is held for   *)
(* the look-up and for the store, not for the scan between them, so scans  *)
(* of one key or of two run side by side and the last to end keeps its     *)
(* answer.                                                                 *)
(***************************************************************************)
EXTENDS Integers

CONSTANTS
    Finders,    \* requests that reach fit_universe at the same time
    LastDate,   \* bound: IST dates explored
    MaxStocks   \* bound: symbols of the archive

VARIABLES
    date,    \* today_ist_date
    stocks,  \* symbols on disk
    cell,    \* FIT_UNIVERSE_CACHE: version and data
    finder   \* per request: version asked for, and the data it holds

fitVars == <<date, stocks, cell, finder>>

\* What a scan read is told by the date and the symbols of the moment it began.
Version(d, n) == [date |-> d, count |-> n]
NoVersion == Version(0, 0)
NoAnswer == [pc |-> "idle", version |-> NoVersion, data |-> NoVersion]
EmptyCell == [version |-> NoVersion, data |-> NoVersion]

UniverseInit ==
    /\ date = 1 /\ stocks = 1
    /\ cell = EmptyCell
    /\ finder = [f \in Finders |-> NoAnswer]

Midnight ==
    /\ date < LastDate
    /\ date' = date + 1
    /\ UNCHANGED <<stocks, cell, finder>>

\* download_stock adds a symbol.
NewStock ==
    /\ stocks < MaxStocks
    /\ stocks' = stocks + 1
    /\ UNCHANGED <<date, cell, finder>>

\* discover_symbols: the list the caller scans is that of this moment.
Discover(f) ==
    /\ finder[f].pc = "idle"
    /\ finder' = [finder EXCEPT ![f] =
           [pc |-> "listed", version |-> Version(0, stocks), data |-> NoVersion]]
    /\ UNCHANGED <<date, stocks, cell>>

\* The version is taken and the cell looked up: a hit is the answer, a miss scans.
LookUp(f) ==
    /\ finder[f].pc = "listed"
    /\ LET v == Version(date, finder[f].version.count)
       IN  finder' = [finder EXCEPT ![f] =
               IF cell.version = v THEN [pc |-> "answered", version |-> v, data |-> cell.data]
               ELSE [pc |-> "scanning", version |-> v, data |-> v]]
    /\ UNCHANGED <<date, stocks, cell>>

\* Mutant: the answer is stored under the version of the moment the scan ends.
StoreLate(f) ==
    /\ finder[f].pc = "scanning"
    /\ cell' = [version |-> Version(date, finder[f].version.count), data |-> finder[f].data]
    /\ finder' = [finder EXCEPT ![f].pc = "answered"]
    /\ UNCHANGED <<date, stocks>>

\* The scan ends; its answer replaces whatever is there, a newer one too.
Store(f) ==
    /\ finder[f].pc = "scanning"
    /\ cell' = [version |-> finder[f].version, data |-> finder[f].data]
    /\ finder' = [finder EXCEPT ![f].pc = "answered"]
    /\ UNCHANGED <<date, stocks>>

\* The handler has sized and sent its rows.
Sent(f) ==
    /\ finder[f].pc = "answered"
    /\ finder' = [finder EXCEPT ![f] = NoAnswer]
    /\ UNCHANGED <<date, stocks, cell>>

UniverseNext ==
    \/ Midnight \/ NewStock
    \/ \E f \in Finders : Discover(f) \/ LookUp(f) \/ Store(f) \/ Sent(f)

UniverseSpec == UniverseInit /\ [][UniverseNext]_fitVars

-----------------------------------------------------------------------------
\* A request that asks on a date is answered from a scan that began on that date
\* over as many symbols as it listed, however scans overlap, end out of order or
\* run past midnight.
FitOfItsDay ==
    \A f \in Finders : finder[f].pc = "answered" => finder[f].data = finder[f].version
=============================================================================
