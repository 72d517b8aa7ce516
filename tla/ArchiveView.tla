----------------------------- MODULE ArchiveView -----------------------------
(***************************************************************************)
(* What a cache slot promises the pages that read it: it is empty, or it   *)
(* shows the archive as it was at some moment, and from one refresh to the *)
(* next that moment never moves back. The archive itself only grows.       *)
(***************************************************************************)
EXTENDS Integers

VARIABLES
    archive,  \* generation of the archive
    shown     \* generation the slot shows, -1 while it is empty

Init ==
    /\ archive = 0
    /\ shown = -1

Grow ==
    /\ archive' = archive + 1
    /\ UNCHANGED shown

\* A refresh publishes a snapshot no older than the one it replaces.
Publish ==
    /\ shown' \in 0..archive
    /\ shown' >= shown
    /\ UNCHANGED archive

Next == Grow \/ Publish

Spec == Init /\ [][Next]_<<archive, shown>>
=============================================================================
