---------------------------- MODULE MCKeyedCache ----------------------------
(***************************************************************************)
(* Model-checking instance of what requests share besides the journal: the *)
(* keyed caches, of which Rs 500 and Rs 1,000 share a bucket, Rs 1,500 is  *)
(* in the next one, at two risk levels, and the edge map on disk. The two  *)
(* share no state, so each behaviour exercises one of them.                *)
(***************************************************************************)
EXTENDS KeyedCache, MCEdgeMap, TLC

CONSTANTS r1, r2, k1, k2, k3

MCRequests == {r1, r2}
MCSlots == {k1, k2, k3}
MCBudgets == {[cap |-> 1, risk |-> 100], [cap |-> 2, risk |-> 100],
              [cap |-> 3, risk |-> 100],
              [cap |-> 3, risk |-> 200]}
MCMayFail == {[cap |-> 3, risk |-> 200]}
MCSymmetry == Permutations(MCRequests) \cup Permutations(MCSlots)

VARIABLE part
sharedVars == <<part, vars, edgeVars>>

SharedInit == part \in {"slots", "edges"} /\ Init /\ EdgeInit
SharedNext ==
    /\ UNCHANGED part
    /\ \/ part = "slots" /\ Next /\ UNCHANGED edgeVars
       \/ part = "edges" /\ EdgeNext /\ UNCHANGED vars
SharedSpec == SharedInit /\ [][SharedNext]_sharedVars
=============================================================================
