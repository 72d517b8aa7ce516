----------------------------- MODULE SeqFilter -----------------------------
\* Rust's iter().filter(), Vec::retain and sort_by, as the proof system can open them:
\* SelectSeq of the standard module with a set for a test, and SetToSortSeq with a set
\* of pairs for an order.
EXTENDS Integers, Sequences, FiniteSets

\* The elements of a sequence that are in a set, in their order.
Filter(seq, set) ==
    LET keep[k \in 0..Len(seq)] ==
            IF k = 0 THEN <<>>
            ELSE IF seq[k] \in set THEN Append(keep[k - 1], seq[k]) ELSE keep[k - 1]
    IN  keep[Len(seq)]

\* The elements of a set in the order of R: each stands behind those before it.
Sorted(set, R) ==
    LET rank == [x \in set |-> Cardinality({y \in set : <<y, x>> \in R})]
    IN  [k \in 1..Cardinality(set) |-> CHOOSE x \in set : rank[x] = k - 1]
=============================================================================
