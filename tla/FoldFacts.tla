------------------------------ MODULE FoldFacts ------------------------------
(***************************************************************************)
(* What the proofs of this project need of induction, left folds, filters, *)
(* flattenings and sums, all from the definitions of the community modules.*)
(* Induction is stated over sets of numbers, so that a leaf can cite it    *)
(* like any other fact: to prove P(n) for every n, apply NatInduct to      *)
(* {n \in Nat : P(n)}. The operator that is folded is a constant; a module *)
(* that proves something about a fold takes an instance of this one. Where *)
(* a conclusion has quantifiers it is a named predicate (Through, Falls,   *)
(* Numbers): instances of it then match as they stand.                     *)
(***************************************************************************)
EXTENDS SeqFilter, SequencesExt, FiniteSets, WellFoundedInduction, SequenceTheorems,
        FiniteSetTheorems, TLAPS

CONSTANT Op(_, _)  \* the operator folded: what was folded so far, the next element

-----------------------------------------------------------------------------
\* The order of the naturals as a set of pairs.
Smaller == {p \in Nat \X Nat : p[1] < p[2]}

\* A set of naturals with an element has a least one.
LEMMA LeastNat ==
    ASSUME NEW S, S \subseteq Nat, S # {}
    PROVE  \E m \in S : \A n \in S : m <= n
  <1>1. IsWellFoundedOn(Smaller, Nat)
    BY NatLessThanWellFounded DEF OpToRel, Smaller
  <1>2. PICK m \in S : \A n \in S : ~(<<n, m>> \in Smaller)
    BY <1>1, WFMin
  <1>3. ASSUME NEW n \in S PROVE m <= n
    <2>1. m \in Nat /\ n \in Nat
      OBVIOUS
    <2>2. ~(<<n, m>> \in Smaller)
      BY <1>2
    <2>3. CASE n < m
      <3>1. <<n, m>> \in Nat \X Nat /\ <<n, m>>[1] < <<n, m>>[2]
        BY <2>1, <2>3
      <3>. QED BY <2>2, <3>1 DEF Smaller
    <2>. QED BY <2>1, <2>3
  <1>. QED BY <1>3

\* Mathematical induction.
THEOREM NatInduct ==
    ASSUME NEW S, 0 \in S, \A n \in Nat : n \in S => n + 1 \in S
    PROVE  Nat \subseteq S
  <1>. SUFFICES ASSUME Nat \ S # {} PROVE FALSE
    OBVIOUS
  <1>1. PICK m \in Nat \ S : \A n \in Nat \ S : m <= n
    BY LeastNat
  <1>2. m - 1 \in Nat /\ m - 1 \notin Nat \ S
    BY <1>1
  <1>. QED BY <1>2

\* Induction over sequences: to prove P(s) for every sequence over T, apply it to
\* {s \in Seq(T) : P(s)}.
THEOREM SeqInduct ==
    ASSUME NEW T, NEW G, <<>> \in G, \A s \in Seq(T), x \in T : s \in G => Append(s, x) \in G
    PROVE  Seq(T) \subseteq G
  <1>. DEFINE Good == {n \in Nat : \A s \in Seq(T) : Len(s) = n => s \in G}
  <1>1. 0 \in Good
    <2>1. \A s \in Seq(T) : Len(s) = 0 => s = <<>>
      BY EmptySeq
    <2>. QED BY <2>1
  <1>2. ASSUME NEW n \in Nat, n \in Good PROVE n + 1 \in Good
    <2>. SUFFICES ASSUME NEW s \in Seq(T), Len(s) = n + 1 PROVE s \in G
      OBVIOUS
    <2>1. s # <<>>
      BY EmptySeq
    <2>2. PICK t \in Seq(T), e \in T : s = Append(t, e)
      BY <2>1, SequenceEmptyOrAppend
    <2>3. Len(t) = n
      BY <2>2, AppendProperties, LenProperties
    <2>. QED BY <1>2, <2>2, <2>3
  <1>3. Nat \subseteq Good
    <2>. HIDE DEF Good
    <2>. QED BY <1>1, <1>2, NatInduct
  <1>4. ASSUME NEW s \in Seq(T) PROVE s \in G
    <2>1. Len(s) \in Nat
      BY LenProperties
    <2>. QED BY <1>3, <2>1
  <1>. QED BY <1>4

\* A set of integers between two bounds has a greatest element, if it has any.
THEOREM GreatestInt ==
    ASSUME NEW S, NEW lo \in Int, NEW hi \in Int, S \subseteq lo..hi, S # {}
    PROVE  \E m \in S : \A n \in S : n <= m
  <1>. DEFINE T == {hi - x : x \in S}
  <1>1. T \subseteq Nat /\ T # {}
    OBVIOUS
  <1>2. PICK t \in T : \A u \in T : t <= u
    BY <1>1, LeastNat
  <1>3. PICK m \in S : t = hi - m
    OBVIOUS
  <1>4. ASSUME NEW n \in S PROVE n <= m
    <2>1. hi - n \in T
      OBVIOUS
    <2>. QED BY <1>2, <1>3, <2>1
  <1>. QED BY <1>4

\* A total preorder of the places up to n, as the set of pairs in order.
Orders(R, n) ==
    /\ \A a, b \in 1..n : <<a, b>> \in R \/ <<b, a>> \in R
    /\ \A a, b, c \in 1..n : <<a, b>> \in R /\ <<b, c>> \in R => <<a, c>> \in R

\* By such an order a set of places has a greatest one.
LEMMA GreatestBy ==
    ASSUME NEW n \in Nat, NEW R, Orders(R, n), NEW S, S \subseteq 1..n, S # {}
    PROVE  \E b \in S : \A a \in S : <<a, b>> \in R
  <1>. USE DEF Orders
  <1>. DEFINE Top(T) == \E b \in T : \A a \in T : <<a, b>> \in R
              Good == {m \in Nat : m <= n => \A T \in SUBSET (1..m) : T # {} => Top(T)}
  <1>1. 0 \in Good
    <2>1. 1..0 = {}
      OBVIOUS
    <2>. QED BY <2>1
  <1>2. ASSUME NEW m \in Nat, m \in Good, m + 1 <= n, NEW T \in SUBSET (1..m + 1), T # {}
        PROVE  Top(T)
    <2>. DEFINE U == T \ {m + 1}
    <2>1. U \in SUBSET (1..m) /\ T \subseteq 1..n /\ m <= n
      BY <1>2
    <2>2. CASE U = {}
      <3>1. m + 1 \in T /\ \A a \in T : a = m + 1
        BY <1>2, <2>2
      <3>2. m + 1 \in 1..n
        BY <1>2
      <3>. QED BY <3>1, <3>2
    <2>3. CASE U # {}
      <3>1. PICK b \in U : \A a \in U : <<a, b>> \in R
        BY <1>2, <2>1, <2>3
      <3>2. CASE m + 1 \notin T
        <4>1. T = U
          BY <3>2
        <4>. QED BY <3>1, <4>1
      <3>3. CASE m + 1 \in T /\ <<m + 1, b>> \in R
        BY <3>1, <3>3
      <3>4. CASE m + 1 \in T /\ <<b, m + 1>> \in R
        <4>1. \A a \in T : a \in 1..n
          BY <2>1
        <4>2. \A a \in U : <<a, m + 1>> \in R
          BY <3>1, <3>4, <4>1
        <4>3. <<m + 1, m + 1>> \in R
          BY <3>4, <4>1
        <4>. QED BY <3>4, <4>2, <4>3
      <3>. QED BY <2>1, <3>1, <3>2, <3>3, <3>4
    <2>. QED BY <2>2, <2>3
  <1>3. \A m \in Nat : m \in Good => m + 1 \in Good
    <2>. HIDE DEF Top
    <2>. QED BY <1>2
  <1>4. n \in Good
    <2>. HIDE DEF Good
    <2>. QED BY <1>1, <1>3, NatInduct
  <1>. QED BY <1>4

\* So Max is what it says.
LEMMA MaxIs ==
    ASSUME NEW S, NEW lo \in Int, NEW hi \in Int, S \subseteq lo..hi, S # {}
    PROVE  Max(S) \in S /\ \A n \in S : n <= Max(S)
  <1>1. \E m \in S : \A n \in S : m >= n
    BY GreatestInt
  <1>. QED BY <1>1 DEF Max

\* Of some places with integers on them one has the greatest.
LEMMA GreatestOf ==
    ASSUME NEW n \in Nat, NEW S, S \subseteq 1..n, S # {}, NEW v, \A k \in S : v[k] \in Int
    PROVE  \E b \in S : \A a \in S : v[a] <= v[b]
  <1>. DEFINE w == [k \in 1..n |-> IF k \in S THEN v[k] ELSE 0]
              R == {p \in (1..n) \X (1..n) : w[p[1]] <= w[p[2]]}
  <1>1. \A k \in 1..n : w[k] \in Int
    OBVIOUS
  <1>2. \A k \in S : w[k] = v[k]
    OBVIOUS
  <1>. HIDE DEF w
  <1>3. \A a, b \in 1..n : <<a, b>> \in R <=> w[a] <= w[b]
    OBVIOUS
  <1>. HIDE DEF R
  <1>4. Orders(R, n)
    <2>1. ASSUME NEW a \in 1..n, NEW b \in 1..n PROVE <<a, b>> \in R \/ <<b, a>> \in R
      <3>1. w[a] \in Int /\ w[b] \in Int
        BY <1>1
      <3>2. w[a] <= w[b] \/ w[b] <= w[a]
        BY <3>1
      <3>. QED BY <1>3, <3>2
    <2>2. ASSUME NEW a \in 1..n, NEW b \in 1..n, NEW c \in 1..n,
                 <<a, b>> \in R, <<b, c>> \in R
          PROVE  <<a, c>> \in R
      <3>1. w[a] \in Int /\ w[b] \in Int /\ w[c] \in Int /\ w[a] <= w[b] /\ w[b] <= w[c]
        BY <1>1, <1>3, <2>2
      <3>2. w[a] <= w[c]
        BY <3>1
      <3>. QED BY <1>3, <3>2
    <2>. QED BY <2>1, <2>2 DEF Orders
  <1>5. PICK b \in S : \A a \in S : <<a, b>> \in R
    BY <1>4, GreatestBy
  <1>6. ASSUME NEW a \in S PROVE v[a] <= v[b]
    <2>1. <<a, b>> \in R /\ a \in 1..n /\ b \in 1..n
      BY <1>5
    <2>2. w[a] <= w[b]
      BY <1>3, <2>1
    <2>. QED BY <1>2, <2>2
  <1>. QED BY <1>6

\* A set of integers with a bound below has a least one, and Min is it.
LEMMA MinIs ==
    ASSUME NEW S, S \subseteq Int, S # {}, NEW low \in Int, \A x \in S : low <= x
    PROVE  Min(S) \in S /\ \A x \in S : Min(S) <= x
  <1>. DEFINE N == {n \in Nat : low + n \in S}
  <1>1. N # {} /\ N \subseteq Nat
    <2>1. PICK x \in S : TRUE
      OBVIOUS
    <2>2. x \in Int /\ x - low \in Nat /\ low + (x - low) = x
      OBVIOUS
    <2>. QED BY <2>2
  <1>2. PICK m \in N : \A n \in N : m <= n
    BY <1>1, LeastNat
  <1>3. low + m \in S /\ \A x \in S : low + m <= x
    <2>1. ASSUME NEW x \in S PROVE low + m <= x
      <3>1. x \in Int /\ x - low \in Nat /\ low + (x - low) = x
        OBVIOUS
      <3>2. x - low \in N
        BY <3>1
      <3>3. m <= x - low
        BY <1>2, <3>2
      <3>. QED BY <3>1, <3>3
    <2>. QED BY <1>2, <2>1
  <1>. QED BY <1>3 DEF Min

-----------------------------------------------------------------------------
\* g[n] is what n applications of step make of base.
Iterates(base, step, m, g) ==
    g = [n \in 0..m |-> IF n = 0 THEN base ELSE step[g[n - 1]]]

\* A function of a set into itself can be iterated as often as one likes.
LEMMA IteratesExist ==
    ASSUME NEW D, NEW base \in D, NEW step \in [D -> D], NEW m \in Nat
    PROVE  \E g : Iterates(base, step, m, g) /\ \A n \in 0..m : g[n] \in D
  <1>. DEFINE Runs(k, g) == /\ Iterates(base, step, k, g)
                           /\ \A n \in 0..k : g[n] \in D
              Good == {k \in Nat : \E g : Runs(k, g)}
  <1>1. 0 \in Good
    <2>1. Runs(0, [n \in 0..0 |-> base])
      <3>1. \A n \in 0..0 : n = 0
        OBVIOUS
      <3>. QED BY <3>1 DEF Iterates
    <2>. QED BY <2>1
  <1>2. ASSUME NEW k \in Nat, k \in Good PROVE k + 1 \in Good
    <2>1. PICK g : Runs(k, g)
      BY <1>2
    <2>2. /\ g[0] = base /\ \A n \in 1..k : g[n] = step[g[n - 1]]
          /\ \A n \in 0..k : g[n] \in D
      <3>1. 0 \in 0..k /\ \A n \in 1..k : n \in 0..k /\ n # 0
        OBVIOUS
      <3>. QED BY <2>1, <3>1 DEF Iterates
    <2>. DEFINE h == [n \in 0..(k + 1) |-> IF n = k + 1 THEN step[g[k]] ELSE g[n]]
    <2>3. /\ \A n \in 0..k : h[n] = g[n] /\ n # k + 1
          /\ h[k + 1] = step[g[k]]
      OBVIOUS
    <2>4. \A n \in 0..(k + 1) : h[n] \in D
      <3>1. step[g[k]] \in D
        BY <2>2
      <3>. QED BY <2>2, <3>1
    <2>5. ASSUME NEW n \in 0..(k + 1)
          PROVE  h[n] = IF n = 0 THEN base ELSE step[h[n - 1]]
      <3>1. CASE n = 0
        BY <2>2, <2>3, <3>1
      <3>2. CASE n = k + 1
        <4>1. n # 0 /\ n - 1 = k /\ k \in 0..k
          BY <3>2
        <4>. QED BY <2>3, <3>2, <4>1
      <3>3. CASE n # 0 /\ n # k + 1
        <4>1. n \in 1..k /\ n \in 0..k /\ n - 1 \in 0..k
          BY <3>3
        <4>. QED BY <2>2, <2>3, <3>3, <4>1
      <3>. QED BY <3>1, <3>2, <3>3
    <2>6. Iterates(base, step, k + 1, h)
      BY <2>5 DEF Iterates
    <2>. HIDE DEF h
    <2>. QED BY <2>4, <2>6
  <1>3. m \in Good
    <2>. HIDE DEF Good
    <2>. QED BY <1>1, <1>2, NatInduct
  <1>. QED BY <1>3

-----------------------------------------------------------------------------
\* The function that FoldLeft applies to the places of a sequence s.
Folding(base, s, m, g) ==
    g = [T \in SUBSET (1..m) |->
            IF T = {} THEN base ELSE Op(g[T \ {Max(T)}], s[Max(T)])]

\* It exists for every sequence.
LEMMA FoldingExists ==
    ASSUME NEW base, NEW s, NEW n \in Nat
    PROVE  \E g : Folding(base, s, n, g)
  <1>. DEFINE Good == {m \in Nat : \E g : Folding(base, s, m, g)}
  <1>1. 0 \in Good
    <2>1. Folding(base, s, 0, [T \in SUBSET (1..0) |-> base])
      <3>1. 1..0 = {}
        OBVIOUS
      <3>. QED BY <3>1 DEF Folding
    <2>. QED BY <2>1
  <1>2. ASSUME NEW m \in Nat, m \in Good PROVE m + 1 \in Good
    <2>1. PICK g : Folding(base, s, m, g)
      BY <1>2
    <2>. DEFINE h == [T \in SUBSET (1..m + 1) |->
                        IF m + 1 \in T THEN Op(g[T \ {m + 1}], s[m + 1]) ELSE g[T]]
    <2>2. ASSUME NEW T \in SUBSET (1..m + 1)
          PROVE  h[T] = IF T = {} THEN base ELSE Op(h[T \ {Max(T)}], s[Max(T)])
      <3>1. CASE m + 1 \in T
        <4>1. m + 1 \in Int /\ T \subseteq 1..m + 1 /\ T # {}
          BY <3>1
        <4>2. Max(T) \in T /\ \A x \in T : x <= Max(T)
          BY ONLY <4>1, 1 \in Int, MaxIs
        <4>5. Max(T) = m + 1
          <5>1. m + 1 <= Max(T) /\ Max(T) \in 1..m + 1
            BY ONLY <3>1, <4>1, <4>2
          <5>. QED BY <5>1
        <4>3. T \ {m + 1} \in SUBSET (1..m + 1) /\ m + 1 \notin T \ {m + 1}
          OBVIOUS
        <4>. QED BY <3>1, <4>5, <4>3
      <3>2. CASE m + 1 \notin T
        <4>1. T \in SUBSET (1..m)
          BY <3>2
        <4>2. h[T] = g[T]
          BY <3>2
        <4>3. g[T] = IF T = {} THEN base ELSE Op(g[T \ {Max(T)}], s[Max(T)])
          BY <2>1, <4>1 DEF Folding
        <4>4. T \ {Max(T)} \in SUBSET (1..m + 1) /\ m + 1 \notin T \ {Max(T)}
          BY <3>2
        <4>. QED BY <4>2, <4>3, <4>4
      <3>. QED BY <3>1, <3>2
    <2>3. Folding(base, s, m + 1, h)
      BY <2>2 DEF Folding
    <2>. QED BY <2>3
  <1>3. Nat \subseteq Good
    BY <1>1, <1>2, NatInduct
  <1>. QED BY <1>3

\* The fold, as a first-order operator.
Folded(base, s) == FoldLeft(Op, base, s)

\* run is what the fold of the n elements of s holds after each of them: Op made
\* it of what it held after the element before and that element.
Through(run, base, s, n) ==
    /\ run[0] = base
    /\ \A k \in 1..n : run[k] = Op(run[k - 1], s[k])
    /\ Folded(base, s) = run[n]

\* A left fold runs through the sequence once, from left to right.
THEOREM FoldRuns ==
    ASSUME NEW base, NEW s, NEW n \in Nat, DOMAIN s = 1..n
    PROVE  \E run : Through(run, base, s, n)
  <1>. DEFINE iter == CHOOSE g : Folding(base, s, n, g)
              run == [k \in 0..n |-> iter[1..k]]
  <1>1. Folded(base, s) = iter[1..n]
    BY DEF Folded, FoldLeft, MapThenFoldSet, Folding
  <1>2. Folding(base, s, n, iter)
    BY FoldingExists
  <1>. HIDE DEF iter
  <1>3. \A T \in SUBSET (1..n) :
            iter[T] = IF T = {} THEN base ELSE Op(iter[T \ {Max(T)}], s[Max(T)])
    BY <1>2 DEF Folding
  <1>4. \A k \in 0..n : run[k] = iter[1..k]
    OBVIOUS
  <1>. HIDE DEF run
  <1>6. run[0] = base
    <2>1. 1..0 = {} /\ {} \in SUBSET (1..n) /\ 0 \in 0..n
      OBVIOUS
    <2>. QED BY <1>3, <1>4, <2>1
  <1>7. ASSUME NEW k \in 1..n PROVE run[k] = Op(run[k - 1], s[k])
    <2>1. k \in Int /\ 1..k \in SUBSET (1..n) /\ k \in 1..k
      OBVIOUS
    <2>2. Max(1..k) \in 1..k /\ \A x \in 1..k : x <= Max(1..k)
      BY <2>1, 1 \in Int, MaxIs
    <2>3. Max(1..k) = k
      BY <2>1, <2>2
    <2>4. (1..k) \ {k} = 1..k - 1 /\ k \in 0..n /\ k - 1 \in 0..n
      OBVIOUS
    <2>5. iter[1..k] = Op(iter[(1..k) \ {Max(1..k)}], s[Max(1..k)])
      BY <1>3, <2>1
    <2>. QED BY <1>4, <2>3, <2>4, <2>5
  <1>8. run[n] = iter[1..n]
    BY <1>4
  <1>. QED BY <1>1, <1>6, <1>7, <1>8 DEF Through

\* One element more is one application more.
THEOREM FoldAppend ==
    ASSUME NEW base, NEW T, NEW s \in Seq(T), NEW x
    PROVE  /\ Folded(base, <<>>) = base
           /\ Folded(base, Append(s, x)) = Op(Folded(base, s), x)
  <1>. DEFINE o == Append(s, x)
  <1>1. PICK n \in Nat : n = Len(s)
    BY LenProperties
  <1>2. DOMAIN s = 1..n
    BY <1>1, LenProperties
  <1>3. o \in Seq(T \cup {x}) /\ s \in Seq(T \cup {x})
    BY SeqDef
  <1>4. DOMAIN o = 1..(n + 1) /\ o[n + 1] = x /\ \A i \in 1..n : o[i] = s[i]
    BY <1>1, <1>3, AppendProperties, LenProperties
  <1>. HIDE DEF o
  <1>5. PICK f : Through(f, base, s, n)
    BY <1>2, FoldRuns
  <1>6. PICK g : Through(g, base, o, n + 1)
    <2>1. n + 1 \in Nat
      OBVIOUS
    <2>. QED BY <1>4, <2>1, FoldRuns
  <1>. DEFINE Good == {k \in Nat : k <= n => f[k] = g[k]}
  <1>7. 0 \in Good
    BY <1>5, <1>6 DEF Through
  <1>8. ASSUME NEW k \in Nat, k \in Good PROVE k + 1 \in Good
    <2>. SUFFICES ASSUME k + 1 <= n PROVE f[k + 1] = g[k + 1]
      OBVIOUS
    <2>1. k + 1 \in 1..n /\ k + 1 \in 1..(n + 1) /\ (k + 1) - 1 = k /\ f[k] = g[k]
      BY <1>8
    <2>2. f[k + 1] = Op(f[k], s[k + 1])
      BY <1>5, <2>1 DEF Through
    <2>3. g[k + 1] = Op(g[k], o[k + 1])
      BY <1>6, <2>1 DEF Through
    <2>. QED BY <1>4, <2>1, <2>2, <2>3
  <1>9. f[n] = g[n]
    <2>1. n \in Good
      <3>. HIDE DEF Good
      <3>. QED BY <1>7, <1>8, NatInduct
    <2>. QED BY <2>1
  <1>10. g[n + 1] = Op(g[n], x)
    <2>1. n + 1 \in 1..(n + 1) /\ (n + 1) - 1 = n
      OBVIOUS
    <2>. QED BY <1>4, <1>6, <2>1 DEF Through
  <1>11. Folded(base, <<>>) = base
    <2>1. DOMAIN <<>> = 1..0 /\ 0 \in Nat
      OBVIOUS
    <2>2. PICK h : Through(h, base, <<>>, 0)
      BY <2>1, FoldRuns
    <2>. QED BY <2>2 DEF Through
  <1>. QED BY <1>5, <1>6, <1>9, <1>10, <1>11 DEF Through, o

-----------------------------------------------------------------------------
\* run is what a filter of the n elements of s holds after each of them.
Keeping(run, s, n, S) ==
    /\ run[0] = <<>>
    /\ \A k \in 1..n : run[k] = IF s[k] \in S THEN Append(run[k - 1], s[k]) ELSE run[k - 1]
    /\ Filter(s, S) = run[n]

\* A filter runs through the sequence once, too.
LEMMA FilterRuns ==
    ASSUME NEW s, NEW n \in Nat, Len(s) = n, NEW S
    PROVE  \E run : Keeping(run, s, n, S)
  <1>. DEFINE Keeps(m, g) == g = [k \in 0..m |-> IF k = 0 THEN <<>>
                                  ELSE IF s[k] \in S THEN Append(g[k - 1], s[k]) ELSE g[k - 1]]
              Good == {m \in Nat : \E g : Keeps(m, g)}
  <1>1. 0 \in Good
    <2>1. Keeps(0, [k \in 0..0 |-> <<>>])
      OBVIOUS
    <2>. QED BY <2>1
  <1>2. ASSUME NEW m \in Nat, m \in Good PROVE m + 1 \in Good
    <2>1. PICK g : Keeps(m, g)
      BY <1>2
    <2>. DEFINE h == [k \in 0..m + 1 |->
                        IF k <= m THEN g[k]
                        ELSE IF s[k] \in S THEN Append(g[k - 1], s[k]) ELSE g[k - 1]]
    <2>2. ASSUME NEW k \in 0..m + 1
          PROVE  h[k] = IF k = 0 THEN <<>>
                        ELSE IF s[k] \in S THEN Append(h[k - 1], s[k]) ELSE h[k - 1]
      <3>1. CASE k <= m
        <4>1. k \in 0..m /\ (k # 0 => k - 1 \in 0..m + 1 /\ k - 1 <= m)
          BY <3>1
        <4>. QED BY <2>1, <3>1, <4>1
      <3>2. CASE k = m + 1
        <4>1. k - 1 \in 0..m + 1 /\ k - 1 <= m /\ k # 0 /\ ~(k <= m)
          BY <3>2
        <4>. QED BY <4>1
      <3>. QED BY <3>1, <3>2
    <2>3. Keeps(m + 1, h)
      BY <2>2
    <2>. HIDE DEF Keeps, h
    <2>. QED BY <2>3
  <1>3. \A m \in Nat : m \in Good => m + 1 \in Good
    BY <1>2
  <1>4. n \in Good
    <2>. HIDE DEF Good
    <2>. QED BY <1>1, <1>3, NatInduct
  <1>. DEFINE run == CHOOSE g : Keeps(n, g)
  <1>5. Filter(s, S) = run[n]
    BY DEF Filter
  <1>6. Keeps(n, run)
    BY <1>4
  <1>. HIDE DEF run
  <1>7. \A k \in 0..n : run[k] = IF k = 0 THEN <<>>
                                 ELSE IF s[k] \in S THEN Append(run[k - 1], s[k]) ELSE run[k - 1]
    BY <1>6
  <1>8. run[0] = <<>>
    BY <1>7
  <1>9. \A k \in 1..n : run[k] = IF s[k] \in S THEN Append(run[k - 1], s[k]) ELSE run[k - 1]
    BY <1>7
  <1>. QED BY <1>5, <1>8, <1>9 DEF Keeping

\* f holds of s what is in S and nothing else.
Sifts(f, s, S) ==
    /\ \A k \in 1..Len(s) : s[k] \in S => \E j \in 1..Len(f) : f[j] = s[k]
    /\ \A j \in 1..Len(f) : \E k \in 1..Len(s) : s[k] \in S /\ f[j] = s[k]

\* What comes out: elements of the sequence that are in the set, and all of those.
LEMMA FilterElements ==
    ASSUME NEW T, NEW s \in Seq(T), NEW S
    PROVE  /\ Filter(s, S) \in Seq(T \cap S)
           /\ Sifts(Filter(s, S), s, S)
  <1>. DEFINE n == Len(s)
  <1>1. n \in Nat
    BY LenProperties
  <1>0. PICK run : Keeping(run, s, n, S)
    BY <1>1, FilterRuns
  <1>2. /\ run[0] = <<>>
        /\ \A k \in 1..n : run[k] = IF s[k] \in S THEN Append(run[k - 1], s[k]) ELSE run[k - 1]
        /\ Filter(s, S) = run[n]
    BY <1>0 DEF Keeping
  <1>3. \A k \in 1..n : s[k] \in T
    BY ElementOfSeq
  <1>. DEFINE Whole(m) ==
                 /\ run[m] \in Seq(T \cap S)
                 /\ \A k \in 1..m : s[k] \in S => \E j \in 1..Len(run[m]) : run[m][j] = s[k]
                 /\ \A j \in 1..Len(run[m]) : \E k \in 1..m : s[k] \in S /\ run[m][j] = s[k]
              Good == {m \in Nat : m <= n => Whole(m)}
  <1>4. 0 \in Good
    <2>1. run[0] \in Seq(T \cap S) /\ Len(run[0]) = 0
      BY <1>2
    <2>2. 1..0 = {} /\ 1..Len(run[0]) = {}
      BY <2>1
    <2>. QED BY <2>1, <2>2
  <1>5. ASSUME NEW m \in Nat, m \in Good, m + 1 <= n PROVE Whole(m + 1)
    <2>1. Whole(m) /\ m + 1 \in 1..n /\ (m + 1) - 1 = m
      BY <1>5
    <2>. DEFINE old == run[m]
                x == s[m + 1]
                new == run[m + 1]
    <2>2. new = IF x \in S THEN Append(old, x) ELSE old
      BY <1>2, <2>1
    <2>3. old \in Seq(T \cap S) /\ Len(old) \in Nat /\ x \in T
      BY <1>3, <2>1, LenProperties
    <2>4. CASE x \notin S
      <3>1. new = old
        BY <2>2, <2>4
      <3>2. \A k \in 1..m + 1 : k \in 1..m \/ k = m + 1
        OBVIOUS
      <3>. QED BY <2>1, <2>4, <3>1, <3>2
    <2>5. CASE x \in S
      <3>1. /\ new \in Seq(T \cap S) /\ Len(new) = Len(old) + 1 /\ new[Len(old) + 1] = x
            /\ \A j \in 1..Len(old) : new[j] = old[j]
        BY <2>2, <2>3, <2>5, AppendProperties
      <3>. HIDE DEF new, old, x
      <3>2. \A k \in 1..m + 1 : s[k] \in S => \E j \in 1..Len(new) : new[j] = s[k]
        <4>. SUFFICES ASSUME NEW k \in 1..m + 1, s[k] \in S
                      PROVE  \E j \in 1..Len(new) : new[j] = s[k]
          OBVIOUS
        <4>1. CASE k = m + 1
          <5>1. Len(old) + 1 \in 1..Len(new) /\ new[Len(old) + 1] = s[k]
            BY <2>3, <3>1, <4>1 DEF x
          <5>. QED BY <5>1
        <4>2. CASE k \in 1..m
          <5>1. PICK j \in 1..Len(old) : old[j] = s[k]
            BY <2>1, <4>2 DEF old
          <5>2. j \in 1..Len(new) /\ new[j] = s[k]
            BY <2>3, <3>1, <5>1
          <5>. QED BY <5>2
        <4>. QED BY <4>1, <4>2
      <3>3. \A j \in 1..Len(new) : \E k \in 1..m + 1 : s[k] \in S /\ new[j] = s[k]
        <4>. SUFFICES ASSUME NEW j \in 1..Len(new)
                      PROVE  \E k \in 1..m + 1 : s[k] \in S /\ new[j] = s[k]
          OBVIOUS
        <4>1. CASE j = Len(old) + 1
          <5>1. m + 1 \in 1..m + 1 /\ s[m + 1] \in S /\ new[j] = s[m + 1]
            BY <2>5, <3>1, <4>1 DEF x
          <5>. QED BY <5>1
        <4>2. CASE j \in 1..Len(old)
          <5>1. PICK k \in 1..m : s[k] \in S /\ old[j] = s[k]
            BY <2>1, <4>2 DEF old
          <5>2. k \in 1..m + 1 /\ new[j] = s[k]
            BY <3>1, <4>2, <5>1
          <5>. QED BY <5>1, <5>2
        <4>. QED BY <2>3, <3>1, <4>1, <4>2
      <3>. QED BY <3>1, <3>2, <3>3 DEF new
    <2>. QED BY <2>4, <2>5
  <1>6. \A m \in Nat : m \in Good => m + 1 \in Good
    BY <1>5
  <1>7. n \in Good
    <2>. HIDE DEF Good
    <2>. QED BY <1>1, <1>4, <1>6, NatInduct
  <1>8. Sifts(run[n], s, S)
    BY <1>1, <1>7 DEF Sifts
  <1>. QED BY <1>1, <1>2, <1>7, <1>8

\* Two sequences that begin alike are filtered alike as far as they do.
LEMMA FilterAppend ==
    ASSUME NEW T, NEW s \in Seq(T), NEW x \in T, NEW S
    PROVE  Filter(Append(s, x), S) = IF x \in S THEN Append(Filter(s, S), x) ELSE Filter(s, S)
  <1>. DEFINE n == Len(s)
              t == Append(s, x)
  <1>1. n \in Nat /\ Len(t) = n + 1 /\ t[n + 1] = x /\ \A k \in 1..n : t[k] = s[k]
    BY LenProperties, AppendProperties
  <1>. HIDE DEF t
  <1>a. PICK f : Keeping(f, s, n, S)
    BY <1>1, FilterRuns
  <1>b. PICK g : Keeping(g, t, n + 1, S)
    BY <1>1, FilterRuns
  <1>2. /\ f[0] = <<>>
        /\ \A k \in 1..n : f[k] = IF s[k] \in S THEN Append(f[k - 1], s[k]) ELSE f[k - 1]
        /\ Filter(s, S) = f[n]
    BY <1>a DEF Keeping
  <1>3. /\ g[0] = <<>>
        /\ \A k \in 1..n + 1 : g[k] = IF t[k] \in S THEN Append(g[k - 1], t[k]) ELSE g[k - 1]
        /\ Filter(t, S) = g[n + 1]
    BY <1>b DEF Keeping
  <1>. HIDE DEF n
  <1>. DEFINE Good == {k \in Nat : k <= n => g[k] = f[k]}
  <1>4. 0 \in Good
    BY <1>2, <1>3
  <1>5. \A k \in Nat : k \in Good => k + 1 \in Good
    <2>. SUFFICES ASSUME NEW k \in Nat, g[k] = f[k], k + 1 <= n PROVE g[k + 1] = f[k + 1]
      BY <1>1
    <2>1. k + 1 \in 1..n /\ k + 1 \in 1..n + 1 /\ (k + 1) - 1 = k
      BY <1>1
    <2>. QED BY <1>1, <1>2, <1>3, <2>1
  <1>6. g[n] = f[n]
    <2>1. n \in Good
      <3>. HIDE DEF Good
      <3>. QED BY <1>1, <1>4, <1>5, NatInduct
    <2>. QED BY <1>1, <2>1
  <1>7. n + 1 \in 1..n + 1 /\ (n + 1) - 1 = n
    BY <1>1
  <1>. QED BY <1>1, <1>2, <1>3, <1>6, <1>7 DEF t

\* A sequence of elements of the set is left as it is, one of others emptied.
LEMMA FilterAll ==
    ASSUME NEW S, NEW s \in Seq(S)
    PROVE  Filter(s, S) = s
  <1>. DEFINE n == Len(s)
  <1>1. n \in Nat /\ \A k \in 1..n : s[k] \in S
    BY LenProperties, ElementOfSeq
  <1>0. PICK run : Keeping(run, s, n, S)
    BY <1>1, FilterRuns
  <1>2. /\ run[0] = <<>>
        /\ \A k \in 1..n : run[k] = IF s[k] \in S THEN Append(run[k - 1], s[k]) ELSE run[k - 1]
        /\ Filter(s, S) = run[n]
    BY <1>0 DEF Keeping
  <1>. DEFINE Good == {k \in Nat : k <= n =>
                          /\ run[k] \in Seq(S) /\ Len(run[k]) = k
                          /\ \A j \in 1..k : run[k][j] = s[j]}
  <1>3. 0 \in Good
    <2>1. run[0] \in Seq(S) /\ Len(run[0]) = 0 /\ 1..0 = {}
      BY <1>2
    <2>. QED BY <2>1
  <1>4. \A k \in Nat : k \in Good => k + 1 \in Good
    <2>. SUFFICES ASSUME NEW k \in Nat, k + 1 <= n,
                         run[k] \in Seq(S), Len(run[k]) = k, \A j \in 1..k : run[k][j] = s[j]
                  PROVE  /\ run[k + 1] \in Seq(S) /\ Len(run[k + 1]) = k + 1
                         /\ \A j \in 1..k + 1 : run[k + 1][j] = s[j]
      BY <1>1
    <2>1. k + 1 \in 1..n /\ (k + 1) - 1 = k
      BY <1>1
    <2>2. run[k + 1] = Append(run[k], s[k + 1]) /\ s[k + 1] \in S
      BY <1>1, <1>2, <2>1
    <2>3. /\ run[k + 1] \in Seq(S) /\ Len(run[k + 1]) = k + 1 /\ run[k + 1][k + 1] = s[k + 1]
          /\ \A j \in 1..k : run[k + 1][j] = run[k][j]
      BY <2>2, AppendProperties
    <2>4. \A j \in 1..k + 1 : j \in 1..k \/ j = k + 1
      OBVIOUS
    <2>. QED BY <2>3, <2>4
  <1>5. n \in Good
    <2>. HIDE DEF Good
    <2>. QED BY <1>1, <1>3, <1>4, NatInduct
  <1>6. /\ run[n] \in Seq(S) /\ Len(run[n]) = Len(s)
        /\ \A j \in 1..Len(s) : run[n][j] = s[j]
    BY <1>1, <1>5
  <1>. QED BY <1>2, <1>6, SeqEqual

\* Nothing is left of a sequence of others.
LEMMA FilterNone ==
    ASSUME NEW T, NEW s \in Seq(T), NEW S, T \cap S = {}
    PROVE  Filter(s, S) = <<>>
  <1>1. Filter(s, S) \in Seq({})
    BY FilterElements
  <1>2. Len(Filter(s, S)) = 0
    <2>1. Len(Filter(s, S)) \in Nat
          /\ \A k \in 1..Len(Filter(s, S)) : Filter(s, S)[k] \in {}
      BY <1>1, LenProperties, ElementOfSeq
    <2>. QED BY <2>1
  <1>. QED BY <1>1, <1>2, EmptySeq

\* Any two elements of a sequence, the earlier one first, are a pair of R.
Falls(s, R) == \A i, j \in 1..Len(s) : i < j => <<s[i], s[j]>> \in R

\* A filter keeps the order of what it keeps.
LEMMA FilterFalls ==
    ASSUME NEW T, NEW s \in Seq(T), NEW S, NEW R, Falls(s, R)
    PROVE  Falls(Filter(s, S), R)
  <1>. DEFINE n == Len(s)
  <1>1. n \in Nat
    BY LenProperties
  <1>0. PICK run : Keeping(run, s, n, S)
    BY <1>1, FilterRuns
  <1>2. /\ run[0] = <<>>
        /\ \A k \in 1..n : run[k] = IF s[k] \in S THEN Append(run[k - 1], s[k]) ELSE run[k - 1]
        /\ Filter(s, S) = run[n]
    BY <1>0 DEF Keeping
  <1>3. \A k \in 1..n : s[k] \in T
    BY ElementOfSeq
  <1>. DEFINE Whole(m) ==
                 /\ run[m] \in Seq(T) /\ Falls(run[m], R)
                 /\ \A j \in 1..Len(run[m]) : \E k \in 1..m : run[m][j] = s[k]
              Good == {m \in Nat : m <= n => Whole(m)}
  <1>4. 0 \in Good
    <2>1. run[0] \in Seq(T) /\ Len(run[0]) = 0 /\ 1..0 = {}
      BY <1>2
    <2>. QED BY <2>1 DEF Falls
  <1>5. ASSUME NEW m \in Nat, m \in Good, m + 1 <= n PROVE Whole(m + 1)
    <2>1. Whole(m) /\ m + 1 \in 1..n /\ (m + 1) - 1 = m
      BY <1>5
    <2>. DEFINE old == run[m]
                x == s[m + 1]
                new == run[m + 1]
    <2>2. new = IF x \in S THEN Append(old, x) ELSE old
      BY <1>2, <2>1
    <2>3. old \in Seq(T) /\ Len(old) \in Nat /\ x \in T
      BY <1>3, <2>1, LenProperties
    <2>4. /\ Falls(old, R)
          /\ \A j \in 1..Len(old) : \E k \in 1..m : old[j] = s[k]
      BY <2>1
    <2>5. CASE x \notin S
      <3>1. new = old
        BY <2>2, <2>5
      <3>2. \A k \in 1..m : k \in 1..m + 1
        OBVIOUS
      <3>. QED BY <2>3, <2>4, <3>1, <3>2
    <2>6. CASE x \in S
      <3>1. /\ new \in Seq(T) /\ Len(new) = Len(old) + 1 /\ new[Len(old) + 1] = x
            /\ \A j \in 1..Len(old) : new[j] = old[j]
        BY <2>2, <2>3, <2>6, AppendProperties
      <3>. HIDE DEF new, old
      <3>2. \A j \in 1..Len(new) : \E k \in 1..m + 1 : new[j] = s[k]
        <4>. SUFFICES ASSUME NEW j \in 1..Len(new)
                      PROVE  \E k \in 1..m + 1 : new[j] = s[k]
          OBVIOUS
        <4>1. CASE j = Len(old) + 1
          BY <3>1, <4>1
        <4>2. CASE j \in 1..Len(old)
          <5>1. PICK k \in 1..m : old[j] = s[k]
            BY <2>4, <4>2
          <5>2. k \in 1..m + 1 /\ new[j] = s[k]
            BY <3>1, <4>2, <5>1
          <5>. QED BY <5>2
        <4>. QED BY <2>3, <3>1, <4>1, <4>2
      <3>3. Falls(new, R)
        <4>. SUFFICES ASSUME NEW i \in 1..Len(new), NEW j \in 1..Len(new), i < j
                      PROVE  <<new[i], new[j]>> \in R
          BY DEF Falls
        <4>1. i \in 1..Len(old)
          BY <2>3, <3>1
        <4>2. CASE j \in 1..Len(old)
          BY <2>4, <3>1, <4>1, <4>2 DEF Falls
        <4>3. CASE j = Len(old) + 1
          <5>1. PICK k \in 1..m : old[i] = s[k]
            BY <2>4, <4>1
          <5>2. k \in 1..n /\ m + 1 \in 1..n /\ k < m + 1
            BY <1>1, <2>1, <5>1
          <5>3. <<s[k], s[m + 1]>> \in R
            BY <5>2 DEF Falls
          <5>. QED BY <3>1, <4>1, <4>3, <5>1, <5>3
        <4>. QED BY <2>3, <3>1, <4>2, <4>3
      <3>. QED BY <3>1, <3>2, <3>3 DEF new
    <2>. QED BY <2>5, <2>6
  <1>6. \A m \in Nat : m \in Good => m + 1 \in Good
    <2>. HIDE DEF Whole
    <2>. QED BY <1>5
  <1>7. Whole(n)
    <2>1. n \in Good
      <3>. HIDE DEF Good
      <3>. QED BY <1>1, <1>4, <1>6, NatInduct
    <2>. HIDE DEF Whole
    <2>. QED BY <1>1, <2>1
  <1>. QED BY <1>2, <1>7

-----------------------------------------------------------------------------
\* Sequences of elements of a set flatten to one of such elements.
LEMMA FlattenElements ==
    ASSUME NEW T, NEW seqs \in Seq(Seq(T))
    PROVE  FlattenSeq(seqs) \in Seq(T)
  <1>. DEFINE n == Len(seqs)
              Keeps(m, g) == g = [k \in 1..m |-> IF k = 1 THEN seqs[k] ELSE g[k - 1] \o seqs[k]]
              Whole(m) == \E g : Keeps(m, g) /\ \A k \in 1..m : g[k] \in Seq(T)
              Good == {m \in Nat : m <= n => Whole(m)}
  <1>1. n \in Nat /\ \A k \in 1..n : seqs[k] \in Seq(T)
    BY LenProperties, ElementOfSeq
  <1>2. 0 \in Good
    <2>1. Keeps(0, [k \in 1..0 |-> <<>>]) /\ 1..0 = {}
      OBVIOUS
    <2>. QED BY <2>1
  <1>3. ASSUME NEW m \in Nat, m \in Good, m + 1 <= n PROVE Whole(m + 1)
    <2>0. Whole(m)
      <3>. HIDE DEF Whole, n
      <3>. QED BY <1>1, <1>3
    <2>1. PICK g : Keeps(m, g) /\ \A k \in 1..m : g[k] \in Seq(T)
      <3>. HIDE DEF Keeps
      <3>. QED BY <2>0
    <2>. DEFINE h == [k \in 1..m + 1 |->
                        IF k <= m THEN g[k]
                        ELSE IF k = 1 THEN seqs[k] ELSE g[k - 1] \o seqs[k]]
    <2>2. ASSUME NEW k \in 1..m + 1
          PROVE  /\ h[k] = IF k = 1 THEN seqs[k] ELSE h[k - 1] \o seqs[k]
                 /\ h[k] \in Seq(T)
      <3>1. seqs[k] \in Seq(T)
        BY <1>1, <1>3
      <3>2. CASE k <= m
        <4>1. k \in 1..m /\ (k # 1 => k - 1 \in 1..m + 1 /\ k - 1 <= m)
          BY <3>2
        <4>. QED BY <2>1, <3>2, <4>1
      <3>3. CASE k = m + 1
        <4>1. ~(k <= m) /\ (k # 1 => k - 1 \in 1..m + 1 /\ k - 1 \in 1..m /\ k - 1 <= m)
          BY <3>3
        <4>2. k # 1 => g[k - 1] \o seqs[k] \in Seq(T)
          BY <2>1, <3>1, <4>1, ConcatProperties
        <4>. QED BY <3>1, <4>1, <4>2
      <3>. QED BY <3>2, <3>3
    <2>3. Keeps(m + 1, h) /\ \A k \in 1..m + 1 : h[k] \in Seq(T)
      BY <2>2
    <2>. HIDE DEF Keeps, h
    <2>. QED BY <2>3
  <1>4. \A m \in Nat : m \in Good => m + 1 \in Good
    <2>. HIDE DEF Whole
    <2>. QED BY <1>3
  <1>5. Whole(n)
    <2>1. n \in Good
      <3>. HIDE DEF Good
      <3>. QED BY <1>1, <1>2, <1>4, NatInduct
    <2>. HIDE DEF Whole
    <2>. QED BY <1>1, <2>1
  <1>6. CASE n = 0
    <2>1. FlattenSeq(seqs) = seqs /\ seqs = <<>>
      BY <1>6, EmptySeq DEF FlattenSeq
    <2>. QED BY <2>1, EmptySeq
  <1>7. CASE n # 0
    <2>. DEFINE flat == CHOOSE g : Keeps(n, g)
    <2>1. FlattenSeq(seqs) = flat[n]
      BY <1>7 DEF FlattenSeq
    <2>2. PICK g : Keeps(n, g)
      <3>. HIDE DEF Keeps
      <3>. QED BY <1>5
    <2>3. Keeps(n, flat)
      BY <2>2
    <2>. HIDE DEF flat
    <2>. DEFINE Same == {m \in Nat : m + 1 <= n => flat[m + 1] \in Seq(T)}
    <2>4. 0 \in Same
      BY <1>1, <1>7, <2>3
    <2>5. \A m \in Nat : m \in Same => m + 1 \in Same
      <3>. SUFFICES ASSUME NEW m \in Nat, flat[m + 1] \in Seq(T), m + 2 <= n
                    PROVE  flat[m + 2] \in Seq(T)
        BY <1>1
      <3>1. m + 2 \in 1..n /\ m + 2 # 1 /\ (m + 2) - 1 = m + 1
        BY <1>1
      <3>2. flat[m + 2] = flat[m + 1] \o seqs[m + 2]
        BY <2>3, <3>1
      <3>. QED BY <1>1, <3>1, <3>2, ConcatProperties
    <2>6. n - 1 \in Same /\ n - 1 \in Nat /\ (n - 1) + 1 = n
      <3>1. n - 1 \in Nat /\ (n - 1) + 1 = n
        BY <1>1, <1>7
      <3>. HIDE DEF Same
      <3>. QED BY <3>1, <2>4, <2>5, NatInduct
    <2>. QED BY <2>1, <2>6
  <1>. QED BY <1>6, <1>7

-----------------------------------------------------------------------------
\* R puts the elements of S in a line.
Linear(R, S) ==
    /\ \A x \in S : <<x, x>> \notin R
    /\ \A x, y \in S : x = y \/ <<x, y>> \in R \/ <<y, x>> \in R
    /\ \A x, y, z \in S : <<x, y>> \in R /\ <<y, z>> \in R => <<x, z>> \in R

\* q is that line, of n elements.
Lined(q, S, R, n) ==
    /\ q \in Seq(S) /\ Len(q) = n
    /\ \A x \in S : \E k \in 1..n : q[k] = x
    /\ Falls(q, R)

\* What ranks the elements of S from 0 to n - 1 along R puts them in that line.
LEMMA RankedLine ==
    ASSUME NEW S, IsFiniteSet(S), NEW R, Linear(R, S), NEW n \in Nat, n = Cardinality(S),
           NEW rank \in [S -> 0..(n - 1)],
           \A x, y \in S : <<x, y>> \in R => rank[x] < rank[y],
           NEW q, q = [k \in 1..n |-> CHOOSE x \in S : rank[x] = k - 1]
    PROVE  Lined(q, S, R, n)
  <1>1. ASSUME NEW x \in S, NEW y \in S, rank[x] = rank[y] PROVE x = y
    <2>1. rank[x] \in Int /\ rank[y] \in Int /\ ~(rank[x] < rank[y]) /\ ~(rank[y] < rank[x])
      BY <1>1
    <2>2. <<x, y>> \notin R /\ <<y, x>> \notin R
      BY ONLY <2>1, \A u, v \in S : <<u, v>> \in R => rank[u] < rank[v]
    <2>. QED BY <2>2 DEF Linear
  <1>2. \A k \in 1..n : \E x \in S : rank[x] = k - 1
    <2>1. rank \in Injection(S, 0..(n - 1))
      BY <1>1 DEF Injection, IsInjective
    <2>2. IsFiniteSet(0..(n - 1)) /\ Cardinality(0..(n - 1)) = n
      <3>1. 0 \in Int /\ n - 1 \in Int
        OBVIOUS
      <3>2. IsFiniteSet(0..(n - 1)) /\ Cardinality(0..(n - 1)) = IF 0 > n - 1 THEN 0 ELSE (n - 1) - 0 + 1
        BY ONLY <3>1, FS_Interval
      <3>. QED BY <3>2
    <2>3. rank \in Surjection(S, 0..(n - 1))
      BY <2>1, <2>2, FS_Injection
    <2>. QED BY <2>3 DEF Surjection
  <1>3. \A k \in 1..n : q[k] \in S /\ rank[q[k]] = k - 1
    BY <1>2
  <1>4. q \in Seq(S) /\ Len(q) = n
    <2>1. q \in [1..n -> S]
      BY <1>3
    <2>. QED BY ONLY <2>1, n \in Nat, SeqDef, LenProperties
  <1>5. ASSUME NEW x \in S PROVE \E k \in 1..n : q[k] = x
    <2>1. rank[x] + 1 \in 1..n
      OBVIOUS
    <2>2. q[rank[x] + 1] \in S /\ rank[q[rank[x] + 1]] = rank[x]
      BY <1>3, <2>1
    <2>. QED BY <1>1, <2>1, <2>2
  <1>6. ASSUME NEW i \in 1..n, NEW j \in 1..n, i < j PROVE <<q[i], q[j]>> \in R
    <2>1. q[i] \in S /\ rank[q[i]] = i - 1 /\ q[j] \in S /\ rank[q[j]] = j - 1
      BY <1>3
    <2>2. q[i] # q[j] /\ ~(rank[q[j]] < rank[q[i]])
      BY <1>6, <2>1
    <2>. QED BY <2>1, <2>2 DEF Linear
  <1>. QED BY <1>4, <1>5, <1>6 DEF Lined, Falls

\* A sort of a finite set is its line.
THEOREM SortedIs ==
    ASSUME NEW S, IsFiniteSet(S), NEW R, Linear(R, S)
    PROVE  Cardinality(S) \in Nat /\ Lined(Sorted(S, R), S, R, Cardinality(S))
  <1>. DEFINE n == Cardinality(S)
              before(x) == {y \in S : <<y, x>> \in R}
              rank == [x \in S |-> Cardinality(before(x))]
  <1>1. n \in Nat
    BY FS_CardinalityType
  <1>2. ASSUME NEW x \in S
        PROVE  IsFiniteSet(before(x)) /\ Cardinality(before(x)) \in 0..(n - 1)
    <2>1. IsFiniteSet(S \ {x}) /\ Cardinality(S \ {x}) = n - 1
      BY FS_RemoveElement
    <2>2. before(x) \subseteq S \ {x}
      BY DEF Linear
    <2>. DEFINE B == before(x)
                A == S \ {x}
    <2>3. IsFiniteSet(B) /\ Cardinality(B) <= Cardinality(A)
      <3>. HIDE DEF A, B
      <3>. QED BY <2>1, <2>2, FS_Subset DEF A, B
    <2>4. Cardinality(B) \in Nat
      <3>. HIDE DEF B
      <3>. QED BY <2>3, FS_CardinalityType
    <2>. HIDE DEF before
    <2>. QED BY <1>1, <2>1, <2>3, <2>4
  <1>3. ASSUME NEW x \in S, NEW y \in S, <<x, y>> \in R
        PROVE  Cardinality(before(x)) < Cardinality(before(y))
    <2>. DEFINE A == before(x)
                B == before(y)
    <2>1. A \subseteq B /\ x \in B /\ x \notin A
      BY <1>3 DEF Linear
    <2>2. /\ IsFiniteSet(A) /\ IsFiniteSet(B)
          /\ Cardinality(A) \in Nat /\ Cardinality(B) \in Nat
      <3>. HIDE DEF before
      <3>. QED BY <1>1, <1>2
    <2>. HIDE DEF A, B
    <2>3. Cardinality(A) <= Cardinality(B) /\ Cardinality(A) # Cardinality(B)
      BY <2>1, <2>2, FS_Subset
    <2>4. Cardinality(A) < Cardinality(B)
      BY <2>2, <2>3
    <2>. QED BY <2>4 DEF A, B
  <1>4. rank \in [S -> 0..(n - 1)] /\ \A x \in S : rank[x] = Cardinality(before(x))
    <2>. HIDE DEF before, n
    <2>. QED BY <1>2
  <1>5. \A x, y \in S : <<x, y>> \in R => rank[x] < rank[y]
    <2>. HIDE DEF before, rank
    <2>. QED BY <1>3, <1>4
  <1>6. Sorted(S, R) = [k \in 1..n |-> CHOOSE x \in S : rank[x] = k - 1]
    BY DEF Sorted
  <1>. HIDE DEF rank
  <1>7. Lined(Sorted(S, R), S, R, n)
    BY <1>1, <1>4, <1>5, <1>6, RankedLine
  <1>. QED BY <1>1, <1>7

\* The places of a line are in its order, one for each element.
InOrder(q, S, R, n) ==
    /\ \A i \in 1..n : q[i] \in S
    /\ \A i, j \in 1..n : q[i] = q[j] => i = j
    /\ \A i, j \in 1..n : <<q[i], q[j]>> \in R <=> i < j

LEMMA LinedInOrder ==
    ASSUME NEW S, NEW R, Linear(R, S), NEW n \in Nat, NEW q, Lined(q, S, R, n)
    PROVE  InOrder(q, S, R, n)
  <1>1. \A i \in 1..n : q[i] \in S
    BY ElementOfSeq DEF Lined
  <1>2. ASSUME NEW i \in 1..n, NEW j \in 1..n, i < j
        PROVE  <<q[i], q[j]>> \in R /\ <<q[j], q[i]>> \notin R /\ q[i] # q[j]
    <2>1. <<q[i], q[j]>> \in R
      BY <1>2 DEF Lined, Falls
    <2>2. q[i] # q[j]
      BY <1>1, <2>1 DEF Linear
    <2>3. <<q[j], q[i]>> \in R => <<q[i], q[i]>> \in R
      BY <1>1, <2>1 DEF Linear
    <2>. QED BY <1>1, <2>1, <2>2, <2>3 DEF Linear
  <1>3. ASSUME NEW i \in 1..n PROVE <<q[i], q[i]>> \notin R
    BY <1>1 DEF Linear
  <1>4. \A i, j \in 1..n : i < j \/ i = j \/ j < i
    OBVIOUS
  <1>5. \A i, j \in 1..n : q[i] = q[j] => i = j
    BY <1>2, <1>4
  <1>6. ASSUME NEW i \in 1..n, NEW j \in 1..n PROVE <<q[i], q[j]>> \in R <=> i < j
    <2>1. CASE i < j
      BY <1>2, <2>1
    <2>2. CASE i = j
      BY <1>3, <2>2
    <2>3. CASE j < i
      <3>1. ~(i < j)
        BY <2>3
      <3>. QED BY <1>2, <2>3, <3>1
    <2>. QED BY <1>4, <2>1, <2>2, <2>3
  <1>. QED BY <1>1, <1>5, <1>6 DEF InOrder

\* A set in a line is finite, as many as the line is long, and n - k of them are
\* behind the k-th.
LEMMA LinedCount ==
    ASSUME NEW S, NEW R, Linear(R, S), NEW n \in Nat, NEW q, Lined(q, S, R, n)
    PROVE  IsFiniteSet(S) /\ Cardinality(S) = n
  <1>1. InOrder(q, S, R, n)
    BY LinedInOrder
  <1>. DEFINE f == [k \in 1..n |-> q[k]]
  <1>2. f \in [1..n -> S] /\ \A k \in 1..n : f[k] = q[k]
    BY <1>1 DEF InOrder
  <1>. HIDE DEF f
  <1>3. f \in Bijection(1..n, S)
    <2>1. f \in Injection(1..n, S)
      BY <1>1, <1>2 DEF InOrder, Injection, IsInjective
    <2>2. f \in Surjection(1..n, S)
      BY <1>2 DEF Lined, Surjection
    <2>. QED BY <2>1, <2>2 DEF Bijection
  <1>4. ExistsBijection(1..n, S)
    BY <1>3 DEF ExistsBijection
  <1>. QED BY <1>4, FS_NatBijection, FS_CountingElements

LEMMA LinedBehind ==
    ASSUME NEW S, NEW R, Linear(R, S), NEW n \in Nat, NEW q, Lined(q, S, R, n), NEW k \in 1..n
    PROVE  Cardinality({y \in S : <<q[k], y>> \in R}) = n - k
  <1>1. InOrder(q, S, R, n)
    BY LinedInOrder
  <1>. DEFINE rest == {y \in S : <<q[k], y>> \in R}
              f == [j \in (k + 1)..n |-> q[j]]
  <1>2. \A j \in (k + 1)..n : j \in 1..n /\ k < j
    OBVIOUS
  <1>3. f \in [(k + 1)..n -> rest] /\ \A j \in (k + 1)..n : f[j] = q[j]
    BY <1>1, <1>2 DEF InOrder
  <1>4. \A y \in rest : \E j \in (k + 1)..n : q[j] = y
    <2>. SUFFICES ASSUME NEW y \in S, <<q[k], y>> \in R PROVE \E j \in (k + 1)..n : q[j] = y
      OBVIOUS
    <2>1. PICK j \in 1..n : q[j] = y
      BY DEF Lined
    <2>2. k < j
      BY <1>1, <2>1 DEF InOrder
    <2>. QED BY <2>1, <2>2
  <1>. HIDE DEF f, rest
  <1>5. f \in Bijection((k + 1)..n, rest)
    <2>1. f \in Injection((k + 1)..n, rest)
      BY <1>1, <1>2, <1>3 DEF InOrder, Injection, IsInjective
    <2>2. f \in Surjection((k + 1)..n, rest)
      BY <1>3, <1>4 DEF Surjection
    <2>. QED BY <2>1, <2>2 DEF Bijection
  <1>6. IsFiniteSet((k + 1)..n) /\ Cardinality((k + 1)..n) = n - k
    <2>1. k + 1 \in Int /\ n \in Int /\ k \in Int /\ k <= n
      OBVIOUS
    <2>2. /\ IsFiniteSet((k + 1)..n)
          /\ Cardinality((k + 1)..n) = IF k + 1 > n THEN 0 ELSE n - (k + 1) + 1
      BY ONLY <2>1, FS_Interval
    <2>. QED BY <2>1, <2>2
  <1>7. ExistsBijection((k + 1)..n, rest)
    BY <1>5 DEF ExistsBijection
  <1>8. Cardinality(rest) = n - k
    BY <1>6, <1>7, FS_Bijection
  <1>. QED BY <1>8 DEF rest

-----------------------------------------------------------------------------
\* Sums of a function's values over a finite set of places: g[T] is the sum over T,
\* in whatever order.
Adds(f, S, g) ==
    /\ DOMAIN g = SUBSET S
    /\ g[{}] = 0
    /\ \A T \in SUBSET S : g[T] \in Int /\ \A x \in T : g[T] = f[x] + g[T \ {x}]

\* A set of m + 1 places has one, and m others.
LEMMA OneLess ==
    ASSUME NEW S, IsFiniteSet(S), NEW T \in SUBSET S, NEW m \in Nat, Cardinality(T) = m + 1
    PROVE  T # {} /\ \A x \in T : T \ {x} \in SUBSET S /\ Cardinality(T \ {x}) = m
  <1>1. IsFiniteSet(T)
    BY FS_Subset
  <1>2. T # {}
    <2>1. Cardinality(T) # 0
      OBVIOUS
    <2>. QED BY <1>1, <2>1, FS_EmptySet
  <1>3. ASSUME NEW x \in T PROVE T \ {x} \in SUBSET S /\ Cardinality(T \ {x}) = m
    <2>1. Cardinality(T \ {x}) = Cardinality(T) - 1
      BY <1>1, FS_RemoveElement
    <2>. QED BY <2>1
  <1>. QED BY <1>2, <1>3

\* Every function has its sums over a finite set of places.
LEMMA SumsExist ==
    ASSUME NEW S, IsFiniteSet(S), NEW f, \A x \in S : f[x] \in Int
    PROVE  \E g : Adds(f, S, g)
  <1>. DEFINE Good == {m \in Nat : \A T \in SUBSET S : Cardinality(T) = m => \E g : Adds(f, T, g)}
  <1>1. \A T \in SUBSET S : IsFiniteSet(T) /\ Cardinality(T) \in Nat
    BY FS_Subset, FS_CardinalityType
  <1>2. 0 \in Good
    <2>. SUFFICES ASSUME NEW T \in SUBSET S, Cardinality(T) = 0 PROVE \E g : Adds(f, T, g)
      OBVIOUS
    <2>1. T = {}
      BY <1>1, FS_EmptySet
    <2>2. Adds(f, T, [U \in SUBSET T |-> 0])
      BY <2>1 DEF Adds
    <2>. QED BY <2>2
  <1>3. ASSUME NEW m \in Nat, m \in Good, NEW T \in SUBSET S, Cardinality(T) = m + 1
        PROVE  \E g : Adds(f, T, g)
    <2>1. PICK x : x \in T
      <3>1. Cardinality(T) # 0
        BY <1>3
      <3>. QED BY <3>1, <1>1, FS_EmptySet
    <2>. DEFINE R == T \ {x}
    <2>2. R \in SUBSET S /\ Cardinality(R) = m
      BY <1>1, <1>3, <2>1, FS_RemoveElement
    <2>3. PICK g : Adds(f, R, g)
      BY <1>3, <2>2
    <2>4. /\ DOMAIN g = SUBSET R /\ g[{}] = 0
          /\ \A U \in SUBSET R : g[U] \in Int
          /\ \A U \in SUBSET R : \A y \in U : g[U] = f[y] + g[U \ {y}]
      BY <2>3 DEF Adds
    <2>. DEFINE h == [U \in SUBSET T |-> IF x \in U THEN f[x] + g[U \ {x}] ELSE g[U]]
    <2>5. h[{}] = 0 /\ DOMAIN h = SUBSET T
      <3>1. {} \in SUBSET T /\ x \notin {}
        OBVIOUS
      <3>. QED BY <2>4, <3>1
    <2>6. ASSUME NEW U \in SUBSET T PROVE h[U] \in Int
      <3>1. f[x] \in Int
        BY <2>1
      <3>2. U \ {x} \in SUBSET R /\ (x \notin U => U \in SUBSET R)
        OBVIOUS
      <3>. QED BY <2>4, <3>1, <3>2
    <2>7. ASSUME NEW U \in SUBSET T, NEW y \in U PROVE h[U] = f[y] + h[U \ {y}]
      <3>1. U \ {y} \in SUBSET T /\ U \ {x} \in SUBSET R /\ f[x] \in Int /\ f[y] \in Int
        BY <2>1
      <3>2. CASE x \notin U
        <4>1. U \in SUBSET R /\ x \notin U \ {y}
          BY <3>2
        <4>. QED BY <2>4, <3>1, <3>2, <4>1
      <3>3. CASE x \in U /\ x = y
        <4>1. x \notin U \ {y} /\ U \ {y} = U \ {x}
          BY <3>3
        <4>. QED BY <3>1, <3>3, <4>1
      <3>4. CASE x \in U /\ x # y
        <4>1. y \in U \ {x} /\ x \in U \ {y} /\ (U \ {x}) \ {y} = (U \ {y}) \ {x}
          BY <3>4
        <4>2. g[U \ {x}] = f[y] + g[(U \ {x}) \ {y}]
          BY <2>4, <3>1, <4>1
        <4>3. h[U] = f[x] + g[U \ {x}] /\ h[U \ {y}] = f[x] + g[(U \ {y}) \ {x}]
          BY <3>1, <3>4, <4>1
        <4>4. (U \ {x}) \ {y} \in SUBSET R
          BY <3>1
        <4>. QED BY <2>4, <3>1, <4>1, <4>2, <4>3, <4>4
      <3>. QED BY <3>2, <3>3, <3>4
    <2>. HIDE DEF h
    <2>8. Adds(f, T, h)
      BY <2>5, <2>6, <2>7 DEF Adds
    <2>. QED BY <2>8
  <1>4. \A m \in Nat : m \in Good => m + 1 \in Good
    BY <1>3
  <1>5. Cardinality(S) \in Good
    <2>. HIDE DEF Good
    <2>. QED BY <1>1, <1>2, <1>4, NatInduct
  <1>. QED BY <1>5

\* The sum of the community modules, and what it is.
Total(f, S) == SumFunctionOnSet(f, S)

\* The sum of the community modules is such a sum, over any part of the places.
LEMMA SumIs ==
    ASSUME NEW S, IsFiniteSet(S), NEW f, \A x \in S : f[x] \in Int, NEW g, NEW U, S \subseteq U,
           Adds(f, U, g)
    PROVE  Total(f, S) = g[S]
  <1>. DEFINE pick(s) == CHOOSE x \in s : TRUE
              Runs(h) == h = [T \in SUBSET S |->
                                IF T = {} THEN 0 ELSE f[pick(T)] + h[T \ {pick(T)}]]
              iter == CHOOSE h : Runs(h)
              own == [T \in SUBSET S |-> g[T]]
  <1>1. Total(f, S) = iter[S]
    BY DEF Total, SumFunctionOnSet, FoldFunctionOnSet, MapThenFoldSet
  <1>2. \A T \in SUBSET S : T # {} => pick(T) \in T
    OBVIOUS
  <1>. HIDE DEF pick
  <1>3. Runs(own)
    <2>. SUFFICES ASSUME NEW T \in SUBSET S
                  PROVE  own[T] = IF T = {} THEN 0 ELSE f[pick(T)] + own[T \ {pick(T)}]
      OBVIOUS
    <2>1. T \ {pick(T)} \in SUBSET S /\ T \in SUBSET U
      OBVIOUS
    <2>. QED BY <1>2, <2>1 DEF Adds
  <1>4. Runs(iter)
    <2>. HIDE DEF Runs
    <2>. QED BY <1>3
  <1>. HIDE DEF iter
  <1>. DEFINE Good == {m \in Nat : \A T \in SUBSET S : Cardinality(T) = m => iter[T] = g[T]}
  <1>5. \A T \in SUBSET S : IsFiniteSet(T) /\ Cardinality(T) \in Nat
    BY FS_Subset, FS_CardinalityType
  <1>6. 0 \in Good
    <2>. SUFFICES ASSUME NEW T \in SUBSET S, Cardinality(T) = 0 PROVE iter[T] = g[T]
      OBVIOUS
    <2>1. T = {}
      BY <1>5, FS_EmptySet
    <2>. QED BY <1>4, <2>1 DEF Adds
  <1>7. ASSUME NEW m \in Nat, m \in Good, NEW T \in SUBSET S, Cardinality(T) = m + 1
        PROVE  iter[T] = g[T]
    <2>1. T # {}
      <3>1. Cardinality(T) # 0
        BY <1>7
      <3>. QED BY <3>1, FS_EmptySet
    <2>2. PICK x \in T : x = pick(T)
      BY <1>2, <2>1
    <2>3. T \ {x} \in SUBSET S /\ Cardinality(T \ {x}) = m
      BY <1>7, OneLess
    <2>4. iter[T \ {x}] = g[T \ {x}]
      BY <1>7, <2>3
    <2>5. iter[T] = f[x] + iter[T \ {x}]
      BY <1>4, <2>1, <2>2
    <2>6. g[T] = f[x] + g[T \ {x}]
      BY DEF Adds
    <2>. QED BY <2>4, <2>5, <2>6
  <1>8. \A m \in Nat : m \in Good => m + 1 \in Good
    BY <1>7
  <1>9. Cardinality(S) \in Good
    <2>. HIDE DEF Good
    <2>. QED BY <1>5, <1>6, <1>8, NatInduct
  <1>. QED BY <1>1, <1>9

\* A finite set of places that f gives whole numbers to.
Numbers(f, S) == IsFiniteSet(S) /\ \A x \in S : f[x] \in Int

\* Nothing sums to nothing, one place more adds its value, and only the places
\* summed over matter.
THEOREM SumAdd ==
    ASSUME NEW S, NEW f, Numbers(f, S)
    PROVE  /\ Total(f, S) \in Int
           /\ S = {} => Total(f, S) = 0
           /\ \A x \in S : Total(f, S) = f[x] + Total(f, S \ {x})
  <1>. USE DEF Numbers
  <1>1. PICK g : Adds(f, S, g)
    BY SumsExist
  <1>2. \A T \in SUBSET S : Total(f, T) = g[T]
    <2>. SUFFICES ASSUME NEW T \in SUBSET S PROVE Total(f, T) = g[T]
      OBVIOUS
    <2>1. IsFiniteSet(T) /\ \A x \in T : f[x] \in Int
      BY FS_Subset
    <2>. QED BY <1>1, <2>1, SumIs
  <1>. QED BY <1>1, <1>2 DEF Adds

\* A sum with one more place has one more term.
LEMMA SumInsert ==
    ASSUME NEW S, NEW f, Numbers(f, S), NEW x, x \notin S, f[x] \in Int
    PROVE  /\ Total(f, S) \in Int /\ Total(f, S \cup {x}) = Total(f, S) + f[x]
           /\ Numbers(f, S \cup {x})
  <1>1. Numbers(f, S \cup {x}) /\ (S \cup {x}) \ {x} = S /\ x \in S \cup {x}
    BY FS_AddElement DEF Numbers
  <1>2. Total(f, S \cup {x}) = f[x] + Total(f, (S \cup {x}) \ {x})
    BY <1>1, SumAdd
  <1>3. Total(f, S) \in Int
    BY SumAdd
  <1>4. f[x] \in Int /\ Total(f, S \cup {x}) = f[x] + Total(f, S)
    BY <1>1, <1>2
  <1>. QED BY ONLY <1>1, <1>3, <1>4

\* A sum depends on the values at its places only.
THEOREM SumSame ==
    ASSUME NEW S, NEW f, Numbers(f, S), NEW h, \A x \in S : h[x] = f[x]
    PROVE  Total(h, S) = Total(f, S)
  <1>. USE DEF Numbers
  <1>1. PICK g : Adds(f, S, g)
    BY SumsExist
  <1>2. Adds(h, S, g)
    <2>1. \A T \in SUBSET S : \A x \in T : h[x] = f[x]
      OBVIOUS
    <2>. QED BY <1>1, <2>1 DEF Adds
  <1>3. Total(f, S) = g[S] /\ Total(h, S) = g[S]
    BY <1>1, <1>2, SumIs
  <1>. QED BY <1>3

\* A sum of naturals is one, and grows with the set.
THEOREM SumNat ==
    ASSUME NEW S, IsFiniteSet(S), NEW f, \A x \in S : f[x] \in Nat, NEW T \in SUBSET S
    PROVE  Total(f, T) \in Nat /\ Total(f, T) <= Total(f, S)
  <1>1. PICK g : Adds(f, S, g)
    BY SumsExist
  <1>2. \A R \in SUBSET S : Total(f, R) = g[R]
    <2>. SUFFICES ASSUME NEW R \in SUBSET S PROVE Total(f, R) = g[R]
      OBVIOUS
    <2>1. IsFiniteSet(R) /\ \A x \in R : f[x] \in Int
      BY FS_Subset
    <2>. QED BY <1>1, <2>1, SumIs
  <1>3. \A R \in SUBSET S : IsFiniteSet(R) /\ Cardinality(R) \in Nat
    BY FS_Subset, FS_CardinalityType
  <1>. DEFINE Good == {m \in Nat : \A R \in SUBSET S : Cardinality(R) = m =>
                          g[R] \in Nat /\ \A Q \in SUBSET R : g[Q] <= g[R]}
  <1>4. 0 \in Good
    <2>. SUFFICES ASSUME NEW R \in SUBSET S, Cardinality(R) = 0
                  PROVE  g[R] \in Nat /\ \A Q \in SUBSET R : g[Q] <= g[R]
      OBVIOUS
    <2>1. R = {} /\ g[{}] = 0
      BY <1>1, <1>3, FS_EmptySet DEF Adds
    <2>2. \A Q \in SUBSET R : Q = {}
      BY <2>1
    <2>. QED BY <2>1, <2>2
  <1>5. ASSUME NEW m \in Nat, m \in Good, NEW R \in SUBSET S, Cardinality(R) = m + 1
        PROVE  g[R] \in Nat /\ \A Q \in SUBSET R : g[Q] <= g[R]
    <2>1. \A x \in R : /\ g[R] = f[x] + g[R \ {x}] /\ f[x] \in Nat
                       /\ g[R \ {x}] \in Nat /\ \A Q \in SUBSET (R \ {x}) : g[Q] <= g[R \ {x}]
      <3>. SUFFICES ASSUME NEW x \in R
                    PROVE  /\ g[R] = f[x] + g[R \ {x}] /\ f[x] \in Nat
                           /\ g[R \ {x}] \in Nat
                           /\ \A Q \in SUBSET (R \ {x}) : g[Q] <= g[R \ {x}]
        OBVIOUS
      <3>1. R \ {x} \in SUBSET S /\ Cardinality(R \ {x}) = m
        BY <1>5, OneLess
      <3>2. g[R] = f[x] + g[R \ {x}]
        BY <1>1 DEF Adds
      <3>. QED BY <1>5, <3>1, <3>2
    <2>2. R # {}
      <3>1. Cardinality(R) # 0
        BY <1>5
      <3>. QED BY <3>1, FS_EmptySet
    <2>3. g[R] \in Nat
      <3>1. PICK x \in R : TRUE
        BY <2>2
      <3>2. g[R] = f[x] + g[R \ {x}] /\ f[x] \in Nat /\ g[R \ {x}] \in Nat
        BY <2>1
      <3>. QED BY <3>2
    <2>4. ASSUME NEW Q \in SUBSET R PROVE g[Q] <= g[R]
      <3>1. CASE Q = R
        BY <2>3, <3>1
      <3>2. CASE Q # R
        <4>1. PICK x \in R : x \notin Q
          BY <3>2
        <4>2. Q \in SUBSET (R \ {x}) /\ g[Q] \in Int
          BY <1>1, <4>1 DEF Adds
        <4>3. /\ g[R] = f[x] + g[R \ {x}] /\ f[x] \in Nat
              /\ g[R \ {x}] \in Nat /\ g[Q] <= g[R \ {x}]
          BY <2>1, <4>2
        <4>. QED BY <4>2, <4>3
      <3>. QED BY <3>1, <3>2
    <2>. QED BY <2>3, <2>4
  <1>6. \A m \in Nat : m \in Good => m + 1 \in Good
    BY <1>5
  <1>7. Nat \subseteq Good
    <2>. HIDE DEF Good
    <2>. QED BY <1>4, <1>6, NatInduct
  <1>8. Cardinality(S) \in Good /\ Cardinality(T) \in Good
    BY <1>3, <1>7
  <1>. QED BY <1>2, <1>8

\* Induction over the parts of a finite set: to prove P(S), apply it to
\* {T \in SUBSET S : P(T)}.
THEOREM FiniteInduct ==
    ASSUME NEW S, IsFiniteSet(S), NEW G, {} \in G,
           \A T \in SUBSET S : \A x \in S \ T : T \in G => T \cup {x} \in G
    PROVE  S \in G
  <1>. DEFINE Good == {m \in Nat : \A T \in SUBSET S : Cardinality(T) = m => T \in G}
  <1>1. \A T \in SUBSET S : IsFiniteSet(T) /\ Cardinality(T) \in Nat
    BY FS_Subset, FS_CardinalityType
  <1>2. 0 \in Good
    BY <1>1, FS_EmptySet
  <1>3. ASSUME NEW m \in Nat, m \in Good, NEW T \in SUBSET S, Cardinality(T) = m + 1
        PROVE  T \in G
    <2>1. PICK x : x \in T
      BY <1>3, OneLess
    <2>2. T \ {x} \in SUBSET S /\ Cardinality(T \ {x}) = m
      BY <1>3, <2>1, OneLess
    <2>3. T \ {x} \in G
      BY <1>3, <2>2
    <2>4. x \in S \ (T \ {x}) /\ (T \ {x}) \cup {x} = T
      BY <2>1
    <2>. QED BY <2>2, <2>3, <2>4
  <1>4. \A m \in Nat : m \in Good => m + 1 \in Good
    BY <1>3
  <1>5. Cardinality(S) \in Good
    <2>. HIDE DEF Good
    <2>. QED BY <1>1, <1>2, <1>4, NatInduct
  <1>. QED BY <1>5

\* Changing one value changes the sum by as much.
LEMMA SumChange ==
    ASSUME NEW S, NEW f, Numbers(f, S), NEW x \in S, NEW d \in Int,
           NEW h, h[x] = f[x] + d, \A y \in S \ {x} : h[y] = f[y]
    PROVE  Numbers(h, S) /\ Total(h, S) = Total(f, S) + d /\ Total(f, S) \in Int
  <1>1. Numbers(f, S \ {x}) /\ f[x] \in Int
    BY FS_Subset DEF Numbers
  <1>2. Numbers(h, S)
    BY <1>1 DEF Numbers
  <1>3. Total(f, S) = f[x] + Total(f, S \ {x}) /\ Total(h, S) = h[x] + Total(h, S \ {x})
    BY <1>2, SumAdd
  <1>4. Total(h, S \ {x}) = Total(f, S \ {x}) /\ Total(f, S \ {x}) \in Int
    BY <1>1, SumSame, SumAdd
  <1>. QED BY ONLY <1>1, <1>2, <1>3, <1>4, d \in Int, h[x] = f[x] + d

\* Noughts add up to nought.
LEMMA NoneAdd ==
    ASSUME NEW S, IsFiniteSet(S), NEW f, \A x \in S : f[x] = 0
    PROVE  Total(f, S) = 0
  <1>. DEFINE G == {T \in SUBSET S : Total(f, T) = 0}
  <1>0. \A T \in SUBSET S : Numbers(f, T)
    BY FS_Subset DEF Numbers
  <1>1. {} \in G
    BY <1>0, SumAdd
  <1>2. ASSUME NEW T \in SUBSET S, NEW x \in S \ T, T \in G PROVE T \cup {x} \in G
    BY <1>0, <1>2, SumInsert
  <1>. HIDE DEF G
  <1>3. S \in G
    BY <1>1, <1>2, FiniteInduct
  <1>. QED BY <1>3 DEF G

\* What is summed group by group is summed once.
THEOREM SumGroups ==
    ASSUME NEW S, NEW f, Numbers(f, S), NEW K, IsFiniteSet(K),
           NEW key, \A x \in S : key[x] \in K
    PROVE  Total([k \in K |-> Total(f, {x \in S : key[x] = k})], K) = Total(f, S)
  <1>. DEFINE of(T, k) == {x \in T : key[x] = k}
              group(T) == [k \in K |-> Total(f, of(T, k))]
              G == {T \in SUBSET S : Numbers(group(T), K) /\ Total(group(T), K) = Total(f, T)}
  <1>0. \A T \in SUBSET S : Numbers(f, T)
    BY FS_Subset DEF Numbers
  <1>1. {} \in G
    <2>1. Numbers(f, {}) /\ {} \in SUBSET S /\ Total(f, {}) = 0
      BY <1>0, SumAdd
    <2>2. \A k \in K : of({}, k) = {} /\ group({})[k] = 0
      BY <2>1
    <2>3. Numbers(group({}), K)
      BY <2>2 DEF Numbers
    <2>4. Total(group({}), K) = 0
      BY <2>2, NoneAdd
    <2>. QED BY <2>1, <2>3, <2>4
  <1>2. ASSUME NEW T \in SUBSET S, NEW x \in S \ T, T \in G
        PROVE  T \cup {x} \in G
    <2>. DEFINE U == T \cup {x}
    <2>1. U \in SUBSET S /\ key[x] \in K /\ f[x] \in Int /\ Numbers(f, T)
      BY <1>0 DEF Numbers
    <2>2. \A k \in K : Numbers(f, of(T, k))
      BY <1>0
    <2>3. of(U, key[x]) = of(T, key[x]) \cup {x} /\ x \notin of(T, key[x])
      OBVIOUS
    <2>4. \A k \in K \ {key[x]} : of(U, k) = of(T, k)
      OBVIOUS
    <2>5. group(U)[key[x]] = group(T)[key[x]] + f[x]
      <3>1. Total(f, of(T, key[x]) \cup {x}) = Total(f, of(T, key[x])) + f[x]
        BY <2>1, <2>2, <2>3, SumInsert
      <3>. QED BY <2>1, <2>3, <3>1
    <2>6. \A k \in K \ {key[x]} : group(U)[k] = group(T)[k]
      BY <2>4
    <2>. HIDE DEF of
    <2>7. Numbers(group(T), K) /\ Total(group(T), K) = Total(f, T)
      BY <1>2
    <2>8. Total(f, U) = Total(f, T) + f[x]
      BY <2>1, SumInsert
    <2>9. PICK g, h : g = group(T) /\ h = group(U)
      OBVIOUS
    <2>. HIDE DEF group
    <2>10. /\ Numbers(g, K) /\ key[x] \in K /\ f[x] \in Int /\ h[key[x]] = g[key[x]] + f[x]
           /\ \A k \in K \ {key[x]} : h[k] = g[k]
      BY <2>1, <2>5, <2>6, <2>7, <2>9
    <2>11. Numbers(h, K) /\ Total(h, K) = Total(g, K) + f[x]
      BY ONLY <2>10, SumChange
    <2>12. Numbers(group(U), K) /\ Total(group(U), K) = Total(f, U)
      BY <2>7, <2>8, <2>9, <2>11
    <2>. QED BY <2>1, <2>12
  <1>3. S \in G
    <2>1. IsFiniteSet(S)
      BY DEF Numbers
    <2>. HIDE DEF G
    <2>. QED BY <1>1, <1>2, <2>1, FiniteInduct
  <1>. QED BY <1>3

\* Two parts without a common place add up to the whole.
THEOREM SumSplit ==
    ASSUME NEW A, NEW B, NEW f, Numbers(f, A), Numbers(f, B), A \cap B = {}
    PROVE  /\ Numbers(f, A \cup B) /\ Total(f, A) \in Int /\ Total(f, B) \in Int
           /\ Total(f, A \cup B) = Total(f, A) + Total(f, B)
  <1>. DEFINE G == {T \in SUBSET B : /\ Numbers(f, A \cup T)
                                    /\ Total(f, A \cup T) = Total(f, A) + Total(f, T)}
  <1>0. \A T \in SUBSET B : Numbers(f, T)
    BY FS_Subset DEF Numbers
  <1>1. {} \in G
    <2>1. A \cup {} = A /\ Total(f, A) \in Int /\ Total(f, {}) = 0
      BY <1>0, SumAdd
    <2>. QED BY <2>1
  <1>2. ASSUME NEW T \in SUBSET B, NEW x \in B \ T, T \in G PROVE T \cup {x} \in G
    <2>1. x \notin A \cup T /\ f[x] \in Int /\ Numbers(f, T) /\ Numbers(f, A \cup T)
      BY <1>0, <1>2 DEF Numbers
    <2>2. /\ Total(f, T \cup {x}) = Total(f, T) + f[x] /\ Total(f, T) \in Int
      BY <2>1, SumInsert
    <2>3. /\ Total(f, (A \cup T) \cup {x}) = Total(f, A \cup T) + f[x]
          /\ Numbers(f, (A \cup T) \cup {x}) /\ (A \cup T) \cup {x} = A \cup (T \cup {x})
      BY <2>1, SumInsert
    <2>4. Total(f, A) \in Int /\ Total(f, A \cup T) = Total(f, A) + Total(f, T)
      BY <1>2, SumAdd
    <2>5. Total(f, (A \cup T) \cup {x}) = Total(f, A) + Total(f, T \cup {x})
      BY ONLY <2>1, <2>2, <2>3, <2>4
    <2>6. /\ Numbers(f, A \cup (T \cup {x}))
          /\ Total(f, A \cup (T \cup {x})) = Total(f, A) + Total(f, T \cup {x})
      BY ONLY <2>3, <2>5
    <2>. QED BY <2>6
  <1>. HIDE DEF G
  <1>3. IsFiniteSet(B)
    BY DEF Numbers
  <1>4. B \in G
    BY <1>1, <1>2, <1>3, FiniteInduct
  <1>. QED BY <1>4, SumAdd DEF G

\* A sum grows with its terms.
THEOREM SumLeq ==
    ASSUME NEW S, NEW f, Numbers(f, S), NEW h, Numbers(h, S), \A x \in S : f[x] <= h[x]
    PROVE  Total(f, S) <= Total(h, S)
  <1>. DEFINE G == {T \in SUBSET S : Total(f, T) <= Total(h, T)}
  <1>0. \A T \in SUBSET S : Numbers(f, T) /\ Numbers(h, T)
    BY FS_Subset DEF Numbers
  <1>1. {} \in G
    BY <1>0, SumAdd
  <1>2. ASSUME NEW T \in SUBSET S, NEW x \in S \ T, T \in G PROVE T \cup {x} \in G
    <2>1. f[x] \in Int /\ h[x] \in Int /\ f[x] <= h[x] /\ Total(f, T) <= Total(h, T)
      BY <1>2 DEF Numbers
    <2>2. /\ Total(f, T \cup {x}) = Total(f, T) + f[x] /\ Total(f, T) \in Int
          /\ Total(h, T \cup {x}) = Total(h, T) + h[x] /\ Total(h, T) \in Int
      BY <1>0, <2>1, SumInsert
    <2>3. Total(f, T \cup {x}) <= Total(h, T \cup {x})
      BY ONLY <2>1, <2>2
    <2>. QED BY <2>3
  <1>. HIDE DEF G
  <1>3. IsFiniteSet(S)
    BY DEF Numbers
  <1>4. S \in G
    BY <1>1, <1>2, <1>3, FiniteInduct
  <1>. QED BY <1>4 DEF G

\* The sum of sums.
THEOREM SumPlus ==
    ASSUME NEW S, NEW f, Numbers(f, S), NEW h, Numbers(h, S),
           NEW g, \A x \in S : g[x] = f[x] + h[x]
    PROVE  Numbers(g, S) /\ Total(g, S) = Total(f, S) + Total(h, S)
  <1>. DEFINE G == {T \in SUBSET S : Total(g, T) = Total(f, T) + Total(h, T)}
  <1>0. \A T \in SUBSET S : Numbers(f, T) /\ Numbers(h, T) /\ Numbers(g, T)
    BY FS_Subset DEF Numbers
  <1>1. {} \in G
    BY <1>0, SumAdd
  <1>2. ASSUME NEW T \in SUBSET S, NEW x \in S \ T, T \in G PROVE T \cup {x} \in G
    <2>1. f[x] \in Int /\ h[x] \in Int /\ g[x] = f[x] + h[x] /\ g[x] \in Int
          /\ Total(g, T) = Total(f, T) + Total(h, T)
      BY <1>2 DEF Numbers
    <2>0. Numbers(f, T) /\ Numbers(h, T) /\ Numbers(g, T) /\ x \notin T
      BY <1>0
    <2>2. Total(f, T \cup {x}) = Total(f, T) + f[x] /\ Total(f, T) \in Int
      <3>1. Numbers(f, T) /\ x \notin T /\ f[x] \in Int
        BY <2>0, <2>1
      <3>. QED BY ONLY <3>1, SumInsert
    <2>3. Total(h, T \cup {x}) = Total(h, T) + h[x] /\ Total(h, T) \in Int
      <3>1. Numbers(h, T) /\ x \notin T /\ h[x] \in Int
        BY <2>0, <2>1
      <3>. QED BY ONLY <3>1, SumInsert
    <2>4. Total(g, T \cup {x}) = Total(g, T) + g[x]
      BY ONLY <2>0, <2>1, SumInsert
    <2>5. Total(g, T \cup {x}) = Total(f, T \cup {x}) + Total(h, T \cup {x})
      BY ONLY <2>1, <2>2, <2>3, <2>4
    <2>. QED BY <2>5
  <1>. HIDE DEF G
  <1>3. IsFiniteSet(S)
    BY DEF Numbers
  <1>4. S \in G
    BY <1>1, <1>2, <1>3, FiniteInduct
  <1>. QED BY <1>0, <1>4 DEF G

\* The sum of multiples.
THEOREM SumTimes ==
    ASSUME NEW S, NEW f, Numbers(f, S), NEW a \in Int, NEW g, \A x \in S : g[x] = a * f[x]
    PROVE  Numbers(g, S) /\ Total(g, S) = a * Total(f, S) /\ Total(f, S) \in Int
  <1>. DEFINE G == {T \in SUBSET S : Total(g, T) = a * Total(f, T)}
  <1>0. \A T \in SUBSET S : Numbers(f, T) /\ Numbers(g, T)
    BY FS_Subset DEF Numbers
  <1>1. {} \in G
    BY <1>0, SumAdd
  <1>2. ASSUME NEW T \in SUBSET S, NEW x \in S \ T, T \in G PROVE T \cup {x} \in G
    <2>1. f[x] \in Int /\ g[x] = a * f[x] /\ g[x] \in Int /\ Total(g, T) = a * Total(f, T)
      BY <1>2 DEF Numbers
    <2>2. /\ Total(f, T \cup {x}) = Total(f, T) + f[x] /\ Total(f, T) \in Int
          /\ Total(g, T \cup {x}) = Total(g, T) + g[x]
      BY <1>0, <2>1, SumInsert
    <2>3. a * (Total(f, T) + f[x]) = a * Total(f, T) + a * f[x]
      BY ONLY <2>1, <2>2, a \in Int
    <2>. QED BY <2>1, <2>2, <2>3
  <1>. HIDE DEF G
  <1>3. IsFiniteSet(S)
    BY DEF Numbers
  <1>4. S \in G
    BY <1>1, <1>2, <1>3, FiniteInduct
  <1>. QED BY <1>0, <1>4, SumAdd DEF G

\* The sum of one value over and over.
LEMMA SumConstant ==
    ASSUME NEW S, IsFiniteSet(S), NEW c \in Int, NEW g, \A x \in S : g[x] = c
    PROVE  Numbers(g, S) /\ Total(g, S) = c * Cardinality(S) /\ Cardinality(S) \in Nat
  <1>. DEFINE G == {T \in SUBSET S : Total(g, T) = c * Cardinality(T)}
  <1>0. \A T \in SUBSET S : Numbers(g, T) /\ IsFiniteSet(T) /\ Cardinality(T) \in Nat
    BY FS_Subset, FS_CardinalityType DEF Numbers
  <1>1. {} \in G
    BY <1>0, SumAdd, FS_EmptySet
  <1>2. ASSUME NEW T \in SUBSET S, NEW x \in S \ T, T \in G PROVE T \cup {x} \in G
    <2>1. g[x] = c /\ Total(g, T) = c * Cardinality(T) /\ Cardinality(T) \in Nat
      BY <1>0, <1>2
    <2>2. /\ Total(g, T \cup {x}) = Total(g, T) + g[x]
          /\ Cardinality(T \cup {x}) = Cardinality(T) + 1
      BY <1>0, <2>1, SumInsert, FS_AddElement
    <2>3. c * (Cardinality(T) + 1) = c * Cardinality(T) + c
      BY ONLY <2>1, c \in Int
    <2>. QED BY <2>1, <2>2, <2>3
  <1>. HIDE DEF G
  <1>4. S \in G
    BY <1>1, <1>2, FiniteInduct
  <1>. QED BY <1>0, <1>4 DEF G

-----------------------------------------------------------------------------
\* What sums up to the k-th of a line.
UpTo(f, q, k) == Total(f, {q[j] : j \in 1..k})
SumsUp(f, q, S, R, n) ==
    /\ UpTo(f, q, 0) = 0
    /\ \A k \in 0..n : UpTo(f, q, k) \in Int
    /\ \A k \in 1..n : /\ UpTo(f, q, k) = UpTo(f, q, k - 1) + f[q[k]]
                       /\ UpTo(f, q, k) = Total(f, {y \in S : <<q[k], y>> \notin R})

\* It is the sum of those not behind it, and each adds its own.
LEMMA LinedSums ==
    ASSUME NEW S, NEW R, Linear(R, S), NEW n \in Nat, NEW q, Lined(q, S, R, n),
           NEW f, \A x \in S : f[x] \in Int
    PROVE  SumsUp(f, q, S, R, n)
  <1>1. InOrder(q, S, R, n) /\ IsFiniteSet(S)
    BY LinedInOrder, LinedCount
  <1>. DEFINE front(k) == {q[j] : j \in 1..k}
  <1>2. ASSUME NEW k \in 0..n PROVE Numbers(f, front(k))
    <2>1. front(k) \subseteq S
      BY <1>1 DEF InOrder
    <2>. HIDE DEF front
    <2>2. IsFiniteSet(front(k))
      BY <1>1, <2>1, FS_Subset
    <2>. QED BY <2>1, <2>2 DEF Numbers
  <1>3. front(0) = {}
    OBVIOUS
  <1>4. ASSUME NEW k \in 1..n
        PROVE  /\ q[k] \in front(k) /\ front(k) \ {q[k]} = front(k - 1)
               /\ front(k) = {y \in S : <<q[k], y>> \notin R}
    <2>1. k \in 1..k /\ \A j \in 1..k : j \in 1..n /\ (j = k \/ j \in 1..k - 1)
      OBVIOUS
    <2>2. \A j \in 1..k - 1 : j \in 1..k /\ j # k
      OBVIOUS
    <2>3. front(k) \ {q[k]} = front(k - 1)
      BY <1>1, <2>1, <2>2 DEF InOrder
    <2>4. ASSUME NEW y \in S, <<q[k], y>> \notin R PROVE y \in front(k)
      <3>1. PICK j \in 1..n : q[j] = y
        BY DEF Lined
      <3>2. ~(k < j)
        BY <1>1, <2>4, <3>1 DEF InOrder
      <3>. QED BY <3>1, <3>2
    <2>5. ASSUME NEW j \in 1..k PROVE q[j] \in S /\ <<q[k], q[j]>> \notin R
      <3>1. j \in 1..n /\ ~(k < j)
        OBVIOUS
      <3>. QED BY <1>1, <3>1 DEF InOrder
    <2>. QED BY <2>1, <2>3, <2>4, <2>5
  <1>. HIDE DEF front
  <1>5. \A k \in 0..n : Total(f, front(k)) \in Int
    BY <1>2, SumAdd
  <1>6. Total(f, front(0)) = 0
    BY <1>2, <1>3, SumAdd
  <1>7. ASSUME NEW k \in 1..n PROVE Total(f, front(k)) = Total(f, front(k - 1)) + f[q[k]]
    <2>1. k \in 0..n /\ k - 1 \in 0..n
      OBVIOUS
    <2>2. Total(f, front(k)) = f[q[k]] + Total(f, front(k) \ {q[k]})
      BY <1>2, <1>4, <2>1, SumAdd
    <2>3. f[q[k]] \in Int
      BY <1>1 DEF InOrder
    <2>4. Total(f, front(k)) = f[q[k]] + Total(f, front(k - 1))
      BY <1>4, <2>2
    <2>5. Total(f, front(k - 1)) \in Int
      BY <1>5, <2>1
    <2>. QED BY ONLY <2>3, <2>4, <2>5
  <1>. QED BY <1>4, <1>5, <1>6, <1>7 DEF SumsUp, UpTo, front

\* w is the deepest fall of a curve from a point to a later one.
DeepestFall(curve, n, w) ==
    /\ \E i, j \in 0..n : i <= j /\ w = curve[i] - curve[j]
    /\ \A i, j \in 0..n : i <= j => curve[i] - curve[j] <= w

\* One pass along a curve that keeps the peak and the deepest fall below it.
Passing(curve, peak, fall, n) ==
    /\ \A k \in 0..n : curve[k] \in Int
    /\ peak[0] = curve[0] /\ fall[0] = 0
    /\ \A k \in 1..n :
          /\ peak[k] = IF curve[k] > peak[k - 1] THEN curve[k] ELSE peak[k - 1]
          /\ fall[k] = IF peak[k] - curve[k] > fall[k - 1] THEN peak[k] - curve[k]
                       ELSE fall[k - 1]

\* It ends with the deepest fall.
THEOREM FallIs ==
    ASSUME NEW n \in Nat, NEW curve, NEW peak, NEW fall, Passing(curve, peak, fall, n)
    PROVE  DeepestFall(curve, n, fall[n])
  <1>. DEFINE High(k) == /\ peak[k] \in Int /\ fall[k] \in Int
                         /\ \E i \in 0..k : peak[k] = curve[i]
                         /\ \A i \in 0..k : curve[i] <= peak[k]
              G == {k \in Nat : k <= n => High(k) /\ DeepestFall(curve, k, fall[k])}
  <1>1. 0 \in G
    <2>1. curve[0] \in Int /\ 0 \in 0..0 /\ \A k \in 0..0 : k = 0
      BY DEF Passing
    <2>. QED BY <2>1 DEF DeepestFall, Passing
  <1>2. ASSUME NEW m \in Nat, m + 1 <= n, High(m), DeepestFall(curve, m, fall[m])
        PROVE  High(m + 1) /\ DeepestFall(curve, m + 1, fall[m + 1])
    <2>1. PICK c, p, w, old, low : /\ c = curve[m + 1] /\ p = peak[m + 1] /\ w = fall[m + 1]
                                   /\ old = peak[m] /\ low = fall[m]
      OBVIOUS
    <2>2. /\ c \in Int /\ old \in Int /\ low \in Int
          /\ p = IF c > old THEN c ELSE old
          /\ w = IF p - c > low THEN p - c ELSE low
      <3>1. m + 1 \in 1..n /\ m + 1 \in 0..n /\ (m + 1) - 1 = m
        BY <1>2
      <3>. QED BY <1>2, <2>1, <3>1 DEF Passing
    <2>3. p \in Int /\ w \in Int /\ c <= p /\ old <= p /\ low <= w /\ p - c <= w
      BY <2>2
    <2>4. \A i \in 0..(m + 1) : i \in 0..m \/ i = m + 1
      BY <1>2
    <2>5. \A i \in 0..m : i \in 0..(m + 1) /\ i <= m + 1 /\ curve[i] \in Int
      BY <1>2 DEF Passing
    <2>6. \A i \in 0..(m + 1) : curve[i] <= p
      <3>1. ASSUME NEW i \in 0..m PROVE curve[i] <= p
        <4>1. curve[i] \in Int /\ curve[i] <= old
          BY <1>2, <2>1, <2>5
        <4>. QED BY <2>2, <2>3, <4>1
      <3>. QED BY <2>1, <2>3, <2>4, <3>1
    <2>7. PICK t \in 0..(m + 1) : p = curve[t]
      <3>1. PICK i \in 0..m : old = curve[i]
        BY <1>2, <2>1
      <3>2. m + 1 \in 0..(m + 1)
        BY <1>2
      <3>. QED BY <2>1, <2>2, <2>5, <3>1, <3>2
    <2>8. \E i, j \in 0..(m + 1) : i <= j /\ w = curve[i] - curve[j]
      <3>1. CASE w = p - c
        <4>1. t <= m + 1 /\ m + 1 \in 0..(m + 1)
          BY <1>2
        <4>. QED BY <2>1, <2>7, <3>1, <4>1
      <3>2. CASE w = low
        <4>1. PICK i, j \in 0..m : i <= j /\ low = curve[i] - curve[j]
          BY <1>2, <2>1 DEF DeepestFall
        <4>. QED BY <2>5, <3>2, <4>1
      <3>. QED BY <2>2, <3>1, <3>2
    <2>9. ASSUME NEW i \in 0..(m + 1), NEW j \in 0..(m + 1), i <= j
          PROVE  curve[i] - curve[j] <= w
      <3>1. CASE j = m + 1
        <4>1. curve[i] \in Int /\ curve[i] <= p /\ curve[j] = c
          BY <2>1, <2>2, <2>4, <2>5, <2>6, <3>1
        <4>. QED BY <2>2, <2>3, <4>1
      <3>2. CASE j \in 0..m
        <4>1. i \in 0..m
          BY <2>9, <3>2
        <4>2. curve[i] - curve[j] <= low /\ curve[i] \in Int /\ curve[j] \in Int
          BY <1>2, <2>1, <2>5, <2>9, <3>2, <4>1 DEF DeepestFall
        <4>. QED BY <2>2, <2>3, <4>2
      <3>. QED BY <2>4, <3>1, <3>2
    <2>. QED BY <2>1, <2>3, <2>6, <2>7, <2>8, <2>9 DEF DeepestFall
  <1>3. \A k \in Nat : k \in G => k + 1 \in G
    <2>. HIDE DEF High
    <2>. QED BY <1>2
  <1>4. n \in G
    <2>. HIDE DEF G
    <2>. QED BY <1>1, <1>3, NatInduct
  <1>. QED BY <1>4
=============================================================================
