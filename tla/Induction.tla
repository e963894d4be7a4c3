------------------------------ MODULE Induction ------------------------------
(***************************************************************************)
(* Induction over the natural numbers and over the size of a finite set,   *)
(* in the form of least counterexamples: if a statement fails anywhere,    *)
(* there is a least number where it fails.  The proofs about loops and     *)
(* recursive functions rest on these facts.                                *)
(***************************************************************************)
EXTENDS Integers, Sequences, FiniteSets, FiniteSetsExt, SequencesExt,
        FiniteSetTheorems, WellFoundedInduction, TLAPS

LEMMA LessIsWF ==
  IsWellFoundedOn({p \in Nat \X Nat : p[1] < p[2]}, Nat)
  BY NatLessThanWellFounded DEF OpToRel

\* Every non-empty set of natural numbers has a least member.
THEOREM LeastNumber ==
  ASSUME NEW T, T \subseteq Nat, T # {}
  PROVE  \E x \in T : \A y \in T : x <= y
  <1> DEFINE R == {p \in Nat \X Nat : p[1] < p[2]}
  <1>1. IsWellFoundedOn(R, Nat)
    BY LessIsWF
  <1>2. PICK x \in T : \A y \in T : ~(<<y, x>> \in R)
    <2> HIDE DEF R
    <2> QED
      BY <1>1, WFMin
  <1>3. ASSUME NEW y \in T
        PROVE  x <= y
    <2>1. x \in Nat /\ y \in Nat
      OBVIOUS
    <2>2. ~(<<y, x>> \in R)
      BY <1>2
    <2> QED
      BY <2>1, <2>2
  <1> QED
    BY <1>3

\* A non-empty set of natural numbers with a bound has a greatest member.
LEMMA GreatestNumber ==
  ASSUME NEW T, T \subseteq Nat, T # {}, NEW b \in Nat, \A x \in T : x <= b
  PROVE  \E x \in T : \A y \in T : y <= x
  <1> DEFINE D == {n \in Nat : \E x \in T : n = b - x}
  <1>1. D # {} /\ D \subseteq Nat
    <2>1. PICK x \in T : TRUE
      OBVIOUS
    <2>2. b - x \in Nat
      BY <2>1
    <2> QED
      BY <2>1, <2>2
  <1>2. PICK n \in D : \A m \in D : n <= m
    <2> HIDE DEF D
    <2> QED
      BY <1>1, LeastNumber
  <1>3. PICK x \in T : n = b - x
    OBVIOUS
  <1>4. ASSUME NEW y \in T
        PROVE  y <= x
    <2>1. b - y \in D
      OBVIOUS
    <2>2. n <= b - y
      BY <1>2, <2>1
    <2> QED
      BY <1>3, <2>2
  <1> QED
    BY <1>4

\* What Min and Max of the library give, wherever there is such a member.
LEMMA MinFacts ==
  ASSUME NEW T, T \subseteq Nat, T # {}
  PROVE  Min(T) \in T /\ \A y \in T : Min(T) <= y
  <1>1. \E x \in T : \A y \in T : x <= y
    BY LeastNumber
  <1> QED
    BY <1>1 DEF Min

\* A finite set of integers has a greatest member.
LEMMA FiniteHasGreatest ==
  ASSUME NEW T, IsFiniteSet(T), T \subseteq Int, T # {}
  PROVE  \E x \in T : \A y \in T : y <= x
  <1> DEFINE Sizes == {n \in Nat : \E S \in SUBSET T :
                         S # {} /\ Cardinality(S) = n /\ ~\E x \in S : \A y \in S : y <= x}
  <1>1. ASSUME Sizes # {}
        PROVE  FALSE
    <2>1. PICK n \in Sizes : \A m \in Sizes : n <= m
      <3>1. Sizes \subseteq Nat
        OBVIOUS
      <3> HIDE DEF Sizes
      <3> QED
        BY <1>1, <3>1, LeastNumber
    <2>2. PICK S \in SUBSET T : /\ S # {} /\ Cardinality(S) = n
                                /\ ~\E x \in S : \A y \in S : y <= x
      BY <2>1
    <2>3. PICK s \in S : TRUE
      BY <2>2
    <2>4. IsFiniteSet(S)
      BY FS_Subset
    <2>5. Cardinality(S \ {s}) = n - 1
      BY <2>2, <2>3, <2>4, FS_RemoveElement
    <2>6. IsFiniteSet(S \ {s})
      BY <2>4, FS_Subset
    <2>7. n - 1 \in Nat
      BY <2>5, <2>6, FS_CardinalityType
    <2>8. n - 1 \notin Sizes
      BY <2>1, <2>7
    <2>9. S \ {s} = {} \/ \E x \in S \ {s} : \A y \in S \ {s} : y <= x
      BY <2>5, <2>7, <2>8
    <2>10. CASE S \ {s} = {}
      <3>1. \A y \in S : y <= s
        BY <2>3, <2>10
      <3> QED
        BY <2>2, <2>3, <3>1
    <2>11. CASE \E x \in S \ {s} : \A y \in S \ {s} : y <= x
      <3>1. PICK x \in S \ {s} : \A y \in S \ {s} : y <= x
        BY <2>11
      <3>2. x \in Int /\ s \in Int
        BY <2>3
      <3>3. CASE s <= x
        BY <2>2, <3>1, <3>3
      <3>4. CASE x <= s
        <4>1. \A y \in S : y <= s
          BY <3>1, <3>2, <3>4
        <4> QED
          BY <2>2, <2>3, <4>1
      <3> QED
        BY <3>2, <3>3, <3>4
    <2> QED
      BY <2>9, <2>10, <2>11
  <1>2. Cardinality(T) \in Nat
    BY FS_CardinalityType
  <1> QED
    BY <1>1, <1>2

LEMMA MaxFacts ==
  ASSUME NEW T, IsFiniteSet(T), T \subseteq Int, T # {}
  PROVE  Max(T) \in T /\ \A y \in T : y <= Max(T)
  <1>1. \E x \in T : \A y \in T : y <= x
    BY FiniteHasGreatest
  <1> QED
    BY <1>1 DEF Max

----------------------------------------------------------------------------
(***************************************************************************)
(* FlattenSeq is defined by recursion over the number of sequences.        *)
(***************************************************************************)

\* F(k) is flat after k of the sequences.
FlatStep(seqs, g, k) == IF k = 1 THEN seqs[k] ELSE g[k - 1] \o seqs[k]

\* The places of the sequences' elements.
Places(seqs, k) == {p \in (1 .. k) \X (Nat \ {0}) : p[2] <= Len(seqs[p[1]])}

\* `at' tells for each element of F which one of the sequences' it is; those of
\* an earlier sequence come first.
Spreads(at, F, seqs, k) ==
  /\ at \in [1 .. Len(F) -> Places(seqs, k)]
  /\ \A x \in 1 .. Len(F) : F[x] = seqs[at[x][1]][at[x][2]]
  /\ \A x, y \in 1 .. Len(F) : at[x] = at[y] => x = y
  /\ \A p \in Places(seqs, k) : \E x \in 1 .. Len(F) : at[x] = p
  /\ \A x, y \in 1 .. Len(F) : x <= y => at[x][1] <= at[y][1]

LEMMA PlacesOfOne ==
  ASSUME NEW S, NEW seqs \in Seq(Seq(S)), Len(seqs) > 0
  PROVE  Spreads([x \in 1 .. Len(seqs[1]) |-> <<1, x>>], seqs[1], seqs, 1)
  <1> DEFINE at == [x \in 1 .. Len(seqs[1]) |-> <<1, x>>]
  <1>1. seqs[1] \in Seq(S) /\ Len(seqs[1]) \in Nat
    OBVIOUS
  <1>2. Places(seqs, 1) = {<<1, x>> : x \in 1 .. Len(seqs[1])}
    BY <1>1 DEF Places
  <1>3. at \in [1 .. Len(seqs[1]) -> Places(seqs, 1)]
    BY <1>2
  <1> QED
    BY <1>2, <1>3 DEF Spreads

LEMMA OneSequenceMore ==
  ASSUME NEW S, NEW seqs \in Seq(Seq(S)), NEW k \in Nat \ {0}, k + 1 <= Len(seqs),
         NEW F \in Seq(S), NEW at, Spreads(at, F, seqs, k)
  PROVE  Spreads([x \in 1 .. Len(F \o seqs[k + 1]) |->
                    IF x <= Len(F) THEN at[x] ELSE <<k + 1, x - Len(F)>>],
                 F \o seqs[k + 1], seqs, k + 1)
  <1> DEFINE s == seqs[k + 1]
             G == F \o s
             new == [x \in 1 .. Len(G) |-> IF x <= Len(F) THEN at[x] ELSE <<k + 1, x - Len(F)>>]
  <1>1. s \in Seq(S) /\ Len(s) \in Nat /\ Len(F) \in Nat
    OBVIOUS
  <1>2. /\ Len(G) = Len(F) + Len(s)
        /\ \A x \in 1 .. Len(F) : G[x] = F[x]
        /\ \A x \in 1 .. Len(s) : G[Len(F) + x] = s[x]
    BY <1>1
  <1>3. \A p \in Places(seqs, k) : p \in Places(seqs, k + 1) /\ p[1] # k + 1
    BY DEF Places
  <1>4. \A x \in 1 .. Len(s) : <<k + 1, x>> \in Places(seqs, k + 1)
    BY <1>1 DEF Places
  <1>5. \A p \in Places(seqs, k + 1) :
          p \in Places(seqs, k) \/ \E x \in 1 .. Len(s) : p = <<k + 1, x>>
    BY <1>1 DEF Places
  <1>6. /\ at \in [1 .. Len(F) -> Places(seqs, k)]
        /\ \A x \in 1 .. Len(F) : F[x] = seqs[at[x][1]][at[x][2]]
        /\ \A x, y \in 1 .. Len(F) : at[x] = at[y] => x = y
        /\ \A p \in Places(seqs, k) : \E x \in 1 .. Len(F) : at[x] = p
    BY DEF Spreads
  <1>7. /\ \A x \in 1 .. Len(F) : x \in 1 .. Len(G) /\ new[x] = at[x]
        /\ \A x \in 1 .. Len(s) : Len(F) + x \in 1 .. Len(G) /\ new[Len(F) + x] = <<k + 1, x>>
        /\ \A x \in 1 .. Len(G) : x \in 1 .. Len(F) \/ x - Len(F) \in 1 .. Len(s)
    BY <1>1, <1>2, SMTT(30)
  <1>8. ASSUME NEW x \in 1 .. Len(G)
        PROVE  new[x] \in Places(seqs, k + 1) /\ G[x] = seqs[new[x][1]][new[x][2]]
    <2>1. CASE x \in 1 .. Len(F)
      BY <1>2, <1>3, <1>6, <1>7, <2>1
    <2>2. CASE x - Len(F) \in 1 .. Len(s)
      <3> DEFINE z == x - Len(F)
      <3>1. x = Len(F) + z /\ z \in 1 .. Len(s)
        BY <1>1, <2>2
      <3>2. new[x] = <<k + 1, z>> /\ G[x] = s[z]
        BY <1>2, <1>7, <3>1
      <3> QED
        BY <1>4, <3>1, <3>2
    <2> QED
      BY <1>7, <2>1, <2>2
  <1>9. ASSUME NEW x \in 1 .. Len(G), NEW y \in 1 .. Len(G), new[x] = new[y]
        PROVE  x = y
    <2>1. CASE x <= Len(F)
      <3>1. x \in 1 .. Len(F) /\ new[x] = at[x] /\ at[x] \in Places(seqs, k)
        BY <1>1, <1>6, <1>7, <2>1
      <3>2. y \in 1 .. Len(F)
        <4> SUFFICES ASSUME ~(y <= Len(F)) PROVE FALSE
          BY <1>1
        <4>1. new[y] = <<k + 1, y - Len(F)>>
          OBVIOUS
        <4>2. new[y][1] = k + 1
          BY <4>1
        <4> QED
          BY <1>3, <1>9, <3>1, <4>2
      <3>3. new[y] = at[y]
        BY <1>7, <3>2
      <3> QED
        BY <1>6, <1>9, <3>1, <3>2, <3>3
    <2>2. CASE ~(x <= Len(F))
      <3>1. new[x] = <<k + 1, x - Len(F)>> /\ new[x][1] = k + 1
        BY <2>2
      <3>2. ~(y <= Len(F))
        <4> SUFFICES ASSUME y <= Len(F) PROVE FALSE
          OBVIOUS
        <4>1. new[y] = at[y] /\ at[y] \in Places(seqs, k)
          BY <1>1, <1>6
        <4> QED
          BY <1>3, <1>9, <3>1, <4>1
      <3>3. new[y] = <<k + 1, y - Len(F)>>
        BY <3>2
      <3>4. x - Len(F) = y - Len(F)
        BY <1>9, <3>1, <3>3
      <3> QED
        BY <1>1, <3>4
    <2> QED
      BY <2>1, <2>2
  <1>10. ASSUME NEW p \in Places(seqs, k + 1)
         PROVE  \E x \in 1 .. Len(G) : new[x] = p
    <2>1. CASE p \in Places(seqs, k)
      <3>1. PICK x \in 1 .. Len(F) : at[x] = p
        BY <1>6, <2>1
      <3> QED
        BY <1>7, <3>1
    <2>2. CASE \E x \in 1 .. Len(s) : p = <<k + 1, x>>
      <3>1. PICK x \in 1 .. Len(s) : p = <<k + 1, x>>
        BY <2>2
      <3>2. Len(F) + x \in 1 .. Len(G) /\ new[Len(F) + x] = p
        BY <1>7, <3>1
      <3> QED
        BY <3>2
    <2> QED
      BY <1>5, <2>1, <2>2
  <1>11. ASSUME NEW x \in 1 .. Len(G), NEW y \in 1 .. Len(G), x <= y
         PROVE  new[x][1] <= new[y][1]
    <2>1. CASE y \in 1 .. Len(F)
      <3>1. x \in 1 .. Len(F)
        BY <1>1, <1>11, <2>1
      <3>2. at[x][1] <= at[y][1]
        BY <1>11, <2>1, <3>1 DEF Spreads
      <3> QED
        BY <1>7, <2>1, <3>1, <3>2
    <2>2. CASE y \notin 1 .. Len(F)
      <3>1. new[y] = <<k + 1, y - Len(F)>>
        BY <1>1, <2>2
      <3>2. new[x][1] \in 1 .. k + 1
        <4> HIDE DEF new, G
        <4>1. new[x] \in Places(seqs, k + 1)
          BY <1>8
        <4> QED
          BY <4>1 DEF Places
      <3>3. new[y][1] = k + 1
        <4> HIDE DEF new, G
        <4> QED
          BY <3>1
      <3> HIDE DEF new, G
      <3> QED
        BY <3>2, <3>3
    <2> QED
      BY <2>1, <2>2
  <1> HIDE DEF new, G, s
  <1>12. new \in [1 .. Len(G) -> Places(seqs, k + 1)]
    BY <1>8 DEF new
  <1>13. Spreads(new, G, seqs, k + 1)
    BY <1>8, <1>9, <1>10, <1>11, <1>12 DEF Spreads
  <1> QED
    BY <1>13 DEF new, G, s

\* The recursion has a value.
LEMMA FlatExists ==
  ASSUME NEW seqs, NEW n \in Nat
  PROVE  \E g : g = [k \in 1 .. n |-> FlatStep(seqs, g, k)]
  <1> DEFINE Bad == {m \in Nat : ~\E g : g = [k \in 1 .. m |-> FlatStep(seqs, g, k)]}
  <1>1. ASSUME NEW m \in Bad, \A l \in Bad : m <= l
        PROVE  FALSE
    <2>1. m \in Nat
      OBVIOUS
    <2>2. m # 0
      <3>1. <<>> = [k \in 1 .. 0 |-> FlatStep(seqs, <<>>, k)]
        OBVIOUS
      <3> QED
        BY <3>1
    <2>3. m - 1 \in Nat /\ ~(m <= m - 1)
      BY <2>1, <2>2
    <2>4. m - 1 \notin Bad
      <3> HIDE DEF Bad
      <3> QED
        BY <1>1, <2>3
    <2>5. PICK g : g = [k \in 1 .. m - 1 |-> FlatStep(seqs, g, k)]
      BY <2>3, <2>4
    <2> DEFINE h == [k \in 1 .. m |-> IF k < m THEN g[k] ELSE FlatStep(seqs, g, m)]
    <2>6. ASSUME NEW k \in 1 .. m
          PROVE  h[k] = FlatStep(seqs, h, k)
      <3>1. FlatStep(seqs, h, k) = FlatStep(seqs, g, k)
        BY <2>1 DEF FlatStep
      <3>2. CASE k < m
        <4>1. k \in 1 .. m - 1 /\ h[k] = g[k]
          BY <2>1, <3>2
        <4>2. g[k] = FlatStep(seqs, g, k)
          BY <2>5, <4>1
        <4> QED
          BY <3>1, <4>1, <4>2
      <3>3. CASE k = m
        BY <2>1, <3>1, <3>3
      <3> QED
        BY <2>1, <3>2, <3>3
    <2>7. h = [k \in 1 .. m |-> h[k]]
      OBVIOUS
    <2> HIDE DEF h
    <2>8. h = [k \in 1 .. m |-> FlatStep(seqs, h, k)]
      BY <2>6, <2>7
    <2> QED
      BY <2>8
  <1>2. Bad = {}
    <2>1. Bad \subseteq Nat
      OBVIOUS
    <2> HIDE DEF Bad
    <2> QED
      BY <1>1, <2>1, LeastNumber
  <1> QED
    BY <1>2

\* What it computes are sequences that spread those flattened so far.
LEMMA FlatSpreads ==
  ASSUME NEW S, NEW seqs \in Seq(Seq(S)), NEW g,
         \A k \in 1 .. Len(seqs) : g[k] = FlatStep(seqs, g, k)
  PROVE  \A k \in 1 .. Len(seqs) : g[k] \in Seq(S) /\ \E at : Spreads(at, g[k], seqs, k)
  <1> DEFINE Good(k) == g[k] \in Seq(S) /\ \E at : Spreads(at, g[k], seqs, k)
             Bad == {k \in 1 .. Len(seqs) : ~Good(k)}
  <1>1. ASSUME NEW k \in Bad, \A l \in Bad : k <= l
        PROVE  FALSE
    <2>1. k \in 1 .. Len(seqs) /\ Len(seqs) \in Nat /\ k \in Nat
      OBVIOUS
    <2>2. CASE k = 1
      <3>1. g[k] = seqs[1] /\ seqs[1] \in Seq(S) /\ Len(seqs) > 0
        BY <2>1, <2>2 DEF FlatStep
      <3>2. \E at : Spreads(at, seqs[1], seqs, 1)
        BY <3>1, PlacesOfOne
      <3>3. Good(k)
        BY <2>2, <3>1, <3>2
      <3> QED
        BY <3>3
    <2>3. CASE k # 1
      <3>1. k - 1 \in 1 .. Len(seqs) /\ ~(k <= k - 1) /\ k - 1 \in Nat \ {0} /\ (k - 1) + 1 = k
        BY <2>1, <2>3
      <3>2. Good(k - 1)
        <4>1. k - 1 \notin Bad
          <5> HIDE DEF Bad
          <5> QED
            BY <1>1, <3>1
        <4> QED
          BY <3>1, <4>1
      <3>3. g[k] = g[k - 1] \o seqs[k] /\ seqs[k] \in Seq(S)
        <4> HIDE DEF Bad
        <4>1. g[k] = FlatStep(seqs, g, k)
          BY <2>1
        <4>2. g[k] = g[k - 1] \o seqs[k]
          BY <4>1, <2>3, Zenon DEF FlatStep
        <4> QED
          BY <2>1, <4>2
      <3>4. PICK at : Spreads(at, g[k - 1], seqs, k - 1)
        BY <3>2
      <3>5. \E new : Spreads(new, g[k - 1] \o seqs[k], seqs, k)
        <4> HIDE DEF Bad
        <4>1. k <= Len(seqs) /\ g[k - 1] \in Seq(S)
          BY <2>1, <3>2
        <4> DEFINE l == k - 1
        <4>2. l \in Nat \ {0} /\ l + 1 = k
          BY <3>1
        <4> HIDE DEF l
        <4>3. Spreads(at, g[l], seqs, l) /\ g[l] \in Seq(S) /\ l + 1 <= Len(seqs)
          BY <3>4, <4>1, <4>2 DEF l
        <4>4. \E new : Spreads(new, g[l] \o seqs[l + 1], seqs, l + 1)
          BY <4>2, <4>3, OneSequenceMore
        <4> QED
          BY <4>2, <4>4 DEF l
      <3>6. Good(k)
        BY <3>2, <3>3, <3>5
      <3> QED
        BY <3>6
    <2> QED
      BY <2>2, <2>3
  <1>2. Bad = {}
    <2>1. Bad \subseteq Nat
      OBVIOUS
    <2> HIDE DEF Bad
    <2> QED
      BY <1>1, <2>1, LeastNumber
  <1> QED
    BY <1>2

\* FlattenSeq puts every element of every sequence in, each at one place.
THEOREM FlattenFacts ==
  ASSUME NEW S, NEW seqs \in Seq(Seq(S))
  PROVE  /\ FlattenSeq(seqs) \in Seq(S)
         /\ \E at : Spreads(at, FlattenSeq(seqs), seqs, Len(seqs))
  <1>1. CASE Len(seqs) = 0
    <2>1. FlattenSeq(seqs) = <<>>
      BY <1>1 DEF FlattenSeq
    <2>2. Places(seqs, Len(seqs)) = {}
      BY <1>1 DEF Places
    <2>3. Spreads(<<>>, <<>>, seqs, Len(seqs))
      BY <2>2 DEF Spreads
    <2> QED
      BY <2>1, <2>3
  <1>2. CASE Len(seqs) # 0
    <2> DEFINE n == Len(seqs)
               C == CHOOSE g : g = [k \in 1 .. n |-> FlatStep(seqs, g, k)]
    <2>1. n \in Nat /\ n \in 1 .. n
      BY <1>2
    <2>2. \E g : g = [k \in 1 .. n |-> FlatStep(seqs, g, k)]
      BY <2>1, FlatExists, Zenon
    <2>3. C = [k \in 1 .. n |-> FlatStep(seqs, C, k)]
      BY <2>2, Zenon
    <2>4. FlattenSeq(seqs) = C[n]
      BY <1>2, Zenon DEF FlattenSeq, FlatStep
    <2> HIDE DEF C
    <2>5. \A k \in 1 .. n : C[k] = FlatStep(seqs, C, k)
      BY <2>3, Zenon
    <2>6. \A k \in 1 .. n : C[k] \in Seq(S) /\ \E at : Spreads(at, C[k], seqs, k)
      BY <2>5, FlatSpreads
    <2> QED
      BY <2>1, <2>4, <2>6
  <1> QED
    BY <1>1, <1>2
----------------------------------------------------------------------------
(***************************************************************************)
(* Recursive functions, and sums over finite sets.                         *)
(***************************************************************************)

LEMMA JustBelow ==
  ASSUME NEW n \in Nat, NEW k \in Nat, k < n
  PROVE  k = n - 1 \/ k < n - 1
  OBVIOUS

\* A step G of a recursion that looks only at what has a lower rank than its
\* argument.
Recursion(S, V, rank, b, G) ==
  /\ V # {} /\ b \in Nat
  /\ rank \in [S -> Nat] /\ \A s \in S : rank[s] < b
  /\ G \in [S \X [S -> V] -> V]
  /\ \A s \in S : \A f, g \in [S -> V] :
       (\A r \in S : rank[r] < rank[s] => f[r] = g[r]) => G[<<s, f>>] = G[<<s, g>>]

\* There is a function that agrees with such a step.
THEOREM RecursionByRank ==
  ASSUME NEW S, NEW V, NEW rank, NEW b, NEW G, Recursion(S, V, rank, b, G)
  PROVE  \E f \in [S -> V] : \A s \in S : f[s] = G[<<s, f>>]
  <1> USE DEF Recursion
  <1> DEFINE Agrees(f, n) == \A s \in S : rank[s] < n => f[s] = G[<<s, f>>]
             Bad == {n \in Nat : ~\E f \in [S -> V] : Agrees(f, n)}
  <1>1. 0 \notin Bad
    <2>1. PICK v \in V : TRUE
      OBVIOUS
    <2>2. [s \in S |-> v] \in [S -> V] /\ Agrees([s \in S |-> v], 0)
      <3>1. \A s \in S : ~(rank[s] < 0)
        OBVIOUS
      <3> QED
        BY <3>1
    <2> QED
      BY <2>2
  <1>2. ASSUME NEW n \in Bad, \A m \in Bad : n <= m
        PROVE  FALSE
    <2>1. n \in Nat \ {0} /\ n - 1 \in Nat
      BY <1>1
    <2>2. n - 1 \notin Bad
      <3>1. ~(n <= n - 1)
        BY <2>1
      <3> HIDE DEF Bad
      <3> QED
        BY <1>2, <3>1
    <2>3. PICK f \in [S -> V] : Agrees(f, n - 1)
      BY <2>1, <2>2
    <2> DEFINE g == [s \in S |-> IF rank[s] = n - 1 THEN G[<<s, f>>] ELSE f[s]]
    <2>4. g \in [S -> V]
      OBVIOUS
    <2>5. \A r \in S : rank[r] < n - 1 => f[r] = g[r]
      BY <2>1
    <2>6. ASSUME NEW s \in S, rank[s] < n
          PROVE  g[s] = G[<<s, g>>]
      <3>1. rank[s] \in Nat /\ (rank[s] = n - 1 \/ rank[s] < n - 1)
        <4>1. PICK k : k = rank[s] /\ k \in Nat
          OBVIOUS
        <4>2. n \in Nat /\ k < n
          BY <2>1, <2>6, <4>1
        <4>3. k = n - 1 \/ k < n - 1
          BY <4>1, <4>2, JustBelow
        <4> QED
          BY <4>1, <4>3
      <3>2. \A r \in S : rank[r] < rank[s] => f[r] = g[r]
        <4> TAKE r \in S
        <4>1. rank[r] \in Nat
          OBVIOUS
        <4> QED
          BY <2>1, <2>5, <2>6, <3>1, <4>1
      <3> HIDE DEF g
      <3>3. G[<<s, f>>] = G[<<s, g>>]
        BY <2>4, <3>2
      <3>4. g[s] = G[<<s, f>>]
        <4>1. CASE rank[s] = n - 1
          BY <4>1 DEF g
        <4>2. CASE rank[s] # n - 1
          <5>1. rank[s] < n - 1
            BY <3>1, <4>2
          <5>2. g[s] = f[s]
            BY <4>2 DEF g
          <5> QED
            BY <2>3, <5>1, <5>2
        <4> QED
          BY <4>1, <4>2
      <3> QED
        BY <3>3, <3>4
    <2> HIDE DEF g
    <2>7. Agrees(g, n)
      BY <2>6
    <2> QED
      BY <2>4, <2>7
  <1>3. Bad = {}
    <2>1. Bad \subseteq Nat
      OBVIOUS
    <2> HIDE DEF Bad
    <2> QED
      BY <1>2, <2>1, LeastNumber
  <1>4. PICK f \in [S -> V] : Agrees(f, b)
    BY <1>3
  <1> QED
    BY <1>4

SumStep(f, g, s) ==
  IF s = {} THEN 0 ELSE LET x == CHOOSE x \in s : TRUE IN f[x] + g[s \ {x}]

\* The sum of equal numbers.
THEOREM SumOfSame ==
  ASSUME NEW T, IsFiniteSet(T), NEW d \in Int, NEW f, \A x \in T : f[x] = d
  PROVE  SumFunctionOnSet(f, T) = d * Cardinality(T)
  <1> DEFINE S == SUBSET T
             rank == [s \in S |-> Cardinality(s)]
             G == [p \in S \X [S -> Int] |-> SumStep(f, p[2], p[1])]
             C == CHOOSE g : g = [s \in S |-> SumStep(f, g, s)]
  <1>1. /\ Cardinality(T) \in Nat
        /\ \A s \in S : IsFiniteSet(s) /\ Cardinality(s) \in Nat /\ Cardinality(s) <= Cardinality(T)
    BY FS_Subset, FS_CardinalityType
  <1>2. ASSUME NEW s \in S, s # {}, NEW x, x = CHOOSE y \in s : TRUE
        PROVE  x \in s /\ s \ {x} \in S /\ Cardinality(s \ {x}) = Cardinality(s) - 1
    BY <1>1, <1>2, FS_RemoveElement
  <1>3. SumFunctionOnSet(f, T) = C[T]
    BY Zenon DEF SumFunctionOnSet, FoldFunctionOnSet, MapThenFoldSet, SumStep
  <1>4. \E g : g = [s \in S |-> SumStep(f, g, s)]
    <2>1. G \in [S \X [S -> Int] -> Int]
      <3>1. ASSUME NEW p \in S \X [S -> Int]
            PROVE  SumStep(f, p[2], p[1]) \in Int
        <4>1. CASE p[1] = {}
          BY <4>1 DEF SumStep
        <4>2. CASE p[1] # {}
          <5>1. PICK x : x = CHOOSE y \in p[1] : TRUE
            OBVIOUS
          <5>2. x \in p[1] /\ p[1] \ {x} \in S
            BY <1>2, <4>2, <5>1
          <5>3. f[x] \in Int /\ p[2][p[1] \ {x}] \in Int
            BY <5>2
          <5>4. SumStep(f, p[2], p[1]) = f[x] + p[2][p[1] \ {x}]
            BY <4>2, <5>1, Zenon DEF SumStep
          <5> QED
            BY <5>3, <5>4
        <4> QED
          BY <4>1, <4>2
      <3> QED
        BY <3>1
    <2>2. ASSUME NEW s \in S, NEW g \in [S -> Int], NEW h \in [S -> Int],
                 \A r \in S : rank[r] < rank[s] => g[r] = h[r]
          PROVE  G[<<s, g>>] = G[<<s, h>>]
      <3>1. SumStep(f, g, s) = SumStep(f, h, s)
        <4>1. CASE s = {}
          BY <4>1 DEF SumStep
        <4>2. CASE s # {}
          <5>1. PICK x : x = CHOOSE y \in s : TRUE
            OBVIOUS
          <5>2. s \ {x} \in S /\ Cardinality(s \ {x}) < Cardinality(s)
            <6>1. s \ {x} \in S /\ Cardinality(s \ {x}) = Cardinality(s) - 1
              BY <1>2, <4>2, <5>1
            <6>2. Cardinality(s) \in Nat
              BY <1>1
            <6> QED
              BY <6>1, <6>2
          <5>3. g[s \ {x}] = h[s \ {x}]
            BY <2>2, <5>2
          <5>4. /\ SumStep(f, g, s) = f[x] + g[s \ {x}]
                /\ SumStep(f, h, s) = f[x] + h[s \ {x}]
            BY <4>2, <5>1, Zenon DEF SumStep
          <5> QED
            BY <5>3, <5>4
        <4> QED
          BY <4>1, <4>2
      <3> QED
        BY <3>1
    <2>6. \A s \in S : \A g, h \in [S -> Int] :
            (\A r \in S : rank[r] < rank[s] => g[r] = h[r]) => G[<<s, g>>] = G[<<s, h>>]
      <3> HIDE DEF S, rank, G
      <3> QED
        BY <2>2
    <2>3. rank \in [S -> Nat] /\ \A s \in S : rank[s] < Cardinality(T) + 1
      BY <1>1
    <2> HIDE DEF G, rank
    <2>4. PICK g \in [S -> Int] : \A s \in S : g[s] = G[<<s, g>>]
      <3> HIDE DEF S
      <3>1. Cardinality(T) + 1 \in Nat
        BY <1>1
      <3>2. Int # {}
        <4>1. 0 \in Int
          OBVIOUS
        <4> QED
          BY <4>1, Zenon
      <3> QED
        <4>1. Recursion(S, Int, rank, Cardinality(T) + 1, G)
          BY <2>1, <2>6, <2>3, <3>1, <3>2 DEF Recursion
        <4> QED
          BY <4>1, RecursionByRank
    <2>5. g = [s \in S |-> SumStep(f, g, s)]
      BY <2>4 DEF G
    <2> QED
      BY <2>5
  <1>5. C = [s \in S |-> SumStep(f, C, s)]
    BY <1>4, Zenon
  <1> HIDE DEF C
  <1> DEFINE Bad == {n \in Nat : \E s \in S : Cardinality(s) = n /\ C[s] # d * n}
  <1>6. ASSUME NEW n \in Bad, \A m \in Bad : n <= m
        PROVE  FALSE
    <2>1. PICK s \in S : Cardinality(s) = n /\ C[s] # d * n
      OBVIOUS
    <2>2. C[s] = SumStep(f, C, s)
      BY <1>5
    <2>3. CASE s = {}
      <3>1. n = 0 /\ C[s] = 0
        BY <2>1, <2>2, <2>3, FS_EmptySet DEF SumStep
      <3> QED
        BY <2>1, <3>1
    <2>4. CASE s # {}
      <3>1. PICK x : x = CHOOSE y \in s : TRUE
        OBVIOUS
      <3>2. x \in s /\ s \ {x} \in S /\ Cardinality(s \ {x}) = n - 1 /\ n - 1 \in Nat
        BY <1>1, <1>2, <2>1, <2>4, <3>1
      <3>3. n - 1 \notin Bad
        <4>1. ~(n <= n - 1)
          BY <3>2
        <4> HIDE DEF Bad
        <4> QED
          BY <1>6, <4>1
      <3>4. C[s \ {x}] = d * (n - 1)
        BY <3>2, <3>3
      <3>5. C[s] = f[x] + C[s \ {x}]
        BY <2>2, <2>4, <3>1, Zenon DEF SumStep
      <3>6. f[x] = d
        BY <3>2
      <3>7. d + d * (n - 1) = d * n
        BY <3>2
      <3> QED
        BY <2>1, <3>4, <3>5, <3>6, <3>7
    <2> QED
      BY <2>3, <2>4
  <1>7. Bad = {}
    <2>1. Bad \subseteq Nat
      OBVIOUS
    <2> HIDE DEF Bad
    <2> QED
      BY <1>6, <2>1, LeastNumber
  <1>8. T \in S /\ Cardinality(T) \notin Bad
    BY <1>7
  <1> QED
    BY <1>1, <1>3, <1>8
=============================================================================
