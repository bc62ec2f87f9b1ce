-------------------------- MODULE ChangeList_proofs --------------------------
(***************************************************************************)
(* Proofs about the change list of the plan (ChangeList) and the tree it   *)
(* is shown in (Tree).  First what the walk of a tree lists: the walk is a *)
(* recursive function, so that there is one has to be proved, and what it  *)
(* lists goes from the longest paths up.  Then that the plugin's tree is   *)
(* always one whose rows were made by a walk, that the list follows the    *)
(* query, the view and the pins, and that a detail is of the plan.         *)
(***************************************************************************)
EXTENDS ChangeList, FiniteSetTheorems, FunctionTheorems, SequenceTheorems,
        WellFoundedInduction, TLAPS

-----------------------------------------------------------------------------
(* Least elements *)

\* None of the sets X is inside of T.
Minimal(T, X) == \A U \in X : U \subseteq T => U = T

\* Among subsets of a finite set there is one with none of the others inside.
LEMMA LeastSubset ==
  ASSUME NEW S, IsFiniteSet(S), NEW X, X \subseteq SUBSET S, X # {}
  PROVE  \E T \in X : Minimal(T, X)
<1>1. IsWellFoundedOn(StrictSubsetOrdering(S), SUBSET S)
  BY FS_StrictSubsetOrderingWellFounded, FS_FiniteSubsetsOfFinite
<1>2. PICK T \in X : \A U \in X : ~(<<U, T>> \in StrictSubsetOrdering(S))
  BY <1>1, WFMin
<1>3. \A U \in X : U \subseteq T /\ U # T => <<U, T>> \in StrictSubsetOrdering(S)
  <2> TAKE U \in X
  <2>1. U \in SUBSET S /\ T \in SUBSET S
    OBVIOUS
  <2> QED
    BY <2>1 DEF StrictSubsetOrdering
<1>4. Minimal(T, X)
  BY <1>2, <1>3 DEF Minimal
<1> QED
  BY <1>4

\* Among natural numbers there is a least one.
LEMMA LeastNumber ==
  ASSUME NEW X, X \subseteq Nat, X # {}
  PROVE  \E n \in X : \A m \in X : n <= m
<1>1. PICK k \in X : TRUE
  OBVIOUS
<1> DEFINE Y == {1 .. m : m \in {m \in X : m <= k}}
<1>2. k \in Nat /\ IsFiniteSet(1 .. k)
  BY <1>1, FS_Interval
<1>3. Y \subseteq SUBSET (1 .. k)
  BY <1>2
<1>4. Y # {}
  <2>1. 1 .. k \in Y
    BY <1>1, <1>2
  <2> QED
    BY <2>1
<1>5. PICK T \in Y : Minimal(T, Y)
  <2>1. IsFiniteSet(1 .. k)
    BY <1>2
  <2> HIDE DEF Y
  <2> QED
    BY <2>1, <1>3, <1>4, LeastSubset
<1>6. PICK n \in X : n <= k /\ T = 1 .. n
  OBVIOUS
<1>7. ASSUME NEW m \in X, m < n
      PROVE  FALSE
  <2>1. 1 .. m \in Y /\ m \in Nat /\ n \in Nat
    BY <1>2, <1>6, <1>7
  <2>2. 1 .. m \subseteq 1 .. n
    BY <1>7, <2>1
  <2>4. 1 .. m = 1 .. n
    BY <1>5, <1>6, <2>1, <2>2 DEF Minimal
  <2>3. n \in 1 .. n /\ n \notin 1 .. m
    BY <1>7, <2>1
  <2> QED
    BY <2>4, <2>3
<1>8. \A m \in X : n <= m
  BY <1>6, <1>7
<1> QED
  BY <1>8

\* A finite set of natural numbers has a bound.
LEMMA FiniteIsBounded ==
  ASSUME NEW S, IsFiniteSet(S), S \subseteq Nat
  PROVE  \E b \in Nat : \A n \in S : n <= b
<1> DEFINE Bound(T) == \E b \in Nat : \A n \in T : n <= b
           X == {T \in SUBSET S : ~Bound(T)}
<1>1. SUFFICES X = {}
  <2>1. S \notin X
    BY <1>1
  <2> QED
    BY <2>1
<1>2. SUFFICES ASSUME X # {} PROVE FALSE
  OBVIOUS
<1>3. PICK T \in X : Minimal(T, X)
  <2>1. X \subseteq SUBSET S
    OBVIOUS
  <2> HIDE DEF X
  <2> QED
    BY <1>2, <2>1, LeastSubset
<1>4. T # {}
  <2>1. Bound({})
    BY 0 \in Nat
  <2> QED
    BY <1>3, <2>1
<1>5. PICK x \in T : TRUE
  BY <1>4
<1>6. T \ {x} \notin X /\ T \ {x} \in SUBSET S
  BY <1>3, <1>5 DEF Minimal
<1>7. PICK b \in Nat : \A n \in T \ {x} : n <= b
  BY <1>6
<1>8. x \in Nat /\ T \subseteq Nat
  BY <1>3, <1>5
<1>9. \A n \in T : n <= IF x <= b THEN b ELSE x
  BY <1>7, <1>8
<1>10. (IF x <= b THEN b ELSE x) \in Nat
  BY <1>7, <1>8
<1> QED
  BY <1>3, <1>9, <1>10
-----------------------------------------------------------------------------
(* ByLabel *)

\* Those of ps whose label is not above that of p.
Upto(ps, p) == {q \in ps : Last(q) <= Last(p)}

\* What siblings are: paths with labels of their own.
Siblings(ps) ==
    /\ IsFiniteSet(ps) /\ ps \subseteq Seq(Nat) \ {<<>>}
    /\ \A p, q \in ps : Last(p) = Last(q) => p = q

\* A path has a label.
LEMMA LabelType ==
  ASSUME NEW p \in Seq(Nat) \ {<<>>}
  PROVE  Last(p) \in Nat
BY DEF Last

\* The higher label has the higher rank, and each rank is one of the numbers of
\* the siblings.
LEMMA RanksRise ==
  ASSUME NEW ps, Siblings(ps), NEW p \in ps, NEW q \in ps
  PROVE  /\ Cardinality(Upto(ps, p)) \in 1 .. Cardinality(ps)
         /\ Last(p) < Last(q) => Cardinality(Upto(ps, p)) < Cardinality(Upto(ps, q))
<1>1. /\ IsFiniteSet(ps) /\ \A r \in ps : Last(r) \in Nat
      /\ \A r \in ps : Upto(ps, r) \in SUBSET ps
  BY LabelType DEF Siblings, Upto
<1>2. \A r \in ps : /\ IsFiniteSet(Upto(ps, r)) /\ Cardinality(Upto(ps, r)) \in Nat
                    /\ Cardinality(Upto(ps, r)) <= Cardinality(ps)
  BY <1>1, FS_Subset, FS_CardinalityType
<1>3. Cardinality(ps) \in Nat
  BY <1>1, FS_CardinalityType
<1>4. p \in Upto(ps, p) /\ q \in Upto(ps, q)
  BY <1>1 DEF Upto
<1>5. Cardinality(Upto(ps, p)) # 0
  BY <1>2, <1>4, FS_EmptySet
<1>6. Cardinality(Upto(ps, p)) \in 1 .. Cardinality(ps)
  BY <1>2, <1>3, <1>5
<1>7. ASSUME Last(p) < Last(q)
      PROVE  Cardinality(Upto(ps, p)) < Cardinality(Upto(ps, q))
  <2>1. Upto(ps, p) \in SUBSET Upto(ps, q)
    BY <1>1, <1>7 DEF Upto
  <2>2. q \in Upto(ps, q) /\ q \notin Upto(ps, p)
    BY <1>1, <1>7 DEF Upto
  <2>3. Cardinality(Upto(ps, p)) <= Cardinality(Upto(ps, q))
    BY <1>2, <2>1, FS_Subset
  <2>4. Cardinality(Upto(ps, p)) # Cardinality(Upto(ps, q))
    BY <1>2, <2>1, <2>2, FS_Subset
  <2> QED
    BY <1>2, <2>3, <2>4
<1> QED
  BY <1>6, <1>7

\* Sorting siblings by label loses none and puts the lower label first.
LEMMA ByLabelSorts ==
  ASSUME NEW ps, Siblings(ps)
  PROVE  /\ ByLabel(ps) \in Seq(ps) /\ ToSet(ByLabel(ps)) = ps
         /\ \A i, j \in DOMAIN ByLabel(ps) :
               i < j => Last(ByLabel(ps)[i]) < Last(ByLabel(ps)[j])
<1> DEFINE rank(p) == Cardinality(Upto(ps, p))
           N == 1 .. Cardinality(ps)
           nth(n) == CHOOSE p \in ps : rank(p) = n
           f == [p \in ps |-> rank(p)]
<1>1. ByLabel(ps) = [n \in N |-> nth(n)]
  BY DEF ByLabel, Upto
<1>2. /\ IsFiniteSet(ps) /\ Cardinality(ps) \in Nat
      /\ \A p \in ps : Last(p) \in Nat
      /\ \A p, q \in ps : Last(p) = Last(q) => p = q
  BY LabelType, FS_CardinalityType DEF Siblings
<1>3. \A p \in ps : rank(p) \in N
  BY RanksRise
<1>4. \A p, q \in ps : Last(p) < Last(q) => rank(p) < rank(q)
  BY RanksRise
<1>5. \A p, q \in ps : rank(p) = rank(q) => p = q
  <2> TAKE p, q \in ps
  <2>1. rank(p) \in N /\ rank(q) \in N
    BY <1>3
  <2> HIDE DEF rank
  <2>2. rank(p) \in Int /\ rank(q) \in Int
    BY <2>1
  <2> QED
    BY <1>2, <1>4, <2>2
<1>6. f \in Injection(ps, N)
  <2>1. f \in [ps -> N]
    BY <1>3
  <2> QED
    BY <1>5, <2>1, Fun_IsInj
<1>7. IsFiniteSet(N) /\ Cardinality(N) = Cardinality(ps)
  <2> DEFINE c == Cardinality(ps)
  <2>1. c \in Nat
    BY <1>2
  <2> HIDE DEF c
  <2>2. IsFiniteSet(1 .. c) /\ Cardinality(1 .. c) = IF 1 > c THEN 0 ELSE c - 1 + 1
    BY <2>1, FS_Interval
  <2>3. Cardinality(1 .. c) = c
    BY <2>1, <2>2
  <2> QED
    BY <2>2, <2>3 DEF c
<1>8. f \in Surjection(ps, N)
  <2> HIDE DEF N, f
  <2> QED
    BY <1>6, <1>7, FS_Injection
<1>9. \A n \in N : \E p \in ps : rank(p) = n
  <2>1. \A p \in ps : f[p] = rank(p)
    OBVIOUS
  <2> HIDE DEF N, f, rank
  <2> QED
    BY <1>8, <2>1 DEF Surjection
<1> HIDE DEF N, rank, f
<1>10. \A n \in N : nth(n) \in ps /\ rank(nth(n)) = n
  BY <1>9
<1>11. \A p \in ps : nth(rank(p)) = p
  BY <1>3, <1>5, <1>10
<1> HIDE DEF nth
<1>12. ByLabel(ps) \in Seq(ps)
  BY <1>1, <1>2, <1>10 DEF N
<1>13. ToSet(ByLabel(ps)) = ps
  <2>1. ToSet(ByLabel(ps)) = {nth(n) : n \in N}
    BY <1>1 DEF ToSet
  <2> QED
    BY <1>3, <1>10, <1>11, <2>1
<1>14. ASSUME NEW i \in DOMAIN ByLabel(ps), NEW j \in DOMAIN ByLabel(ps), i < j
       PROVE  Last(ByLabel(ps)[i]) < Last(ByLabel(ps)[j])
  <2>1. i \in N /\ j \in N /\ ByLabel(ps)[i] = nth(i) /\ ByLabel(ps)[j] = nth(j)
    BY <1>1
  <2> DEFINE p == nth(i)
             q == nth(j)
  <2>2. p \in ps /\ q \in ps /\ rank(p) = i /\ rank(q) = j
    BY <1>10, <2>1
  <2>3. i \in Int /\ j \in Int
    BY <2>1 DEF N
  <2>4. Last(p) < Last(q)
    <3> HIDE DEF p, q
    <3>1. Last(p) \in Nat /\ Last(q) \in Nat
      BY <1>2, <2>2
    <3>2. ~(Last(q) < Last(p))
      BY <1>4, <1>14, <2>2, <2>3
    <3>3. Last(p) # Last(q)
      BY <1>2, <1>14, <2>2, <2>3
    <3> QED
      BY <3>1, <3>2, <3>3
  <2> QED
    BY <2>1, <2>4
<1> QED
  BY <1>12, <1>13, <1>14
-----------------------------------------------------------------------------
(* Sequences put one behind another *)

\* Each element of s, and each element of X, comes before what is behind it.
Sorted(s, B) == \A i, j \in DOMAIN s : i < j => <<s[i], s[j]>> \in B
AllBefore(X, Y, B) == \A x \in X, y \in Y : <<x, y>> \in B

\* Two sequences.
LEMMA ConcatSorts ==
  ASSUME NEW S, NEW s \in Seq(S), NEW u \in Seq(S), NEW B
  PROVE  /\ s \o u \in Seq(S) /\ ToSet(s \o u) = ToSet(s) \cup ToSet(u)
         /\ Sorted(s, B) /\ Sorted(u, B) /\ AllBefore(ToSet(s), ToSet(u), B)
              => Sorted(s \o u, B)
<1> DEFINE w == s \o u
<1>1. /\ w \in Seq(S) /\ Len(w) = Len(s) + Len(u)
      /\ \A i \in 1 .. Len(s) : w[i] = s[i]
      /\ \A i \in Len(s) + 1 .. Len(w) : w[i] = u[i - Len(s)]
      /\ Len(s) \in Nat /\ Len(u) \in Nat
      /\ DOMAIN w = 1 .. Len(w) /\ DOMAIN s = 1 .. Len(s) /\ DOMAIN u = 1 .. Len(u)
  OBVIOUS
<1> HIDE DEF w
<1>2. \A i \in DOMAIN u : i + Len(s) \in Len(s) + 1 .. Len(w) /\ w[i + Len(s)] = u[i]
  BY <1>1
<1>3. \A i \in DOMAIN w : \/ i \in DOMAIN s /\ w[i] = s[i]
                          \/ i - Len(s) \in DOMAIN u /\ w[i] = u[i - Len(s)]
  BY <1>1
<1>4. ToSet(w) = ToSet(s) \cup ToSet(u)
  <2>1. ToSet(w) \subseteq ToSet(s) \cup ToSet(u)
    BY <1>3 DEF ToSet
  <2>2. ToSet(s) \subseteq ToSet(w)
    BY <1>1 DEF ToSet
  <2>3. ToSet(u) \subseteq ToSet(w)
    <3>1. \A i \in DOMAIN u : i + Len(s) \in DOMAIN w
      BY <1>1, <1>2
    <3> QED
      BY <1>2, <3>1 DEF ToSet
  <2> QED
    BY <2>1, <2>2, <2>3
<1>5. ASSUME Sorted(s, B), Sorted(u, B), AllBefore(ToSet(s), ToSet(u), B),
             NEW i \in DOMAIN w, NEW j \in DOMAIN w, i < j
      PROVE  <<w[i], w[j]>> \in B
  <2>1. i \in Nat /\ j \in Nat
    BY <1>1
  <2>2. CASE i \in DOMAIN s /\ j \in DOMAIN s
    BY <1>1, <1>5, <2>2 DEF Sorted
  <2>3. CASE i \in DOMAIN s /\ j \notin DOMAIN s
    <3>1. j - Len(s) \in DOMAIN u /\ w[j] = u[j - Len(s)] /\ w[i] = s[i]
      BY <1>1, <1>3, <2>3
    <3> QED
      BY <1>5, <2>3, <3>1 DEF AllBefore, ToSet
  <2>4. CASE i \notin DOMAIN s
    <3>1. j \notin DOMAIN s
      BY <1>1, <1>5, <2>1, <2>4
    <3>2. /\ i - Len(s) \in DOMAIN u /\ w[i] = u[i - Len(s)]
          /\ j - Len(s) \in DOMAIN u /\ w[j] = u[j - Len(s)]
      BY <1>3, <2>4, <3>1
    <3>3. i - Len(s) < j - Len(s)
      BY <1>1, <1>5, <2>1
    <3> QED
      BY <1>5, <3>2, <3>3 DEF Sorted
  <2> QED
    BY <2>2, <2>3, <2>4
<1>6. Sorted(s, B) /\ Sorted(u, B) /\ AllBefore(ToSet(s), ToSet(u), B) => Sorted(w, B)
  BY <1>5 DEF Sorted
<1> QED
  BY <1>1, <1>4, <1>6 DEF w

\* What is in both.
LEMMA ConcatHolds ==
  ASSUME NEW S, NEW s \in Seq(S), NEW u \in Seq(S)
  PROVE  s \o u \in Seq(S) /\ ToSet(s \o u) = ToSet(s) \cup ToSet(u)
<1>1. AllBefore({}, {}, {})
  BY DEF AllBefore
<1> QED
  BY <1>1, ConcatSorts

\* What FlattenSeq has put together after m of the sequences.
Joins(f, seqs, m) ==
  f = [i \in 1 .. m |-> IF i = 1 THEN seqs[i] ELSE f[i - 1] \o seqs[i]]

\* Such a function there is for any number of sequences, one longer made of the
\* one before.
LEMMA JoinsExists ==
  ASSUME NEW seqs, NEW N \in Nat
  PROVE  \E f : Joins(f, seqs, N)
<1> DEFINE X == {m \in Nat : ~ \E f : Joins(f, seqs, m)}
<1>1. SUFFICES ASSUME X # {} PROVE FALSE
  OBVIOUS
<1>2. PICK m \in X : \A k \in X : m <= k
  <2>1. X \subseteq Nat
    OBVIOUS
  <2> HIDE DEF X
  <2> QED
    BY <1>1, <2>1, LeastNumber
<1>3. m \in Nat /\ ~ \E f : Joins(f, seqs, m)
  OBVIOUS
<1>4. m # 0
  <2> DEFINE f == [i \in 1 .. 0 |-> 0]
  <2>1. f = [i \in 1 .. 0 |-> IF i = 1 THEN seqs[i] ELSE f[i - 1] \o seqs[i]]
    OBVIOUS
  <2>2. Joins(f, seqs, 0)
    BY <2>1 DEF Joins
  <2> QED
    BY <1>3, <2>2
<1>5. m - 1 \in Nat /\ m - 1 \notin X
  <2>1. m - 1 \in Nat /\ ~(m <= m - 1)
    BY <1>3, <1>4
  <2> QED
    BY <1>2, <2>1
<1>6. PICK f : Joins(f, seqs, m - 1)
  BY <1>5
<1> DEFINE g == [i \in 1 .. m |-> IF i = 1 THEN seqs[i] ELSE f[i - 1] \o seqs[i]]
<1>7. \A i \in 1 .. m - 1 : g[i] = f[i]
  <2> TAKE i \in 1 .. m - 1
  <2>1. f = [j \in 1 .. m - 1 |-> IF j = 1 THEN seqs[j] ELSE f[j - 1] \o seqs[j]]
    BY <1>6 DEF Joins
  <2>2. i \in 1 .. m
    BY <1>3
  <2>3. f[i] = IF i = 1 THEN seqs[i] ELSE f[i - 1] \o seqs[i]
    BY <2>1
  <2> QED
    BY <2>2, <2>3
<1>8. \A i \in 1 .. m : i # 1 => i - 1 \in 1 .. m - 1
  BY <1>3
<1>9. \A i \in 1 .. m : i # 1 => g[i - 1] = f[i - 1]
  BY <1>7, <1>8
<1>10. g = [i \in 1 .. m |-> IF i = 1 THEN seqs[i] ELSE g[i - 1] \o seqs[i]]
  <2>1. \A i \in 1 .. m : (IF i = 1 THEN seqs[i] ELSE f[i - 1] \o seqs[i])
                           = IF i = 1 THEN seqs[i] ELSE g[i - 1] \o seqs[i]
    BY <1>9
  <2> DEFINE a(i) == IF i = 1 THEN seqs[i] ELSE f[i - 1] \o seqs[i]
             b(i) == IF i = 1 THEN seqs[i] ELSE g[i - 1] \o seqs[i]
  <2>2. \A i \in 1 .. m : a(i) = b(i)
    BY <2>1
  <2>3. g = [i \in 1 .. m |-> a(i)]
    OBVIOUS
  <2>4. [i \in 1 .. m |-> a(i)] = [i \in 1 .. m |-> b(i)]
    <3> HIDE DEF a, b
    <3> QED
      BY <2>2
  <2>5. g = [i \in 1 .. m |-> b(i)]
    BY <2>3, <2>4
  <2> QED
    BY <2>5
<1> HIDE DEF g
<1> QED
  BY <1>3, <1>10 DEF Joins

\* What FlattenSeq returns is in what it has put together of all of them.
LEMMA FlattenJoins ==
  ASSUME NEW seqs, Len(seqs) \in Nat, Len(seqs) # 0
  PROVE  \E f : Joins(f, seqs, Len(seqs)) /\ FlattenSeq(seqs) = f[Len(seqs)]
<1> DEFINE N == Len(seqs)
           f == CHOOSE g : g = [i \in 1 .. N |-> IF i = 1 THEN seqs[i] ELSE g[i - 1] \o seqs[i]]
<1>1. FlattenSeq(seqs) = f[N]
  BY DEF FlattenSeq
<1>2. \E g : g = [i \in 1 .. N |-> IF i = 1 THEN seqs[i] ELSE g[i - 1] \o seqs[i]]
  BY JoinsExists DEF Joins
<1>3. f = [i \in 1 .. N |-> IF i = 1 THEN seqs[i] ELSE f[i - 1] \o seqs[i]]
  BY <1>2
<1>4. Joins(f, seqs, N)
  BY <1>3 DEF Joins
<1> QED
  BY <1>1, <1>4
\* All that is in the first m of the sequences.
Gathered(seqs, m) == UNION {ToSet(seqs[k]) : k \in 1 .. m}

\* Sequences in order, one behind another, are a sequence of what is in them, in
\* order.
LEMMA FlattenSorts ==
  ASSUME NEW S, NEW N \in Nat, NEW seqs \in [1 .. N -> Seq(S)], NEW B
  PROVE  /\ FlattenSeq(seqs) \in Seq(S) /\ ToSet(FlattenSeq(seqs)) = Gathered(seqs, N)
         /\ (\A k \in 1 .. N : Sorted(seqs[k], B))
            /\ (\A k, l \in 1 .. N : k < l => AllBefore(ToSet(seqs[k]), ToSet(seqs[l]), B))
              => Sorted(FlattenSeq(seqs), B)
<1> DEFINE InOrderAll == /\ \A k \in 1 .. N : Sorted(seqs[k], B)
                         /\ \A k, l \in 1 .. N :
                              k < l => AllBefore(ToSet(seqs[k]), ToSet(seqs[l]), B)
<1>0. Len(seqs) = N /\ seqs \in Seq(Seq(S))
  OBVIOUS
<1>1. CASE N = 0
  <2>1. seqs = <<>>
    BY <1>1
  <2>2. FlattenSeq(seqs) = <<>>
    BY <2>1 DEF FlattenSeq
  <2>3. Gathered(seqs, N) = {}
    BY <1>1 DEF Gathered
  <2>4. Sorted(<<>>, B) /\ ToSet(<<>>) = {} /\ <<>> \in Seq(S)
    BY DEF Sorted, ToSet
  <2> QED
    BY <2>2, <2>3, <2>4
<1>2. CASE N # 0
  <2>1. PICK f : Joins(f, seqs, N) /\ FlattenSeq(seqs) = f[N]
    BY <1>0, <1>2, FlattenJoins
  <2>2. \A i \in 1 .. N : f[i] = IF i = 1 THEN seqs[i] ELSE f[i - 1] \o seqs[i]
    <3>1. f = [i \in 1 .. N |-> IF i = 1 THEN seqs[i] ELSE f[i - 1] \o seqs[i]]
      BY <2>1 DEF Joins
    <3> QED
      BY <3>1
  <2> DEFINE Good(i) == /\ f[i] \in Seq(S) /\ ToSet(f[i]) = Gathered(seqs, i)
                        /\ InOrderAll => Sorted(f[i], B)
             X == {i \in 1 .. N : ~Good(i)}
  <2>3. X = {}
    <3>1. SUFFICES ASSUME X # {} PROVE FALSE
      OBVIOUS
    <3>2. PICK m \in X : \A k \in X : m <= k
      <4>1. X \subseteq Nat
        OBVIOUS
      <4> HIDE DEF X
      <4> QED
        BY <3>1, <4>1, LeastNumber
    <3>3. m \in 1 .. N /\ ~Good(m)
      OBVIOUS
    <3>4. m # 1
      <4>1. ASSUME m = 1 PROVE Good(1)
        <5>1. f[1] = seqs[1] /\ 1 \in 1 .. N
          BY <2>2, <3>3, <4>1
        <5>2. Gathered(seqs, 1) = ToSet(seqs[1])
          <6>1. \A k : k \in 1 .. 1 <=> k = 1
            OBVIOUS
          <6> QED
            BY <6>1 DEF Gathered
        <5> QED
          BY <5>1, <5>2
      <4> QED
        BY <3>3, <4>1
    <3>5. m - 1 \in 1 .. N /\ Good(m - 1)
      <4>1. m - 1 \in 1 .. N /\ ~(m <= m - 1)
        BY <3>3, <3>4
      <4>2. m - 1 \notin X
        <5> HIDE DEF X
        <5> QED
          BY <3>2, <4>1
      <4> QED
        BY <4>1, <4>2
    <3>6. f[m] = f[m - 1] \o seqs[m] /\ seqs[m] \in Seq(S)
      BY <2>2, <3>3, <3>4
    <3>7. f[m] \in Seq(S) /\ ToSet(f[m]) = ToSet(f[m - 1]) \cup ToSet(seqs[m])
      <4>1. f[m - 1] \in Seq(S)
        BY <3>5
      <4>2. /\ f[m - 1] \o seqs[m] \in Seq(S)
            /\ ToSet(f[m - 1] \o seqs[m]) = ToSet(f[m - 1]) \cup ToSet(seqs[m])
        BY <3>6, <4>1, ConcatHolds
      <4> QED
        BY <3>6, <4>2
    <3>8. Gathered(seqs, m) = Gathered(seqs, m - 1) \cup ToSet(seqs[m])
      <4>1. \A k : k \in 1 .. m <=> k \in 1 .. m - 1 \/ k = m
        BY <3>3
      <4> QED
        BY <4>1 DEF Gathered
    <3>9. ASSUME InOrderAll PROVE Sorted(f[m], B)
      <4>1. Sorted(f[m - 1], B) /\ Sorted(seqs[m], B)
        BY <3>3, <3>5, <3>9
      <4>2. AllBefore(ToSet(f[m - 1]), ToSet(seqs[m]), B)
        <5>1. \A k \in 1 .. m - 1 : k \in 1 .. N /\ k < m
          BY <3>3
        <5>2. \A k \in 1 .. m - 1 : AllBefore(ToSet(seqs[k]), ToSet(seqs[m]), B)
          BY <3>3, <3>9, <5>1
        <5>3. ToSet(f[m - 1]) = Gathered(seqs, m - 1)
          BY <3>5
        <5> QED
          BY <5>2, <5>3 DEF Gathered, AllBefore
      <4> QED
        BY <3>5, <3>6, <4>1, <4>2, ConcatSorts
    <3>10. Good(m)
      BY <3>5, <3>7, <3>8, <3>9
    <3> QED
      BY <3>3, <3>10
  <2>4. N \in 1 .. N /\ Good(N)
    <3>1. \A i \in 1 .. N : Good(i)
      <4> HIDE DEF Good
      <4> QED
        BY <2>3
    <3> HIDE DEF Good
    <3> QED
      BY <1>2, <3>1
  <2> QED
    BY <2>1, <2>4
<1> QED
  BY <1>1, <1>2

-----------------------------------------------------------------------------
(* The walk *)

\* What walkChildren lists below the module p, given what it lists below those
\* in it.
Below(t, f, c) == <<c>> \o IF c \in t.open THEN f[c] ELSE <<>>
Opened(t, f, p) ==
  [k \in DOMAIN Children(Paths(t), p) |-> Below(t, f, Children(Paths(t), p)[k])]
Listing(t, f, p) == FlattenSeq(Opened(t, f, p)) \o Leaves(t, p)

\* f is the walk of the modules D.
Walks(t, f, D) == f = [p \in D |-> Listing(t, f, p)]

\* The rows are those of a walk, if there is one.
LEMMA WalkTreeWalks ==
  ASSUME NEW t, NEW g, Walks(t, g, Paths(t))
  PROVE  \E f : Walks(t, f, Paths(t)) /\ WalkTree(t) = f[Root]
<1> DEFINE W == CHOOSE f : f = [p \in Paths(t) |->
               FlattenSeq([k \in DOMAIN Children(Paths(t), p) |->
                  <<Children(Paths(t), p)[k]>>
                    \o IF Children(Paths(t), p)[k] \in t.open
                       THEN f[Children(Paths(t), p)[k]] ELSE <<>>])
               \o Leaves(t, p)]
<1>1. WalkTree(t) = W[Root]
  BY DEF WalkTree
<1>2. Walks(t, W, Paths(t))
  <2>1. W = CHOOSE f : Walks(t, f, Paths(t))
    BY DEF Walks, Listing, Opened, Below
  <2> HIDE DEF W
  <2> QED
    BY <2>1
<1> QED
  BY <1>1, <1>2
-----------------------------------------------------------------------------
(* Paths *)

\* The images of finitely many are finitely many.
LEMMA ImageIsFinite ==
  ASSUME NEW S, IsFiniteSet(S), NEW f, f = [x \in S |-> f[x]]
  PROVE  IsFiniteSet({f[x] : x \in S})
<1> DEFINE T == {f[x] : x \in S}
<1>1. f \in [S -> T]
  BY Zenon
<1>2. \A y \in T : \E x \in S : f[x] = y
  OBVIOUS
<1> HIDE DEF T
<1>3. f \in Surjection(S, T)
  BY <1>1, <1>2 DEF Surjection
<1>4. IsFiniteSet(T)
  BY <1>3, FS_Surjection
<1> QED
  BY <1>4 DEF T

\* A sequence has finitely many elements.
LEMMA RangeIsFinite ==
  ASSUME NEW S, NEW s \in Seq(S)
  PROVE  IsFiniteSet(ToSet(s)) /\ ToSet(s) \subseteq S
<1>1. IsFiniteSet(1 .. Len(s)) /\ DOMAIN s = 1 .. Len(s)
  BY FS_Interval
<1>2. s = [i \in DOMAIN s |-> s[i]]
  OBVIOUS
<1>3. IsFiniteSet({s[i] : i \in DOMAIN s})
  BY <1>1, <1>2, ImageIsFinite
<1>4. ToSet(s) \subseteq S
  BY DEF ToSet
<1> QED
  BY <1>3, <1>4 DEF ToSet

\* What is in front of a path, and its label.
LEMMA FrontLast ==
  ASSUME NEW p \in Seq(Nat) \ {<<>>}
  PROVE  /\ Len(p) \in Nat \ {0}
         /\ Front(p) \in Seq(Nat) /\ Len(Front(p)) = Len(p) - 1
         /\ \A i \in 1 .. Len(p) - 1 : Front(p)[i] = p[i]
         /\ \A q \in Seq(Nat) \ {<<>>} : Front(q) = Front(p) /\ Last(q) = Last(p) => q = p
<1>1. \A q \in Seq(Nat) \ {<<>>} :
        /\ Len(q) \in Nat \ {0}
        /\ Front(q) \in Seq(Nat) /\ Len(Front(q)) = Len(q) - 1
        /\ \A i \in 1 .. Len(q) - 1 : Front(q)[i] = q[i]
        /\ q[Len(q)] = Last(q)
  <2> TAKE q \in Seq(Nat) \ {<<>>}
  <2>1. Len(q) \in Nat /\ Len(q) # 0
    OBVIOUS
  <2>2. \A i \in 1 .. Len(q) - 1 : q[i] \in Nat
    BY <2>1
  <2>3. /\ SubSeq(q, 1, Len(q) - 1) \in Seq(Nat)
        /\ Len(SubSeq(q, 1, Len(q) - 1)) = Len(q) - 1
        /\ \A i \in 1 .. Len(q) - 1 : SubSeq(q, 1, Len(q) - 1)[i] = q[i]
    <3> DEFINE n == Len(q) - 1
    <3>1. n \in Int /\ 1 \in Int /\ n >= 0
      BY <2>1
    <3>2. \A i \in 1 .. n : q[i] \in Nat
      BY <2>2
    <3> HIDE DEF n
    <3>3. /\ SubSeq(q, 1, n) \in Seq(Nat)
          /\ Len(SubSeq(q, 1, n)) = IF 1 <= n THEN n - 1 + 1 ELSE 0
          /\ \A i \in 1 .. n - 1 + 1 : SubSeq(q, 1, n)[i] = q[1 + i - 1]
      BY <3>1, <3>2, SubSeqProperties
    <3>4. Len(SubSeq(q, 1, n)) = n /\ \A i \in 1 .. n : SubSeq(q, 1, n)[i] = q[i]
      BY <3>1, <3>3
    <3> QED
      BY <3>3, <3>4 DEF n
  <2>4. Front(q) = SubSeq(q, 1, Len(q) - 1) /\ Last(q) = q[Len(q)]
    BY DEF Front, Last
  <2> QED
    BY <2>1, <2>3, <2>4
<1>2. ASSUME NEW q \in Seq(Nat) \ {<<>>}, Front(q) = Front(p), Last(q) = Last(p)
      PROVE  q = p
  <2>1. Len(q) = Len(p)
    BY <1>1, <1>2
  <2>2. \A i \in 1 .. Len(p) : q[i] = p[i]
    <3> TAKE i \in 1 .. Len(p)
    <3>1. CASE i = Len(p)
      BY <1>1, <1>2, <2>1, <3>1
    <3>2. CASE i # Len(p)
      <4>1. i \in 1 .. Len(p) - 1
        BY <1>1, <3>2
      <4> QED
        BY <1>1, <1>2, <2>1, <4>1
    <3> QED
      BY <3>1, <3>2
  <2> QED
    BY <2>1, <2>2, SeqEqual
<1> QED
  BY <1>1, <1>2

\* The part of a path that ends at its n-th segment.
LEMMA Parts ==
  ASSUME NEW a \in Seq(Nat), NEW n \in 0 .. Len(a)
  PROVE  /\ SubSeq(a, 1, n) \in Seq(Nat) /\ Len(SubSeq(a, 1, n)) = n
         /\ \A i \in 1 .. n : SubSeq(a, 1, n)[i] = a[i]
         /\ \A m \in 0 .. n : SubSeq(SubSeq(a, 1, n), 1, m) = SubSeq(a, 1, m)
<1>1. \A m \in 0 .. Len(a) : /\ SubSeq(a, 1, m) \in Seq(Nat) /\ Len(SubSeq(a, 1, m)) = m
                             /\ \A i \in 1 .. m : SubSeq(a, 1, m)[i] = a[i]
  OBVIOUS
<1>2. ASSUME NEW m \in 0 .. n
      PROVE  SubSeq(SubSeq(a, 1, n), 1, m) = SubSeq(a, 1, m)
  <2> DEFINE b == SubSeq(a, 1, n)
  <2>1. b \in Seq(Nat) /\ Len(b) = n /\ \A i \in 1 .. n : b[i] = a[i]
    BY <1>1
  <2> HIDE DEF b
  <2>2. m \in 0 .. Len(b) /\ m \in 0 .. Len(a)
    BY <2>1
  <2>3. /\ SubSeq(b, 1, m) \in Seq(Nat) /\ Len(SubSeq(b, 1, m)) = m
        /\ \A i \in 1 .. m : SubSeq(b, 1, m)[i] = b[i]
    BY <2>1, <2>2
  <2>4. \A i \in 1 .. m : SubSeq(b, 1, m)[i] = SubSeq(a, 1, m)[i]
    BY <1>1, <2>1, <2>2, <2>3
  <2>5. SubSeq(b, 1, m) = SubSeq(a, 1, m)
    BY <1>1, <2>2, <2>3, <2>4
  <2> QED
    BY <2>5 DEF b
<1> QED
  BY <1>1, <1>2

\* What a tree is made of.
Planted(t) == t.items \in Seq(Addrs) /\ t.nested \in BOOLEAN

\* The modules of a tree are finitely many: the root and proper parts of the
\* addresses in it.
LEMMA PathFacts ==
  ASSUME NEW t, Planted(t)
  PROVE  /\ IsFiniteSet(Paths(t)) /\ Paths(t) \subseteq Seq(Nat) /\ Root \in Paths(t)
         /\ IsFiniteSet(ToSet(t.items)) /\ ToSet(t.items) \subseteq Addrs
         /\ Addrs \subseteq Seq(Nat) \ {<<>>}
         /\ ~t.nested => Paths(t) = {Root}
         /\ t.nested => \A q : q \in Paths(t) \ {Root} <=>
              \E a \in ToSet(t.items) : \E n \in 1 .. Len(a) - 1 : q = SubSeq(a, 1, n)
<1> DEFINE A == ToSet(t.items)
           parts(a) == {SubSeq(a, 1, n) : n \in 1 .. Len(a) - 1}
<1>1. /\ IsFiniteSet(A) /\ A \subseteq Addrs
      /\ Addrs \subseteq Seq(Nat) \ {<<>>}
  BY RangeIsFinite, TreeAssumption DEF Planted
<1>2. ASSUME NEW a \in A
      PROVE  IsFiniteSet(parts(a)) /\ parts(a) \subseteq Seq(Nat) \ {<<>>}
  <2> DEFINE f == [n \in 1 .. Len(a) - 1 |-> SubSeq(a, 1, n)]
  <2>1. a \in Seq(Nat) /\ Len(a) \in Nat
    BY <1>1
  <2>2. IsFiniteSet(1 .. Len(a) - 1)
    BY <2>1, FS_Interval
  <2>3. f = [n \in 1 .. Len(a) - 1 |-> f[n]] /\ parts(a) = {f[n] : n \in 1 .. Len(a) - 1}
    OBVIOUS
  <2>4. IsFiniteSet(parts(a))
    <3> HIDE DEF f, parts
    <3> QED
      BY <2>2, <2>3, ImageIsFinite
  <2>5. parts(a) \subseteq Seq(Nat) \ {<<>>}
    <3> SUFFICES ASSUME NEW n \in 1 .. Len(a) - 1
                 PROVE  SubSeq(a, 1, n) \in Seq(Nat) \ {<<>>}
      OBVIOUS
    <3>1. n \in 0 .. Len(a) /\ n # 0
      BY <2>1
    <3>2. SubSeq(a, 1, n) \in Seq(Nat) /\ Len(SubSeq(a, 1, n)) # 0
      BY <2>1, <3>1, Parts
    <3> QED
      BY <3>2
  <2> QED
    BY <2>4, <2>5
<1> DEFINE g == [a \in A |-> parts(a)]
<1>3. /\ g = [a \in A |-> g[a]] /\ {g[a] : a \in A} = {parts(a) : a \in A}
      /\ ModulesOf(A) = {Root} \cup UNION {parts(a) : a \in A}
  BY DEF ModulesOf
<1>4. IsFiniteSet({parts(a) : a \in A})
  <2> HIDE DEF g, A, parts
  <2>1. IsFiniteSet({g[a] : a \in A})
    BY <1>1, <1>3, ImageIsFinite
  <2> QED
    BY <1>3, <2>1
<1>5. IsFiniteSet(UNION {parts(a) : a \in A})
  <2> HIDE DEF A, parts
  <2> QED
    BY <1>2, <1>4, FS_UNION
<1>6. IsFiniteSet(ModulesOf(A))
  <2> DEFINE U == UNION {parts(a) : a \in A}
  <2>1. IsFiniteSet({Root}) /\ IsFiniteSet(U)
    BY <1>5, FS_Singleton
  <2>2. IsFiniteSet({Root} \cup U)
    <3> HIDE DEF U
    <3> QED
      BY <2>1, FS_Union
  <2> QED
    BY <1>3, <2>2
<1>7. UNION {parts(a) : a \in A} \subseteq Seq(Nat) \ {<<>>}
  <2> HIDE DEF A, parts
  <2> QED
    BY <1>2
<1>8. \A q : q \in ModulesOf(A) \ {Root} <=> \E a \in A : q \in parts(a)
  <2> HIDE DEF A, parts
  <2> QED
    BY <1>3, <1>7 DEF Root
<1>9. ModulesOf(A) \subseteq Seq(Nat)
  <2>1. Root \in Seq(Nat)
    BY DEF Root
  <2> HIDE DEF A, parts
  <2> QED
    BY <1>3, <1>7, <2>1
<1>10. IsFiniteSet({Root}) /\ {Root} \subseteq Seq(Nat)
  <2>1. IsFiniteSet({Root})
    BY FS_Singleton
  <2>2. Root \in Seq(Nat)
    BY DEF Root
  <2> QED
    BY <2>1, <2>2
<1>11. Root \in ModulesOf(A)
  BY DEF ModulesOf
<1> QED
  BY <1>1, <1>6, <1>8, <1>9, <1>10, <1>11 DEF Paths, Planted
\* The paths of ps right below p.
Kids(ps, p) == {q \in ps \ {Root} : Front(q) = p}

\* They are siblings, one segment longer than p, and Children and Leaves list
\* them.
LEMMA KidsFacts ==
  ASSUME NEW ps, IsFiniteSet(ps), ps \subseteq Seq(Nat), NEW p
  PROVE  /\ Siblings(Kids(ps, p)) /\ Kids(ps, p) \subseteq ps \ {Root}
         /\ \A c \in Kids(ps, p) : Front(c) = p /\ Len(c) = Len(p) + 1
<1> DEFINE K == Kids(ps, p)
<1>1. K \subseteq ps \ {Root} /\ \A c \in K : Front(c) = p
  BY DEF Kids
<1>2. K \subseteq Seq(Nat) \ {<<>>}
  BY <1>1 DEF Root
<1>3. IsFiniteSet(K)
  BY <1>1, FS_Subset
<1> HIDE DEF K
<1>4. \A c, d \in K : Last(c) = Last(d) => c = d
  BY <1>1, <1>2, FrontLast
<1>5. \A c \in K : Len(c) = Len(p) + 1
  <2> TAKE c \in K
  <2>1. Len(c) \in Nat \ {0} /\ Len(Front(c)) = Len(c) - 1 /\ Front(c) = p
    BY <1>1, <1>2, FrontLast
  <2> QED
    BY <2>1
<1>6. Siblings(K)
  BY <1>2, <1>3, <1>4 DEF Siblings
<1> QED
  BY <1>1, <1>5, <1>6 DEF K

\* Children lists the modules right below p by label.
LEMMA ChildrenFacts ==
  ASSUME NEW ps, IsFiniteSet(ps), ps \subseteq Seq(Nat), NEW p
  PROVE  /\ Children(ps, p) \in Seq(Kids(ps, p)) /\ ToSet(Children(ps, p)) = Kids(ps, p)
         /\ \A i, j \in DOMAIN Children(ps, p) :
               i < j => Last(Children(ps, p)[i]) < Last(Children(ps, p)[j])
<1>1. Children(ps, p) = ByLabel(Kids(ps, p))
  BY DEF Children, Kids
<1>2. Siblings(Kids(ps, p))
  BY KidsFacts
<1> QED
  BY <1>1, <1>2, ByLabelSorts

\* What is listed below p depends on what is listed below the modules in it.
LEMMA ListingDepends ==
  ASSUME NEW t, Planted(t), NEW p, NEW f, NEW g,
         \A c \in Kids(Paths(t), p) : f[c] = g[c]
  PROVE  Listing(t, f, p) = Listing(t, g, p)
<1> DEFINE cs == Children(Paths(t), p)
<1>1. \A k \in DOMAIN cs : cs[k] \in Kids(Paths(t), p)
  <2>1. ToSet(cs) = Kids(Paths(t), p)
    BY PathFacts, ChildrenFacts
  <2> HIDE DEF cs
  <2> QED
    BY <2>1 DEF ToSet
<1>2. \A k \in DOMAIN cs : Below(t, f, cs[k]) = Below(t, g, cs[k])
  BY <1>1 DEF Below
<1>3. Opened(t, f, p) = Opened(t, g, p)
  BY <1>2 DEF Opened
<1> QED
  BY <1>3 DEF Listing

\* No path is longer than some number.
LEMMA PathsAreBounded ==
  ASSUME NEW ps, IsFiniteSet(ps), \A p \in ps : Len(p) \in Nat
  PROVE  \E M \in Nat : \A p \in ps : Len(p) <= M
<1> DEFINE g == [p \in ps |-> Len(p)]
           L == {g[p] : p \in ps}
<1>1. g = [p \in ps |-> g[p]] /\ (\A p \in ps : g[p] = Len(p)) /\ L \subseteq Nat
  OBVIOUS
<1>2. IsFiniteSet(L)
  <2> HIDE DEF g
  <2> QED
    BY <1>1, ImageIsFinite
<1>3. PICK b \in Nat : \A n \in L : n <= b
  <2> HIDE DEF L
  <2> QED
    BY <1>1, <1>2, FiniteIsBounded
<1> QED
  BY <1>3

\* A tree can be walked: from the longest paths up, each module is listed when
\* those in it are.
LEMMA WalkExists ==
  ASSUME NEW t, Planted(t)
  PROVE  \E f : Walks(t, f, Paths(t))
<1> DEFINE ps == Paths(t)
<1>0. IsFiniteSet(ps) /\ ps \subseteq Seq(Nat) /\ \A p \in ps : Len(p) \in Nat
  BY PathFacts
<1>1. PICK M \in Nat : \A p \in ps : Len(p) <= M
  BY <1>0, PathsAreBounded
<1> DEFINE D(m) == {p \in ps : Len(p) + m > M}
           X == {m \in Nat : ~ \E f : Walks(t, f, D(m))}
<1>2. X = {}
  <2>1. SUFFICES ASSUME X # {} PROVE FALSE
    OBVIOUS
  <2>2. PICK m \in X : \A k \in X : m <= k
    <3>1. X \subseteq Nat
      OBVIOUS
    <3> HIDE DEF X
    <3> QED
      BY <2>1, <3>1, LeastNumber
  <2>3. m \in Nat /\ ~ \E f : Walks(t, f, D(m))
    OBVIOUS
  <2>4. m # 0
    <3> DEFINE f == [p \in {} |-> 0]
    <3>1. D(0) = {}
      BY <1>0, <1>1
    <3>2. f = [p \in {} |-> Listing(t, f, p)]
      OBVIOUS
    <3>3. Walks(t, f, {})
      BY <3>2 DEF Walks
    <3> HIDE DEF f, D
    <3> QED
      BY <2>3, <3>1, <3>3
  <2>5. m - 1 \in Nat /\ m - 1 \notin X
    <3>1. m - 1 \in Nat /\ ~(m <= m - 1)
      BY <2>3, <2>4
    <3> HIDE DEF X
    <3> QED
      BY <2>2, <3>1
  <2>6. PICK f : Walks(t, f, D(m - 1))
    BY <2>5
  <2> DEFINE g == [p \in D(m) |-> Listing(t, f, p)]
  <2>7. D(m - 1) \subseteq D(m)
    BY <1>0, <1>1, <2>3
  <2>8. \A p \in D(m) : \A c \in Kids(ps, p) : c \in D(m - 1)
    <3> TAKE p \in D(m)
    <3> TAKE c \in Kids(ps, p)
    <3>1. c \in ps /\ Len(c) = Len(p) + 1
      BY <1>0, KidsFacts
    <3>2. Len(p) \in Nat /\ Len(p) + m > M
      BY <1>0
    <3>3. Len(c) + (m - 1) > M
      BY <1>1, <2>3, <3>1, <3>2
    <3> QED
      BY <3>1, <3>3
  <2>9. \A c \in D(m - 1) : f[c] = g[c]
    <3> TAKE c \in D(m - 1)
    <3>1. f = [p \in D(m - 1) |-> Listing(t, f, p)]
      BY <2>6 DEF Walks
    <3> HIDE DEF D
    <3>2. f[c] = Listing(t, f, c)
      BY <3>1
    <3>3. g[c] = Listing(t, f, c)
      BY <2>7
    <3> QED
      BY <3>2, <3>3
  <2> HIDE DEF D
  <2>10. \A p \in D(m) : Listing(t, f, p) = Listing(t, g, p)
    <3> TAKE p \in D(m)
    <3>1. \A c \in Kids(ps, p) : f[c] = g[c]
      BY <2>8, <2>9
    <3> HIDE DEF g
    <3> QED
      BY <3>1, ListingDepends
  <2>11. Walks(t, g, D(m))
    <3>1. [p \in D(m) |-> Listing(t, f, p)] = [p \in D(m) |-> Listing(t, g, p)]
      <4> HIDE DEF g
      <4> QED
        BY <2>10
    <3>2. g = [p \in D(m) |-> Listing(t, g, p)]
      <4>1. g = [p \in D(m) |-> Listing(t, f, p)]
        OBVIOUS
      <4> HIDE DEF g
      <4> QED
        BY <3>1, <4>1
    <3> HIDE DEF g
    <3> QED
      BY <3>2 DEF Walks
  <2> HIDE DEF g
  <2> QED
    BY <2>3, <2>11
<1>3. D(M + 1) = ps
  BY <1>0, <1>1
<1>4. M + 1 \in Nat
  BY <1>1
<1>5. \E f : Walks(t, f, D(M + 1))
  <2> HIDE DEF D
  <2> QED
    BY <1>2, <1>4
<1> HIDE DEF D
<1> QED
  BY <1>3, <1>5
-----------------------------------------------------------------------------
(* What a walk lists *)

\* What may be a row, and what is one below p: what lies in open modules only.
Rows(t) == (Paths(t) \ {Root}) \cup ToSet(t.items)
Seen(t, p) ==
  {r \in Rows(t) : /\ Len(p) < Len(r) /\ SubSeq(r, 1, Len(p)) = p
                   /\ \A n \in Len(p) + 1 .. Len(r) - 1 : SubSeq(r, 1, n) \in t.open}

\* Row r stands above row s: it is a module s is in, or where they part it is a
\* module and s is not, or its label is the lower one.
Goes(t, r, s) ==
  \/ IsStrictPrefix(r, s)
  \/ \E n \in 1 .. Len(r) :
       /\ n <= Len(s) /\ SubSeq(r, 1, n - 1) = SubSeq(s, 1, n - 1) /\ r[n] # s[n]
       /\ LET rl == IsLeaf(t, r) /\ n = Len(r)
              sl == IsLeaf(t, s) /\ n = Len(s)
          IN  (~rl /\ sl) \/ (rl = sl /\ r[n] < s[n])
Ahead(t) == {x \in Rows(t) \X Rows(t) : Goes(t, x[1], x[2])}

\* Rows are paths and addresses; what a row lies in is a module; no module is a
\* leaf.
LEMMA RowFacts ==
  ASSUME NEW t, Planted(t), t.nested
  PROVE  /\ Rows(t) \subseteq Seq(Nat) \ {<<>>}
         /\ \A r \in Rows(t) : \A n \in 1 .. Len(r) - 1 : SubSeq(r, 1, n) \in Paths(t) \ {Root}
         /\ \A q \in Paths(t) : ~ IsLeaf(t, q)
<1>1. /\ Paths(t) \subseteq Seq(Nat)
      /\ ToSet(t.items) \subseteq Addrs /\ Addrs \subseteq Seq(Nat) \ {<<>>}
      /\ \A q : q \in Paths(t) \ {Root} <=>
           \E a \in ToSet(t.items) : \E n \in 1 .. Len(a) - 1 : q = SubSeq(a, 1, n)
  BY PathFacts
<1>2. Rows(t) \subseteq Seq(Nat) \ {<<>>}
  BY <1>1 DEF Rows, Root
<1>3. ASSUME NEW r \in Rows(t), NEW n \in 1 .. Len(r) - 1
      PROVE  SubSeq(r, 1, n) \in Paths(t) \ {Root}
  <2>1. CASE r \in ToSet(t.items)
    BY <1>1, <1>3, <2>1
  <2>2. CASE r \in Paths(t) \ {Root}
    <3>1. PICK a \in ToSet(t.items) : \E m \in 1 .. Len(a) - 1 : r = SubSeq(a, 1, m)
      BY <1>1, <2>2
    <3>2. PICK m \in 1 .. Len(a) - 1 : r = SubSeq(a, 1, m)
      BY <3>1
    <3>3. a \in Seq(Nat) /\ Len(a) \in Nat /\ m \in 0 .. Len(a)
      BY <1>1, <3>1
    <3>4. Len(r) = m /\ n \in 0 .. m /\ n \in 1 .. Len(a) - 1
      <4>1. Len(r) = m
        BY <3>2, <3>3, Parts
      <4> QED
        BY <1>3, <3>3, <4>1
    <3>5. SubSeq(r, 1, n) = SubSeq(a, 1, n)
      BY <3>2, <3>3, <3>4, Parts
    <3> QED
      BY <1>1, <3>1, <3>4, <3>5
  <2> QED
    BY <2>1, <2>2 DEF Rows
<1>4. ASSUME NEW q \in Paths(t), IsLeaf(t, q)
      PROVE  FALSE
  <2>1. q \in Addrs /\ q # Root
    BY <1>1, <1>4 DEF IsLeaf, Root
  <2>2. PICK a \in ToSet(t.items) : \E n \in 1 .. Len(a) - 1 : q = SubSeq(a, 1, n)
    BY <1>1, <1>4, <2>1
  <2>3. PICK n \in 1 .. Len(a) - 1 : q = SubSeq(a, 1, n)
    BY <2>2
  <2>4. a \in Addrs /\ a \in Seq(Nat) /\ Len(a) \in Nat /\ n \in 0 .. Len(a) /\ n < Len(a)
    BY <1>1, <2>2
  <2>5. Len(q) = n /\ SubSeq(q, 1, n) = SubSeq(a, 1, n)
    BY <2>3, <2>4, Parts
  <2>6. IsPrefix(q, a)
    BY <2>4, <2>5 DEF IsPrefix
  <2>7. q = a
    BY <2>1, <2>4, <2>6, TreeAssumption
  <2> QED
    BY <2>4, <2>5, <2>7
<1> QED
  BY <1>2, <1>3, <1>4

\* What is at or below the module c, if c is open.
Under(t, c) == {c} \cup IF c \in t.open THEN Seen(t, c) ELSE {}

\* It begins as c does: where it parts from what is beside c it is no leaf and
\* has the label of c.
LEMMA UnderFacts ==
  ASSUME NEW t, Planted(t), t.nested, NEW p \in Paths(t), NEW c \in Kids(Paths(t), p),
         NEW x \in Under(t, c)
  PROVE  /\ x \in Rows(t) /\ Len(p) + 1 \in 1 .. Len(x) /\ Len(p) \in Nat
         /\ SubSeq(x, 1, Len(p)) = p /\ SubSeq(x, 1, Len(p) + 1) = c
         /\ x[Len(p) + 1] = Last(c)
         /\ ~(IsLeaf(t, x) /\ Len(p) + 1 = Len(x))
<1> DEFINE n == Len(p) + 1
<1>1. /\ p \in Seq(Nat) /\ c \in Paths(t) \ {Root} /\ c \in Rows(t) /\ c \in Seq(Nat) \ {<<>>}
      /\ Front(c) = p /\ Len(c) = n
  <2>1. IsFiniteSet(Paths(t)) /\ Paths(t) \subseteq Seq(Nat)
    BY PathFacts
  <2>2. c \in Paths(t) \ {Root} /\ Front(c) = p /\ Len(c) = n
    BY <2>1, KidsFacts
  <2> QED
    BY <2>1, <2>2, RowFacts DEF Rows
<1>2. Len(p) \in Nat /\ n \in Nat
  BY <1>1
<1>3. x \in Rows(t) /\ n <= Len(x) /\ SubSeq(x, 1, n) = c
  <2>1. CASE x = c
    <3>1. SubSeq(c, 1, Len(c)) = c
      BY <1>1
    <3> QED
      BY <1>1, <1>2, <2>1, <3>1
  <2>2. CASE x \in Seen(t, c)
    <3>1. x \in Rows(t) /\ Len(c) < Len(x) /\ SubSeq(x, 1, Len(c)) = c
      BY <2>2 DEF Seen
    <3>2. Len(x) \in Nat
      BY <3>1, RowFacts
    <3> QED
      BY <1>1, <1>2, <3>1, <3>2
  <2> QED
    BY <2>1, <2>2 DEF Under
<1>4. x \in Seq(Nat) /\ Len(x) \in Nat /\ n \in 0 .. Len(x) /\ Len(p) \in 0 .. n
  BY <1>2, <1>3, RowFacts
<1>5. SubSeq(x, 1, Len(p)) = SubSeq(c, 1, Len(p))
  BY <1>3, <1>4, Parts
<1>6. SubSeq(c, 1, Len(p)) = p
  <2>1. Len(p) = Len(c) - 1
    BY <1>1, <1>2
  <2> QED
    BY <1>1, <2>1 DEF Front
<1>7. c[n] = x[n]
  <2>1. n \in 1 .. n
    BY <1>2
  <2> QED
    BY <1>3, <1>4, <2>1, Parts
<1>8. Last(c) = c[n]
  BY <1>1 DEF Last
<1>9. ASSUME IsLeaf(t, x), n = Len(x) PROVE FALSE
  <2>1. SubSeq(x, 1, Len(x)) = x
    BY <1>4
  <2>2. x = c
    BY <1>3, <1>9, <2>1
  <2> QED
    BY <1>1, <1>9, <2>2, RowFacts
<1> QED
  BY <1>2, <1>3, <1>4, <1>5, <1>6, <1>7, <1>8, <1>9

\* Leaves right below p.
LEMMA LeafFacts ==
  ASSUME NEW t, Planted(t), t.nested, NEW p \in Paths(t), NEW x \in Kids(ToSet(t.items), p)
  PROVE  /\ x \in Rows(t) /\ Len(p) + 1 \in 1 .. Len(x) /\ Len(p) \in Nat
         /\ SubSeq(x, 1, Len(p)) = p /\ x[Len(p) + 1] = Last(x)
         /\ IsLeaf(t, x) /\ Len(x) = Len(p) + 1
<1>1. /\ IsFiniteSet(ToSet(t.items)) /\ ToSet(t.items) \subseteq Seq(Nat)
      /\ p \in Seq(Nat)
  BY PathFacts
<1>2. x \in ToSet(t.items) /\ Front(x) = p /\ Len(x) = Len(p) + 1
  BY <1>1, KidsFacts
<1>3. Len(p) \in Nat
  BY <1>1
<1>4. SubSeq(x, 1, Len(p)) = p
  <2>1. Len(p) = Len(x) - 1
    BY <1>2, <1>3
  <2> QED
    BY <1>2, <2>1 DEF Front
<1>5. x[Len(p) + 1] = Last(x)
  BY <1>2 DEF Last
<1> QED
  BY <1>2, <1>3, <1>4, <1>5 DEF Rows, IsLeaf
\* s is what is to be seen below p, each row above what it is to stand above.
Lists(t, s, p) == s \in Seq(Rows(t)) /\ ToSet(s) = Seen(t, p) /\ Sorted(s, Ahead(t))

\* A module and, if it is open, what is listed below it.
LEMMA BelowLists ==
  ASSUME NEW t, Planted(t), t.nested, NEW p \in Paths(t), NEW c \in Kids(Paths(t), p),
         NEW f, Lists(t, f[c], c)
  PROVE  /\ Below(t, f, c) \in Seq(Rows(t)) /\ ToSet(Below(t, f, c)) = Under(t, c)
         /\ Sorted(Below(t, f, c), Ahead(t))
<1> DEFINE u == IF c \in t.open THEN f[c] ELSE <<>>
           v == <<c>>
<1>1. c \in Rows(t) /\ c \in Seq(Nat) \ {<<>>} /\ Len(c) \in Nat
  <2>1. c \in Paths(t) \ {Root}
    BY PathFacts, KidsFacts
  <2> QED
    BY <2>1, RowFacts DEF Rows
<1>2. /\ u \in Seq(Rows(t)) /\ ToSet(u) = (IF c \in t.open THEN Seen(t, c) ELSE {})
      /\ Sorted(u, Ahead(t))
  BY DEF Lists, Sorted, ToSet
<1>3. v \in Seq(Rows(t)) /\ ToSet(v) = {c} /\ Sorted(v, Ahead(t))
  <2>1. DOMAIN <<c>> = {1} /\ <<c>>[1] = c
    OBVIOUS
  <2>2. \A i, j \in {1} : ~(i < j)
    OBVIOUS
  <2>3. ToSet(<<c>>) = {c}
    BY <2>1, Zenon DEF ToSet
  <2> QED
    BY <1>1, <2>1, <2>2, <2>3 DEF Sorted
<1>4. AllBefore(ToSet(v), ToSet(u), Ahead(t))
  <2>1. SUFFICES ASSUME NEW x \in ToSet(u)
                 PROVE  <<c, x>> \in Ahead(t)
    BY <1>3 DEF AllBefore
  <2>2. x \in Rows(t) /\ Len(c) < Len(x) /\ SubSeq(x, 1, Len(c)) = c
    BY <1>2, <2>1 DEF Seen
  <2>3. IsPrefix(c, x) /\ c # x
    <3>1. x \in Seq(Nat)
      BY <2>2, RowFacts
    <3>2. Len(c) <= Len(x)
      BY <1>1, <2>2, <3>1
    <3>3. c # x
      BY <1>1, <2>2
    <3> QED
      BY <2>2, <3>2, <3>3 DEF IsPrefix
  <2>4. Goes(t, c, x)
    BY <2>3 DEF Goes, IsStrictPrefix
  <2> QED
    BY <1>1, <2>2, <2>4 DEF Ahead
<1>5. Below(t, f, c) = v \o u
  BY DEF Below
<1> HIDE DEF u, v
<1>6. /\ v \o u \in Seq(Rows(t)) /\ ToSet(v \o u) = ToSet(v) \cup ToSet(u)
      /\ Sorted(v \o u, Ahead(t))
  <2> DEFINE R == Rows(t)
             B == Ahead(t)
  <2>1. v \in Seq(R) /\ u \in Seq(R) /\ Sorted(v, B) /\ Sorted(u, B) /\ AllBefore(ToSet(v), ToSet(u), B)
    BY <1>2, <1>3, <1>4
  <2> HIDE DEF R, B
  <2>2. v \o u \in Seq(R) /\ ToSet(v \o u) = ToSet(v) \cup ToSet(u) /\ Sorted(v \o u, B)
    BY <2>1, ConcatSorts
  <2> QED
    BY <2>2 DEF R, B
<1> QED
  BY <1>2, <1>3, <1>5, <1>6 DEF Under

\* Two rows that part behind p, the first at no leaf: a module stands above a
\* leaf, and of two modules the one with the lower label.
LEMMA Part ==
  ASSUME NEW t, Planted(t), t.nested, NEW p \in Paths(t), NEW r \in Rows(t), NEW s \in Rows(t),
         Len(p) + 1 \in 1 .. Len(r), Len(p) + 1 \in 1 .. Len(s),
         SubSeq(r, 1, Len(p)) = p, SubSeq(s, 1, Len(p)) = p,
         r[Len(p) + 1] # s[Len(p) + 1],
         LET rl == IsLeaf(t, r) /\ Len(p) + 1 = Len(r)
             sl == IsLeaf(t, s) /\ Len(p) + 1 = Len(s)
         IN  (~rl /\ sl) \/ (rl = sl /\ r[Len(p) + 1] < s[Len(p) + 1])
  PROVE  <<r, s>> \in Ahead(t)
<1> DEFINE n == Len(p) + 1
<1>1. Len(p) \in Nat /\ n - 1 = Len(p)
  BY PathFacts
<1>2. n \in 1 .. Len(r) /\ n <= Len(s) /\ SubSeq(r, 1, n - 1) = SubSeq(s, 1, n - 1)
  BY <1>1
<1>3. Goes(t, r, s)
  BY <1>2 DEF Goes
<1> QED
  BY <1>3 DEF Ahead
\* The modules right below p, each with what is listed below it.
LEMMA OpenedLists ==
  ASSUME NEW t, Planted(t), t.nested, NEW p \in Paths(t), NEW f,
         \A c \in Kids(Paths(t), p) : Lists(t, f[c], c)
  PROVE  /\ FlattenSeq(Opened(t, f, p)) \in Seq(Rows(t))
         /\ ToSet(FlattenSeq(Opened(t, f, p))) = UNION {Under(t, c) : c \in Kids(Paths(t), p)}
         /\ Sorted(FlattenSeq(Opened(t, f, p)), Ahead(t))
<1> DEFINE K == Kids(Paths(t), p)
           cs == Children(Paths(t), p)
           N == Len(cs)
           seqs == Opened(t, f, p)
           R == Rows(t)
           B == Ahead(t)
<1>1. /\ cs \in Seq(K) /\ ToSet(cs) = K
      /\ \A i, j \in DOMAIN cs : i < j => Last(cs[i]) < Last(cs[j])
  BY PathFacts, ChildrenFacts
<1>2. seqs = [k \in DOMAIN cs |-> Below(t, f, cs[k])]
  BY DEF Opened
<1>3. \A c \in K : /\ Below(t, f, c) \in Seq(R) /\ ToSet(Below(t, f, c)) = Under(t, c)
                   /\ Sorted(Below(t, f, c), B)
  BY BelowLists
<1>4. \A c, d \in K : Last(c) < Last(d) => AllBefore(Under(t, c), Under(t, d), B)
  <2> SUFFICES ASSUME NEW c \in K, NEW d \in K, Last(c) < Last(d),
                      NEW x \in Under(t, c), NEW y \in Under(t, d)
               PROVE  <<x, y>> \in B
    BY DEF AllBefore
  <2>1. /\ x \in Rows(t) /\ Len(p) + 1 \in 1 .. Len(x) /\ SubSeq(x, 1, Len(p)) = p
        /\ x[Len(p) + 1] = Last(c) /\ ~(IsLeaf(t, x) /\ Len(p) + 1 = Len(x))
    BY UnderFacts
  <2>2. /\ y \in Rows(t) /\ Len(p) + 1 \in 1 .. Len(y) /\ SubSeq(y, 1, Len(p)) = p
        /\ y[Len(p) + 1] = Last(d) /\ ~(IsLeaf(t, y) /\ Len(p) + 1 = Len(y))
    BY UnderFacts
  <2>3. Last(c) \in Nat /\ Last(d) \in Nat
    <3>1. c \in Paths(t) \ {Root} /\ d \in Paths(t) \ {Root} /\ Paths(t) \subseteq Seq(Nat)
      BY PathFacts, KidsFacts
    <3> QED
      BY <3>1, LabelType DEF Root
  <2>4. x[Len(p) + 1] < y[Len(p) + 1] /\ x[Len(p) + 1] # y[Len(p) + 1]
    BY <2>1, <2>2, <2>3
  <2> QED
    BY <2>1, <2>2, <2>4, Part
<1>5. N \in Nat /\ DOMAIN cs = 1 .. N /\ \A k \in 1 .. N : cs[k] \in K
  <2> HIDE DEF cs, K
  <2> QED
    BY <1>1
<1> HIDE DEF K, cs, N, seqs, R, B
<1>6. seqs \in [1 .. N -> Seq(R)]
  BY <1>2, <1>3, <1>5
<1>7. \A k \in 1 .. N : seqs[k] = Below(t, f, cs[k])
  BY <1>2, <1>5
<1>8. \A k \in 1 .. N : ToSet(seqs[k]) = Under(t, cs[k]) /\ Sorted(seqs[k], B)
  BY <1>3, <1>5, <1>7
<1>9. \A k, l \in 1 .. N : k < l => AllBefore(ToSet(seqs[k]), ToSet(seqs[l]), B)
  <2> TAKE k, l \in 1 .. N
  <2> HAVE k < l
  <2>1. Last(cs[k]) < Last(cs[l]) /\ cs[k] \in K /\ cs[l] \in K
    BY <1>1, <1>5
  <2>2. AllBefore(Under(t, cs[k]), Under(t, cs[l]), B)
    BY <1>4, <2>1
  <2> QED
    BY <1>8, <2>2
<1>10. /\ FlattenSeq(seqs) \in Seq(R) /\ ToSet(FlattenSeq(seqs)) = Gathered(seqs, N)
       /\ Sorted(FlattenSeq(seqs), B)
  <2>1. \A k \in 1 .. N : Sorted(seqs[k], B)
    BY <1>8
  <2> QED
    BY <1>5, <1>6, <1>9, <2>1, FlattenSorts
<1>11. Gathered(seqs, N) = UNION {Under(t, c) : c \in K}
  <2>1. Gathered(seqs, N) \subseteq UNION {Under(t, c) : c \in K}
    BY <1>5, <1>8 DEF Gathered
  <2>2. ASSUME NEW c \in K
        PROVE  Under(t, c) \subseteq Gathered(seqs, N)
    <3>1. PICK k \in 1 .. N : cs[k] = c
      BY <1>1, <1>5 DEF ToSet
    <3> QED
      BY <1>8, <3>1 DEF Gathered
  <2> QED
    BY <2>1, <2>2
<1> QED
  BY <1>10, <1>11 DEF seqs, R, B, K
\* The leaves right below p, by label.
LEMMA LeavesLists ==
  ASSUME NEW t, Planted(t), t.nested, NEW p \in Paths(t)
  PROVE  /\ Leaves(t, p) \in Seq(Rows(t)) /\ ToSet(Leaves(t, p)) = Kids(ToSet(t.items), p)
         /\ Sorted(Leaves(t, p), Ahead(t))
<1> DEFINE A == ToSet(t.items)
           K == Kids(A, p)
           s == Leaves(t, p)
<1>1. IsFiniteSet(A) /\ A \subseteq Seq(Nat) /\ Root \notin A
  BY PathFacts DEF Root
<1>2. s = ByLabel(K)
  <2>1. {a \in A : Front(a) = p} = {a \in A \ {Root} : Front(a) = p}
    BY <1>1
  <2> QED
    BY <2>1 DEF Leaves, Kids
<1>3. Siblings(K)
  BY <1>1, KidsFacts
<1>4. /\ s \in Seq(K) /\ ToSet(s) = K
      /\ \A i, j \in DOMAIN s : i < j => Last(s[i]) < Last(s[j])
  <2> HIDE DEF K, s
  <2> QED
    BY <1>2, <1>3, ByLabelSorts
<1>5. \A x \in K : /\ x \in Rows(t) /\ Len(p) + 1 \in 1 .. Len(x) /\ SubSeq(x, 1, Len(p)) = p
                   /\ x[Len(p) + 1] = Last(x) /\ IsLeaf(t, x) /\ Len(p) + 1 = Len(x)
                   /\ Last(x) \in Nat
  <2> TAKE x \in K
  <2>1. x \in Seq(Nat) \ {<<>>}
    BY <1>1, KidsFacts DEF Root
  <2>2. Last(x) \in Nat
    BY <2>1, LabelType
  <2> QED
    BY <2>2, LeafFacts
<1>6. \A x, y \in K : Last(x) < Last(y) => <<x, y>> \in Ahead(t)
  <2> TAKE x, y \in K
  <2> HAVE Last(x) < Last(y)
  <2>1. x[Len(p) + 1] < y[Len(p) + 1] /\ x[Len(p) + 1] # y[Len(p) + 1]
    BY <1>5
  <2> HIDE DEF K
  <2> QED
    BY <1>5, <2>1, Part
<1> HIDE DEF K, s
<1>7. \A i \in DOMAIN s : s[i] \in K
  BY <1>4
<1>8. Sorted(s, Ahead(t))
  BY <1>4, <1>6, <1>7 DEF Sorted
<1>9. s \in Seq(Rows(t))
  BY <1>4, <1>5
<1> QED
  BY <1>4, <1>8, <1>9 DEF K, s

\* What is to be seen below p is what is at or below the modules right below it,
\* and the leaves right below it.
LEMMA SeenSplits ==
  ASSUME NEW t, Planted(t), t.nested, NEW p \in Paths(t)
  PROVE  Seen(t, p) = (UNION {Under(t, c) : c \in Kids(Paths(t), p)}) \cup Kids(ToSet(t.items), p)
<1> DEFINE n == Len(p) + 1
           K == Kids(Paths(t), p)
           L == Kids(ToSet(t.items), p)
<1>1. Len(p) \in Nat /\ n \in Nat /\ Root \notin ToSet(t.items)
  BY PathFacts DEF Root
<1>2. ASSUME NEW r \in Seen(t, p)
      PROVE  (\E c \in K : r \in Under(t, c)) \/ r \in L
  <2>1. /\ r \in Rows(t) /\ Len(p) < Len(r) /\ SubSeq(r, 1, Len(p)) = p
        /\ \A m \in n .. Len(r) - 1 : SubSeq(r, 1, m) \in t.open
    BY <1>2 DEF Seen
  <2>2. r \in Seq(Nat) \ {<<>>} /\ Len(r) \in Nat
    BY <2>1, RowFacts
  <2>3. CASE Len(r) = n
    <3>1. Front(r) = p
      <4>1. Len(r) - 1 = Len(p)
        BY <1>1, <2>3
      <4> QED
        BY <2>1, <4>1 DEF Front
    <3>2. CASE r \in ToSet(t.items)
      BY <1>1, <3>1, <3>2 DEF Kids
    <3>3. CASE r \in Paths(t) \ {Root}
      BY <3>1, <3>3 DEF Kids, Under
    <3> QED
      BY <2>1, <3>2, <3>3 DEF Rows
  <2>4. CASE Len(r) # n
    <3> DEFINE c == SubSeq(r, 1, n)
    <3>1. n \in 1 .. Len(r) - 1 /\ n \in n .. Len(r) - 1 /\ n \in 0 .. Len(r) /\ Len(p) \in 0 .. n
      BY <1>1, <2>1, <2>2, <2>4
    <3>2. c \in Paths(t) \ {Root} /\ c \in t.open
      BY <2>1, <3>1, RowFacts
    <3>3. /\ c \in Seq(Nat) /\ Len(c) = n /\ SubSeq(c, 1, Len(p)) = SubSeq(r, 1, Len(p))
      BY <2>2, <3>1, Parts
    <3> HIDE DEF c
    <3>4. Front(c) = p
      <4>1. Len(c) - 1 = Len(p)
        BY <1>1, <3>3
      <4> QED
        BY <2>1, <3>3, <4>1 DEF Front
    <3>5. c \in K
      BY <3>2, <3>4 DEF Kids
    <3>6. r \in Seen(t, c)
      <4>1. Len(c) < Len(r) /\ SubSeq(r, 1, Len(c)) = c
        BY <2>2, <3>1, <3>3 DEF c
      <4>2. \A m \in Len(c) + 1 .. Len(r) - 1 : m \in n .. Len(r) - 1
        BY <1>1, <2>2, <3>3
      <4>3. \A m \in Len(c) + 1 .. Len(r) - 1 : SubSeq(r, 1, m) \in t.open
        BY <2>1, <4>2
      <4> QED
        BY <2>1, <4>1, <4>3 DEF Seen
    <3> QED
      BY <3>2, <3>5, <3>6 DEF Under
  <2> QED
    BY <2>3, <2>4
<1>3. ASSUME NEW c \in K, NEW x \in Under(t, c)
      PROVE  x \in Seen(t, p)
  <2>1. /\ x \in Rows(t) /\ n \in 1 .. Len(x) /\ SubSeq(x, 1, Len(p)) = p /\ SubSeq(x, 1, n) = c
    BY UnderFacts
  <2>2. x \in Seq(Nat) \ {<<>>} /\ Len(x) \in Nat /\ Len(p) < Len(x)
    <3>1. x \in Seq(Nat) \ {<<>>}
      BY <2>1, RowFacts
    <3> QED
      BY <1>1, <2>1, <3>1
  <2>3. Len(c) = n
    BY PathFacts, KidsFacts
  <2>4. ASSUME NEW m \in n .. Len(x) - 1
        PROVE  SubSeq(x, 1, m) \in t.open
    <3>1. x # c
      BY <1>1, <2>2, <2>3, <2>4
    <3>2. c \in t.open /\ x \in Seen(t, c)
      BY <1>3, <3>1 DEF Under
    <3>3. CASE m = n
      BY <2>1, <3>2, <3>3
    <3>4. CASE m # n
      <4>1. m \in Len(c) + 1 .. Len(x) - 1
        BY <1>1, <2>2, <2>3, <2>4, <3>4
      <4> QED
        BY <3>2, <4>1 DEF Seen
    <3> QED
      BY <3>3, <3>4
  <2> QED
    BY <2>1, <2>2, <2>4 DEF Seen
<1>4. ASSUME NEW x \in L
      PROVE  x \in Seen(t, p)
  <2>1. x \in Rows(t) /\ SubSeq(x, 1, Len(p)) = p /\ Len(x) = n
    BY LeafFacts
  <2>2. Len(p) < Len(x) /\ \A m \in n .. Len(x) - 1 : FALSE
    BY <1>1, <2>1
  <2> QED
    BY <2>1, <2>2 DEF Seen
<1> HIDE DEF K, L
<1>5. Seen(t, p) = (UNION {Under(t, c) : c \in K}) \cup L
  BY <1>2, <1>3, <1>4
<1> QED
  BY <1>5 DEF K, L

\* What is listed below p is what is to be seen there, if so it is right below.
LEMMA ListingLists ==
  ASSUME NEW t, Planted(t), t.nested, NEW p \in Paths(t), NEW f,
         \A c \in Kids(Paths(t), p) : Lists(t, f[c], c)
  PROVE  Lists(t, Listing(t, f, p), p)
<1> DEFINE s == FlattenSeq(Opened(t, f, p))
           u == Leaves(t, p)
           R == Rows(t)
           B == Ahead(t)
           X == UNION {Under(t, c) : c \in Kids(Paths(t), p)}
           L == Kids(ToSet(t.items), p)
<1>1. s \in Seq(R) /\ ToSet(s) = X /\ Sorted(s, B)
  BY OpenedLists
<1>2. u \in Seq(R) /\ ToSet(u) = L /\ Sorted(u, B)
  BY LeavesLists
<1>3. AllBefore(X, L, B)
  <2> SUFFICES ASSUME NEW c \in Kids(Paths(t), p), NEW x \in Under(t, c), NEW y \in L
               PROVE  <<x, y>> \in B
    BY Zenon DEF AllBefore
  <2>1. /\ x \in Rows(t) /\ Len(p) + 1 \in 1 .. Len(x) /\ SubSeq(x, 1, Len(p)) = p
        /\ SubSeq(x, 1, Len(p) + 1) = c /\ x[Len(p) + 1] = Last(c)
        /\ ~(IsLeaf(t, x) /\ Len(p) + 1 = Len(x))
    BY UnderFacts
  <2>2. /\ y \in Rows(t) /\ Len(p) + 1 \in 1 .. Len(y) /\ SubSeq(y, 1, Len(p)) = p
        /\ y[Len(p) + 1] = Last(y) /\ IsLeaf(t, y) /\ Len(p) + 1 = Len(y)
    BY LeafFacts
  <2>3. Last(c) # Last(y)
    <3>1. /\ c \in Paths(t) /\ c \in Seq(Nat) \ {<<>>} /\ Front(c) = p
      <4>1. c \in Paths(t) \ {Root} /\ Front(c) = p /\ Paths(t) \subseteq Seq(Nat)
        BY PathFacts, KidsFacts
      <4> QED
        BY <4>1 DEF Root
    <3>2. y \in Seq(Nat) \ {<<>>} /\ Front(y) = p
      <4>1. y \in Seq(Nat) \ {<<>>}
        BY <2>2, RowFacts
      <4> QED
        BY <4>1, PathFacts, KidsFacts
    <3>3. c # y
      BY <2>2, <3>1, RowFacts
    <3> QED
      BY <3>1, <3>2, <3>3, FrontLast
  <2>4. x[Len(p) + 1] # y[Len(p) + 1]
    BY <2>1, <2>2, <2>3
  <2> QED
    BY <2>1, <2>2, <2>4, Part
<1>4. Listing(t, f, p) = s \o u /\ Seen(t, p) = X \cup L
  BY SeenSplits DEF Listing
<1> HIDE DEF s, u, R, B, X, L
<1>5. s \o u \in Seq(R) /\ ToSet(s \o u) = X \cup L /\ Sorted(s \o u, B)
  <2>1. AllBefore(ToSet(s), ToSet(u), B)
    BY <1>1, <1>2, <1>3
  <2> QED
    BY <1>1, <1>2, <2>1, ConcatSorts
<1> QED
  BY <1>4, <1>5 DEF Lists, R, B
\* A walk lists below every module what is to be seen there: from the longest
\* paths up.
LEMMA WalkLists ==
  ASSUME NEW t, Planted(t), t.nested, NEW f, Walks(t, f, Paths(t)), NEW q \in Paths(t)
  PROVE  Lists(t, f[q], q)
<1> DEFINE ps == Paths(t)
<1>1. /\ IsFiniteSet(ps) /\ ps \subseteq Seq(Nat) /\ \A p \in ps : Len(p) \in Nat
      /\ \A p \in ps : f[p] = Listing(t, f, p)
      /\ \A p \in ps : \A c \in Kids(ps, p) : c \in ps /\ Len(c) = Len(p) + 1
      /\ q \in ps
  <2>1. IsFiniteSet(ps) /\ ps \subseteq Seq(Nat)
    BY PathFacts
  <2>2. \A p \in ps : Len(p) \in Nat
    BY <2>1
  <2>3. f = [p \in ps |-> Listing(t, f, p)]
    BY DEF Walks
  <2>4. \A p \in ps : f[p] = Listing(t, f, p)
    BY <2>3
  <2>5. \A p \in ps : \A c \in Kids(ps, p) : c \in ps /\ Len(c) = Len(p) + 1
    <3> HIDE DEF ps
    <3> QED
      BY <2>1, KidsFacts
  <2> QED
    BY <2>1, <2>2, <2>4, <2>5
<1>2. \A p \in ps : (\A c \in Kids(ps, p) : Lists(t, f[c], c)) => Lists(t, f[p], p)
  <2> TAKE p \in ps
  <2> HAVE \A c \in Kids(ps, p) : Lists(t, f[c], c)
  <2>1. Lists(t, Listing(t, f, p), p)
    BY ListingLists
  <2> QED
    BY <1>1, <2>1
<1> HIDE DEF ps
<1>3. PICK M \in Nat : \A p \in ps : Len(p) <= M
  BY <1>1, PathsAreBounded
<1> DEFINE X == {m \in Nat : \E p \in ps : m + Len(p) = M /\ ~ Lists(t, f[p], p)}
<1>4. X = {}
  <2>1. SUFFICES ASSUME X # {} PROVE FALSE
    OBVIOUS
  <2>2. PICK m \in X : \A k \in X : m <= k
    <3>1. X \subseteq Nat
      OBVIOUS
    <3> HIDE DEF X
    <3> QED
      BY <2>1, <3>1, LeastNumber
  <2>3. PICK p \in ps : m + Len(p) = M /\ ~ Lists(t, f[p], p)
    OBVIOUS
  <2>4. m \in Nat /\ Len(p) \in Nat
    BY <1>1
  <2>5. \A c \in Kids(ps, p) : Lists(t, f[c], c)
    <3> SUFFICES ASSUME NEW c \in Kids(ps, p), ~ Lists(t, f[c], c)
                 PROVE  FALSE
      OBVIOUS
    <3>1. c \in ps /\ Len(c) = Len(p) + 1 /\ Len(c) \in Nat /\ Len(c) <= M
      BY <1>1, <1>3
    <3>2. m - 1 \in Nat /\ (m - 1) + Len(c) = M
      BY <2>3, <2>4, <3>1
    <3>3. m - 1 \in X
      BY <3>1, <3>2
    <3> HIDE DEF X
    <3>4. m <= m - 1
      BY <2>2, <3>3
    <3> QED
      BY <2>4, <3>4
  <2> QED
    BY <1>2, <2>3, <2>5
<1>5. ASSUME ~ Lists(t, f[q], q)
      PROVE  FALSE
  <2>1. M - Len(q) \in Nat /\ (M - Len(q)) + Len(q) = M
    BY <1>1, <1>3
  <2>2. M - Len(q) \in X
    BY <1>1, <1>5, <2>1
  <2> HIDE DEF X
  <2> QED
    BY <1>4, <2>2
<1> QED
  BY <1>5
\* A sequence without repetition is as long as what is in it is large.
LEMMA DistinctCounts ==
  ASSUME NEW S, NEW s \in Seq(S), IsInjective(s)
  PROVE  Len(s) = Cardinality(ToSet(s))
<1> DEFINE N == 1 .. Len(s)
           T == ToSet(s)
<1>1. Len(s) \in Nat /\ DOMAIN s = N /\ s = [i \in N |-> s[i]]
  OBVIOUS
<1>2. IsFiniteSet(N) /\ Cardinality(N) = Len(s)
  <2> DEFINE c == Len(s)
  <2>1. c \in Nat
    BY <1>1
  <2> HIDE DEF c
  <2>2. IsFiniteSet(1 .. c) /\ Cardinality(1 .. c) = IF 1 > c THEN 0 ELSE c - 1 + 1
    BY <2>1, FS_Interval
  <2>3. Cardinality(1 .. c) = c
    BY <2>1, <2>2
  <2> QED
    BY <2>2, <2>3 DEF c
<1>3. (\A i \in N : s[i] \in T) /\ \A y \in T : \E i \in N : s[i] = y
  BY <1>1 DEF ToSet
<1>4. \A i, j \in N : s[i] = s[j] => i = j
  BY <1>1 DEF IsInjective
<1> HIDE DEF N, T
<1>5. s \in [N -> T]
  BY <1>1, <1>3
<1>6. s \in Injection(N, T)
  BY <1>4, <1>5, Fun_IsInj
<1>7. s \in Surjection(N, T)
  BY <1>3, <1>5 DEF Surjection
<1>8. ExistsBijection(N, T)
  BY <1>6, <1>7 DEF ExistsBijection, Bijection
<1>9. Cardinality(T) = Cardinality(N)
  BY <1>2, <1>8, FS_Bijection
<1> QED
  BY <1>2, <1>9 DEF T

\* What RowsAreExact says of a tree and its rows.
Shown(t) ==
  {r \in Rows(t) : ~t.nested \/ \A n \in 1 .. Len(r) - 1 : SubSeq(r, 1, n) \in t.open}
Exact(t, rows) ==
  /\ rows \in Seq(Rows(t))
  /\ ToSet(rows) = Shown(t) /\ Len(rows) = Cardinality(Shown(t))
  /\ t.nested => \A i, j \in DOMAIN rows : i < j => Goes(t, rows[i], rows[j])

\* A tree in the order given shows its resources as they are.
LEMMA FlatIsExact ==
  ASSUME NEW t, Planted(t), ~t.nested, IsInjective(t.items)
  PROVE  Exact(t, WalkTree(t))
<1> DEFINE items == t.items
<1>1. items \in Seq(Addrs) /\ Paths(t) = {Root}
  BY PathFacts DEF Planted
<1>2. PICK f : Walks(t, f, Paths(t)) /\ WalkTree(t) = f[Root]
  BY WalkExists, WalkTreeWalks
<1>3. WalkTree(t) = Listing(t, f, Root)
  <2>1. f = [p \in Paths(t) |-> Listing(t, f, p)]
    BY <1>2 DEF Walks
  <2> QED
    BY <1>1, <1>2, <2>1
<1>4. Children(Paths(t), Root) = <<>>
  <2>1. /\ Children(Paths(t), Root) \in Seq(Kids(Paths(t), Root))
        /\ ToSet(Children(Paths(t), Root)) = Kids(Paths(t), Root)
    BY PathFacts, ChildrenFacts
  <2>2. Kids(Paths(t), Root) = {}
    BY <1>1 DEF Kids
  <2> QED
    BY <2>1, <2>2
<1>5. FlattenSeq(Opened(t, f, Root)) = <<>>
  <2>1. Opened(t, f, Root) = <<>>
    BY <1>4 DEF Opened
  <2>2. FlattenSeq(<<>>) = <<>>
    BY DEF FlattenSeq
  <2> QED
    BY <2>1, <2>2
<1>6. WalkTree(t) = items
  <2>1. <<>> \o items = items
    BY <1>1
  <2> QED
    BY <1>3, <1>5, <2>1 DEF Listing, Leaves
<1>7. Rows(t) = ToSet(items) /\ Shown(t) = ToSet(items)
  BY <1>1 DEF Rows, Shown
<1> HIDE DEF items
<1>8. items \in Seq(ToSet(items)) /\ Len(items) = Cardinality(ToSet(items))
  <2>1. items \in Seq(ToSet(items))
    BY <1>1 DEF ToSet
  <2>2. IsInjective(items)
    BY DEF items
  <2> QED
    BY <1>1, <2>1, <2>2, DistinctCounts
<1> QED
  BY <1>6, <1>7, <1>8 DEF Exact

\* A sorted tree shows its modules and resources below open modules only.
LEMMA NestedIsExact ==
  ASSUME NEW t, Planted(t), t.nested
  PROVE  Exact(t, WalkTree(t))
<1> DEFINE rows == WalkTree(t)
<1>1. PICK f : Walks(t, f, Paths(t)) /\ rows = f[Root]
  BY WalkExists, WalkTreeWalks
<1>2. Lists(t, rows, Root)
  <2>1. Root \in Paths(t)
    BY PathFacts
  <2>2. Lists(t, f[Root], Root)
    BY <1>1, <2>1, WalkLists
  <2> QED
    BY <1>1, <2>2
<1> HIDE DEF rows
<1>3. /\ rows \in Seq(Rows(t)) /\ ToSet(rows) = Seen(t, Root)
      /\ Sorted(rows, Ahead(t))
  BY <1>2 DEF Lists
<1>4. Seen(t, Root) = Shown(t)
  <2> SUFFICES ASSUME NEW r \in Rows(t)
               PROVE  r \in Seen(t, Root) <=> r \in Shown(t)
    BY DEF Seen, Shown
  <2>1. r \in Seq(Nat) \ {<<>>}
    BY RowFacts
  <2>2. Len(Root) = 0 /\ Len(Root) < Len(r) /\ SubSeq(r, 1, Len(Root)) = Root
    BY <2>1 DEF Root
  <2>3. Len(Root) + 1 = 1
    BY <2>2
  <2> QED
    BY <2>2, <2>3 DEF Seen, Shown
<1>5. \A i, j \in DOMAIN rows : i < j => Goes(t, rows[i], rows[j])
  BY <1>3 DEF Sorted, Ahead
<1>6. IsInjective(rows)
  <2> SUFFICES ASSUME NEW i \in DOMAIN rows, NEW j \in DOMAIN rows, rows[i] = rows[j], i # j
               PROVE  FALSE
    BY DEF IsInjective
  <2>1. i \in Int /\ j \in Int
    BY <1>3
  <2>2. ~ Goes(t, rows[i], rows[i])
    BY DEF Goes, IsStrictPrefix
  <2>3. Goes(t, rows[i], rows[j]) \/ Goes(t, rows[j], rows[i])
    BY <1>5, <2>1
  <2> QED
    BY <2>2, <2>3
<1>7. Len(rows) = Cardinality(Shown(t))
  BY <1>3, <1>4, <1>6, DistinctCounts
<1>8. Exact(t, rows)
  BY <1>3, <1>4, <1>5, <1>7 DEF Exact
<1> QED
  BY <1>8 DEF rows

\* Either way.
LEMMA WalkIsExact ==
  ASSUME NEW t, Planted(t), IsInjective(t.items)
  PROVE  Exact(t, WalkTree(t))
BY FlatIsExact, NestedIsExact DEF Planted

-----------------------------------------------------------------------------
(* InOrder *)

\* The positions InOrder keeps, and those of them up to a place.
Kept(order, asked) == {j \in DOMAIN order : order[j] \in asked}
Met(order, asked, k) == {j \in DOMAIN order : j <= k /\ order[j] \in asked}

\* The positions met are a finite part of the positions kept.
LEMMA MetIsFinite ==
  ASSUME NEW S, NEW order \in Seq(S), NEW asked, NEW k \in Nat
  PROVE  /\ IsFiniteSet(Kept(order, asked)) /\ IsFiniteSet(Met(order, asked, k))
         /\ Met(order, asked, k) \subseteq Kept(order, asked)
         /\ Cardinality(Met(order, asked, k)) \in 0 .. Cardinality(Kept(order, asked))
         /\ Cardinality(Kept(order, asked)) \in Nat
<1>1. /\ DOMAIN order = 1 .. Len(order)
      /\ Len(order) \in Nat
  OBVIOUS
<1>2. IsFiniteSet(1 .. Len(order))
  BY <1>1, FS_Interval
<1>3. /\ Kept(order, asked) \subseteq 1 .. Len(order)
      /\ Met(order, asked, k) \subseteq Kept(order, asked)
  BY <1>1 DEF Kept, Met
<1>4. IsFiniteSet(Kept(order, asked))
  BY <1>2, <1>3, FS_Subset
<1>5. /\ IsFiniteSet(Met(order, asked, k))
      /\ Cardinality(Met(order, asked, k)) <= Cardinality(Kept(order, asked))
  BY <1>3, <1>4, FS_Subset
<1>6. Cardinality(Met(order, asked, k)) \in Nat /\ Cardinality(Kept(order, asked)) \in Nat
  BY <1>4, <1>5, FS_CardinalityType
<1> QED
  BY <1>3, <1>4, <1>5, <1>6

\* At the last place everything kept has been met.
LEMMA AllMet ==
  ASSUME NEW S, NEW order \in Seq(S), NEW asked
  PROVE  Met(order, asked, Len(order)) = Kept(order, asked)
  BY DEF Met, Kept

\* Between two positions that are kept more is met.
LEMMA MeetsMore ==
  ASSUME NEW S, NEW order \in Seq(S), NEW asked,
         NEW k \in Kept(order, asked), NEW l \in Kept(order, asked), k < l
  PROVE  Cardinality(Met(order, asked, k)) < Cardinality(Met(order, asked, l))
<1>1. k \in Nat /\ l \in Nat /\ DOMAIN order = 1 .. Len(order)
  BY DEF Kept
<1>2. Met(order, asked, k) \subseteq Met(order, asked, l)
  BY <1>1 DEF Met, Kept
<1>3. l \in Met(order, asked, l) /\ l \notin Met(order, asked, k)
  BY <1>1 DEF Met, Kept
<1>4. IsFiniteSet(Met(order, asked, l))
  BY <1>1, MetIsFinite
<1>5. /\ Cardinality(Met(order, asked, k)) <= Cardinality(Met(order, asked, l))
      /\ Cardinality(Met(order, asked, k)) = Cardinality(Met(order, asked, l))
           => Met(order, asked, k) = Met(order, asked, l)
  BY <1>2, <1>4, FS_Subset
<1>6. Cardinality(Met(order, asked, k)) \in Nat /\ Cardinality(Met(order, asked, l)) \in Nat
  BY <1>1, MetIsFinite
<1> QED
  BY <1>3, <1>5, <1>6

\* Every number up to that of the positions kept is the number met at one of
\* them: the count goes one to one from the positions to as many numbers.
LEMMA CountsAll ==
  ASSUME NEW S, NEW order \in Seq(S), NEW asked,
         NEW n \in 1 .. Cardinality(Kept(order, asked))
  PROVE  \E k \in Kept(order, asked) : Cardinality(Met(order, asked, k)) = n
<1> DEFINE P == Kept(order, asked)
           N == 1 .. Cardinality(P)
           f == [k \in P |-> Cardinality(Met(order, asked, k))]
<1>1. /\ \A k \in P : k \in Nat
      /\ IsFiniteSet(P) /\ Cardinality(P) \in Nat
  <2>1. \A k \in P : k \in Nat
    BY DEF Kept
  <2>2. 0 \in Nat
    OBVIOUS
  <2> QED
    BY <2>1, <2>2, MetIsFinite
<1>2. \A k \in P : Cardinality(Met(order, asked, k)) \in N
  <2> SUFFICES ASSUME NEW k \in P
               PROVE  Cardinality(Met(order, asked, k)) \in N
    OBVIOUS
  <2>1. k \in Nat /\ k \in Met(order, asked, k)
    BY <1>1 DEF Kept, Met
  <2>2. /\ IsFiniteSet(Met(order, asked, k))
        /\ Cardinality(Met(order, asked, k)) \in 0 .. Cardinality(P)
    BY <2>1, MetIsFinite
  <2>3. Cardinality(Met(order, asked, k)) # 0
    BY <2>1, <2>2, FS_EmptySet
  <2> HIDE DEF P
  <2> QED
    BY <1>1, <2>2, <2>3
<1>3. \A k, l \in P : f[k] = f[l] => k = l
  <2> SUFFICES ASSUME NEW k \in P, NEW l \in P, k # l
               PROVE  Cardinality(Met(order, asked, k)) # Cardinality(Met(order, asked, l))
    OBVIOUS
  <2>1. k \in Nat /\ l \in Nat
    BY <1>1
  <2>2. /\ Cardinality(Met(order, asked, k)) \in Nat
        /\ Cardinality(Met(order, asked, l)) \in Nat
    BY <2>1, MetIsFinite
  <2>3. CASE k < l
    BY <2>2, <2>3, MeetsMore
  <2>4. CASE l < k
    BY <2>2, <2>4, MeetsMore
  <2> QED
    BY <2>1, <2>3, <2>4
<1>4. f \in Injection(P, N)
  <2>1. f \in [P -> N]
    BY <1>2
  <2> QED
    BY <1>3, <2>1, Fun_IsInj
<1>5. IsFiniteSet(N) /\ Cardinality(N) = Cardinality(P)
  <2> DEFINE c == Cardinality(P)
  <2>1. c \in Nat
    BY <1>1
  <2> HIDE DEF c
  <2>2. IsFiniteSet(1 .. c) /\ Cardinality(1 .. c) = IF 1 > c THEN 0 ELSE c - 1 + 1
    BY <2>1, FS_Interval
  <2>3. Cardinality(1 .. c) = c
    BY <2>1, <2>2
  <2> QED
    BY <2>2, <2>3 DEF c
<1>6. f \in Surjection(P, N)
  <2> HIDE DEF P, N, f
  <2> QED
    BY <1>4, <1>5, FS_Injection
<1>7. n \in N
  OBVIOUS
<1>8. \A k \in P : f[k] = Cardinality(Met(order, asked, k))
  OBVIOUS
<1> HIDE DEF P, N, f
<1>9. \E k \in P : f[k] = n
  BY <1>6, <1>7 DEF Surjection
<1> QED
  BY <1>8, <1>9 DEF P

\* InOrder lists, of what the order names, exactly what is asked for, and what the
\* order names once it lists once.
LEMMA InOrderKeeps ==
  ASSUME NEW S, NEW order \in Seq(S), NEW asked
  PROVE  /\ InOrder(order, asked) \in Seq(S)
         /\ ToSet(InOrder(order, asked)) = ToSet(order) \cap asked
         /\ IsInjective(order) => IsInjective(InOrder(order, asked))
<1> DEFINE P == Kept(order, asked)
           nth(n) == CHOOSE k \in DOMAIN order :
                       order[k] \in asked /\ Cardinality(Met(order, asked, k)) = n
           N == 1 .. Cardinality(P)
<1>1. InOrder(order, asked) = [n \in N |-> order[nth(n)]]
  BY AllMet DEF InOrder, Met, Kept
<1>2. /\ \A k \in P : k \in DOMAIN order /\ k \in Nat /\ order[k] \in asked /\ order[k] \in S
      /\ \A k \in DOMAIN order : order[k] \in asked => k \in P
      /\ IsFiniteSet(P) /\ Cardinality(P) \in Nat
  <2>1. \A k \in P : k \in DOMAIN order /\ k \in Nat /\ order[k] \in asked /\ order[k] \in S
    BY DEF Kept
  <2>2. \A k \in DOMAIN order : order[k] \in asked => k \in P
    BY DEF Kept
  <2>3. 0 \in Nat
    OBVIOUS
  <2> QED
    BY <2>1, <2>2, <2>3, MetIsFinite
<1>3. \A n \in N : nth(n) \in P /\ Cardinality(Met(order, asked, nth(n))) = n
  <2> TAKE n \in N
  <2>1. PICK k \in P : Cardinality(Met(order, asked, k)) = n
    BY CountsAll
  <2>2. k \in DOMAIN order /\ order[k] \in asked
    BY <1>2
  <2>3. nth(n) \in DOMAIN order /\ order[nth(n)] \in asked /\ Cardinality(Met(order, asked, nth(n))) = n
    BY <2>1, <2>2
  <2> HIDE DEF P, nth
  <2> QED
    BY <1>2, <2>3
<1>4. ASSUME NEW k \in P
      PROVE  \E n \in N : nth(n) = k
  <2> DEFINE n == Cardinality(Met(order, asked, k))
  <2>1. n \in 0 .. Cardinality(P) /\ IsFiniteSet(Met(order, asked, k))
    BY <1>2, MetIsFinite
  <2>2. k \in Met(order, asked, k)
    BY <1>2 DEF Met, Kept
  <2>3. n # 0
    BY <2>1, <2>2, FS_EmptySet
  <2>4. n \in N
    <3> HIDE DEF n, P
    <3> QED
      BY <1>2, <2>1, <2>3
  <2>5. nth(n) \in P /\ Cardinality(Met(order, asked, nth(n))) = n
    BY <1>3, <2>4
  <2>6. nth(n) = k
    <3> DEFINE l == nth(n)
    <3>1. l \in P /\ Cardinality(Met(order, asked, l)) = Cardinality(Met(order, asked, k))
      BY <2>5
    <3> HIDE DEF l
    <3>2. l \in Nat /\ k \in Nat
      BY <1>2, <3>1
    <3>3. /\ Cardinality(Met(order, asked, k)) \in Nat
          /\ Cardinality(Met(order, asked, l)) \in Nat
      BY <3>2, MetIsFinite
    <3>4. ~(l < k)
      BY <3>1, <3>3, MeetsMore
    <3>5. ~(k < l)
      BY <3>1, <3>3, MeetsMore
    <3>6. l = k
      BY <3>2, <3>4, <3>5
    <3> QED
      BY <3>6 DEF l
  <2> HIDE DEF nth, N, n
  <2> QED
    BY <2>4, <2>6
<1> HIDE DEF nth, P
<1>5. InOrder(order, asked) \in Seq(S)
  <2>1. \A n \in N : order[nth(n)] \in S
    BY <1>2, <1>3
  <2> QED
    BY <1>1, <1>2, <2>1
<1>6. ToSet(InOrder(order, asked)) = {order[nth(n)] : n \in N}
  BY <1>1 DEF ToSet
<1>7. {order[nth(n)] : n \in N} \subseteq ToSet(order) \cap asked
  BY <1>2, <1>3 DEF ToSet
<1>8. ToSet(order) \cap asked \subseteq {order[nth(n)] : n \in N}
  <2> SUFFICES ASSUME NEW k \in DOMAIN order, order[k] \in asked
               PROVE  \E n \in N : order[nth(n)] = order[k]
    BY DEF ToSet
  <2>1. k \in P
    BY <1>2
  <2>2. PICK n \in N : nth(n) = k
    BY <1>4, <2>1
  <2> QED
    BY <2>2
<1>9. ASSUME IsInjective(order), NEW m \in N, NEW n \in N, order[nth(m)] = order[nth(n)]
      PROVE  m = n
  <2>1. nth(m) \in DOMAIN order /\ nth(n) \in DOMAIN order
    BY <1>2, <1>3
  <2>2. nth(m) = nth(n)
    BY <1>9, <2>1 DEF IsInjective
  <2> QED
    BY <1>3, <2>2
<1>10. IsInjective(order) => IsInjective(InOrder(order, asked))
  BY <1>1, <1>9 DEF IsInjective
<1> QED
  BY <1>5, <1>6, <1>7, <1>8, <1>10

-----------------------------------------------------------------------------
(* The plugin's state *)

\* A tree lists each resource once, its rows are what RowsAreExact says they are,
\* and the cursor is on one of them, if there are any.
Grown(t) ==
    /\ t \in TreeState /\ IsInjective(t.items)
    /\ Exact(t, t.rows)
    /\ t.cursor \in 1 .. Len(t.rows) \cup {1}

\* The fields of the plugin.
Shaped(l) ==
    /\ l \in [status     : {"idle", "loading", "done", "error"},
              stale      : BOOLEAN,
              changes    : SUBSET Addrs,
              filter     : Queries,
              pinnedOnly : BOOLEAN,
              treeMode   : BOOLEAN,
              filtered   : Seq(Addrs),
              tree       : {l.tree},
              detail     : Addrs \cup {NoAddr},
              frames     : Seq(Frames) \ {<<>>}]
    /\ IsInjective(l.filtered) /\ Grown(l.tree)

\* What is listed, and what the tree is made of, are changes of the plan.
Listed(l) == ToSet(l.filtered) \subseteq l.changes /\ ToSet(l.tree.items) \subseteq l.changes

\* The list is the lowest frame; a detail is only ever on top.
Standing(fs) == fs[1] = "list" /\ \A i \in 1 .. Len(fs) - 1 : fs[i] # "inspect"

\* A detail that is shown is one of the plan.
Detailed(l) == Top(l) = "inspect" => l.detail \in l.changes

Sound(l) == Shaped(l) /\ Listed(l) /\ Standing(l.frames) /\ Detailed(l)

\* The list follows the query and the view, as ListIsCurrent says.
Follows(l, ps) == ToSet(l.filtered) = Source(l, ps) \cap Matching[l.filter]

\* The inductive invariant.
Followed == Sound(list) /\ (current => Follows(list, pins))

-----------------------------------------------------------------------------
(* The tree and the frames *)

\* The rows a tree may have, by what it is made of.
LEMMA RowsOfTree ==
  ASSUME NEW t, Planted(t)
  PROVE  /\ Paths(t) \subseteq ModulesOf(Addrs)
         /\ Rows(t) \subseteq ModulesOf(Addrs) \cup Addrs
<1>1. ToSet(t.items) \subseteq Addrs
  BY PathFacts
<1>2. Paths(t) \subseteq ModulesOf(Addrs)
  BY <1>1 DEF Paths, ModulesOf
<1> QED
  BY <1>1, <1>2 DEF Rows

\* What the rows are to be depends on the resources, the way they are sorted and
\* what is open.
LEMMA ExactDepends ==
  ASSUME NEW t, NEW u, u.items = t.items, u.nested = t.nested, u.open = t.open,
         NEW rows, Exact(t, rows)
  PROVE  Exact(u, rows)
<1>1. Paths(u) = Paths(t)
  BY DEF Paths
<1>2. Rows(u) = Rows(t)
  BY <1>1 DEF Rows
<1>3. Shown(u) = Shown(t)
  BY <1>2 DEF Shown
<1>4. \A r, s : Goes(u, r, s) = Goes(t, r, s)
  BY DEF Goes, IsLeaf
<1> QED
  BY <1>2, <1>3, <1>4 DEF Exact

\* A tree whose rows are made anew, whatever they were.
LEMMA FlattenedGrows ==
  ASSUME NEW t, t \in [items : Seq(Addrs), nested : BOOLEAN, open : SUBSET ModulesOf(Addrs),
                       rows : {t.rows}, cursor : Nat \ {0}],
         IsInjective(t.items)
  PROVE  Grown(Flattened(t)) /\ Flattened(t).items = t.items
<1> DEFINE rows == WalkTree(t)
           at == IF t.cursor <= Len(rows) THEN t.cursor ELSE IF rows = <<>> THEN 1 ELSE Len(rows)
           u == Flattened(t)
<1>1. Planted(t)
  BY DEF Planted
<1>2. Exact(t, rows)
  BY <1>1, WalkIsExact
<1>3. rows \in Seq(ModulesOf(Addrs) \cup Addrs)
  <2> HIDE DEF rows
  <2>1. rows \in Seq(Rows(t)) /\ Rows(t) \subseteq ModulesOf(Addrs) \cup Addrs
    BY <1>1, <1>2, RowsOfTree DEF Exact
  <2> QED
    BY <2>1
<1>4. u = [t EXCEPT !.rows = rows, !.cursor = at]
  BY DEF Flattened
<1> HIDE DEF rows
<1>5. at \in 1 .. Len(rows) \cup {1} /\ at \in Nat \ {0}
  <2>1. t.cursor \in Nat \ {0} /\ Len(rows) \in Nat /\ (rows # <<>> => Len(rows) # 0)
    BY <1>3
  <2> QED
    BY <2>1
<1> HIDE DEF at, u
<1>6. /\ u \in TreeState /\ u.items = t.items /\ u.nested = t.nested /\ u.open = t.open
      /\ u.rows = rows /\ u.cursor = at
  BY <1>3, <1>4, <1>5 DEF TreeState
<1>7. Exact(u, u.rows)
  BY <1>2, <1>6, ExactDepends
<1> QED
  BY <1>5, <1>6, <1>7 DEF Grown, u

\* A tree made anew is made of the resources given.
LEMMA NewTreeItems ==
  ASSUME NEW items \in Seq(Addrs), IsInjective(items), NEW nested \in BOOLEAN
  PROVE  Grown(NewTree(items, nested)) /\ NewTree(items, nested).items = items
<1> DEFINE t == [items |-> items, nested |-> nested, open |-> {}, rows |-> <<>>, cursor |-> 1]
<1>1. /\ t \in [items : Seq(Addrs), nested : BOOLEAN, open : SUBSET ModulesOf(Addrs),
                rows : {t.rows}, cursor : Nat \ {0}]
      /\ t.items = items
  OBVIOUS
<1>2. NewTree(items, nested) = Flattened(t)
  BY DEF NewTree
<1> HIDE DEF t
<1> QED
  BY <1>1, <1>2, FlattenedGrows

\* What the cursor is on, where it is on no leaf, is a module.
LEMMA BranchIsModule ==
  ASSUME NEW t, Grown(t), OnBranch(t)
  PROVE  CursorRow(t) \in ModulesOf(Addrs)
<1>1. CursorRow(t) # Root /\ CursorRow(t) \notin ToSet(t.items)
  BY DEF OnBranch, OnLeaf, IsLeaf
<1>2. t.rows \in Seq(Rows(t)) /\ t.cursor \in Nat \ {0} /\ Planted(t)
  BY DEF Grown, Exact, TreeState, Planted
<1>3. t.cursor \in 1 .. Len(t.rows) /\ CursorRow(t) = t.rows[t.cursor]
  BY <1>1, <1>2 DEF CursorRow
<1>4. CursorRow(t) \in Rows(t)
  BY <1>2, <1>3
<1> QED
  BY <1>1, <1>2, <1>4, RowsOfTree DEF Rows

\* A tree opened or closed is made of the same resources.
LEMMA TreeKeepsItems ==
  ASSUME NEW t, Grown(t)
  PROVE  /\ OnBranch(t) => Grown(ToggleNode(t)) /\ ToggleNode(t).items = t.items
         /\ Grown(ExpandAll(t)) /\ ExpandAll(t).items = t.items
         /\ Grown(CollapseAll(t)) /\ CollapseAll(t).items = t.items
<1>1. t \in TreeState /\ IsInjective(t.items) /\ t.open \subseteq ModulesOf(Addrs)
  BY DEF Grown, TreeState
<1>2. ASSUME NEW open \in SUBSET ModulesOf(Addrs), NEW u, u = [t EXCEPT !.open = open]
      PROVE  Grown(Flattened(u)) /\ Flattened(u).items = t.items
  <2>1. /\ u \in [items : Seq(Addrs), nested : BOOLEAN, open : SUBSET ModulesOf(Addrs),
                  rows : {u.rows}, cursor : Nat \ {0}]
        /\ u.items = t.items
    BY <1>1, <1>2 DEF TreeState
  <2> QED
    BY <1>1, <2>1, FlattenedGrows
<1>3. ASSUME OnBranch(t)
      PROVE  Grown(ToggleNode(t)) /\ ToggleNode(t).items = t.items
  <2> DEFINE n == CursorRow(t)
             open == IF n \in t.open THEN t.open \ {n} ELSE t.open \cup {n}
  <2>1. open \in SUBSET ModulesOf(Addrs)
    BY <1>1, <1>3, BranchIsModule
  <2>2. ToggleNode(t) = Flattened([t EXCEPT !.open = open])
    BY DEF ToggleNode
  <2> HIDE DEF open
  <2> QED
    BY <1>2, <2>1, <2>2
<1>4. Grown(ExpandAll(t)) /\ ExpandAll(t).items = t.items
  <2> DEFINE open == t.open \cup (Paths(t) \ {Root})
  <2>1. open \in SUBSET ModulesOf(Addrs)
    BY <1>1, RowsOfTree DEF Planted, TreeState
  <2>2. ExpandAll(t) = Flattened([t EXCEPT !.open = open])
    BY DEF ExpandAll
  <2> HIDE DEF open
  <2> QED
    BY <1>2, <2>1, <2>2
<1>5. Grown(CollapseAll(t)) /\ CollapseAll(t).items = t.items
  <2> DEFINE u == Flattened([t EXCEPT !.open = {}])
             v == [u EXCEPT !.cursor = 1]
  <2>1. Grown(u) /\ u.items = t.items
    BY <1>2
  <2>2. CollapseAll(t) = v
    BY DEF CollapseAll
  <2> HIDE DEF u
  <2>3. v \in TreeState /\ v.items = u.items /\ v.nested = u.nested /\ v.open = u.open
        /\ v.rows = u.rows /\ v.cursor = 1
    <3>1. u \in TreeState
      BY <2>1 DEF Grown
    <3> QED
      BY <3>1 DEF TreeState
  <2> HIDE DEF v
  <2>4. Exact(v, v.rows)
    BY <2>1, <2>3, ExactDepends DEF Grown
  <2>5. Grown(v)
    BY <2>1, <2>3, <2>4 DEF Grown
  <2> QED
    BY <2>1, <2>2, <2>3, <2>5
<1> QED
  BY <1>3, <1>4, <1>5

\* So is one the cursor moves in.
LEMMA CursorMoves ==
  ASSUME NEW t, Grown(t), NEW c \in Moves(t)
  PROVE  Grown([t EXCEPT !.cursor = c])
<1> DEFINE u == [t EXCEPT !.cursor = c]
<1>1. t \in TreeState /\ Len(t.rows) \in Nat /\ (t.rows # <<>> => Len(t.rows) # 0)
  BY DEF Grown, TreeState
<1>2. t.cursor \in Nat \ {0} /\ t.cursor \in 1 .. Len(t.rows) \cup {1}
  BY DEF Grown, TreeState
<1>3. c \in 1 .. Len(t.rows) \cup {1} /\ c \in Nat \ {0}
  BY <1>1, <1>2 DEF Moves
<1>4. u \in TreeState /\ u.items = t.items /\ u.nested = t.nested /\ u.open = t.open
      /\ u.rows = t.rows /\ u.cursor = c
  BY <1>1, <1>3 DEF TreeState
<1> HIDE DEF u
<1>5. Exact(u, u.rows)
  BY <1>4, ExactDepends DEF Grown
<1>6. Grown(u)
  BY <1>3, <1>4, <1>5 DEF Grown
<1> QED
  BY <1>6 DEF u

\* The empty tree has no rows.
LEMMA EmptyIsGrown == Grown(Empty) /\ Empty.items = <<>>
<1> DEFINE t == Empty
<1>1. /\ t \in TreeState /\ t.items = <<>> /\ t.rows = <<>> /\ t.nested /\ t.cursor = 1
  BY DEF Empty, TreeState
<1>2. ToSet(t.items) = {} /\ IsInjective(t.items)
  <2>1. DOMAIN <<>> = {}
    OBVIOUS
  <2> QED
    BY <1>1, <2>1 DEF ToSet, IsInjective
<1> HIDE DEF t
<1>3. Planted(t)
  BY <1>1 DEF Planted, TreeState
<1>4. Rows(t) = {}
  BY <1>1, <1>2, <1>3, PathFacts DEF Rows
<1>5. Shown(t) = {}
  BY <1>4 DEF Shown
<1>6. Exact(t, t.rows)
  <2>1. t.rows \in Seq(Rows(t)) /\ ToSet(t.rows) = {} /\ Len(t.rows) = 0 /\ DOMAIN t.rows = {}
    BY <1>1, <1>2
  <2>2. Cardinality({}) = 0
    BY FS_EmptySet
  <2> QED
    BY <1>5, <2>1, <2>2 DEF Exact
<1>7. Grown(t)
  BY <1>1, <1>2, <1>6 DEF Grown
<1> QED
  BY <1>1, <1>7 DEF t

\* What a frame pushed, popped or left alone at the bottom does to the rest.
LEMMA FramesStand ==
  ASSUME NEW fs \in Seq(Frames) \ {<<>>}, Standing(fs)
  PROVE  /\ <<Head(fs)>> = <<"list">>
         /\ Last(fs) # "inspect" => \A f \in Frames :
              /\ Append(fs, f) \in Seq(Frames) \ {<<>>}
              /\ Standing(Append(fs, f)) /\ Last(Append(fs, f)) = f
         /\ Last(fs) # "list" =>
              /\ Front(fs) \in Seq(Frames) \ {<<>>}
              /\ Standing(Front(fs)) /\ Last(Front(fs)) # "inspect"
<1> USE DEF Standing
<1>1. Len(fs) \in Nat /\ Len(fs) > 0 /\ \A i \in 1 .. Len(fs) : fs[i] \in Frames
  OBVIOUS
<1>2. <<Head(fs)>> = <<"list">>
  BY <1>1
<1>3. ASSUME Last(fs) # "inspect", NEW f \in Frames
      PROVE  /\ Append(fs, f) \in Seq(Frames) \ {<<>>}
             /\ Standing(Append(fs, f)) /\ Last(Append(fs, f)) = f
  <2> DEFINE gs == Append(fs, f)
  <2>1. /\ gs \in Seq(Frames) /\ Len(gs) = Len(fs) + 1
        /\ \A i \in 1 .. Len(fs) : gs[i] = fs[i]
        /\ gs[Len(fs) + 1] = f
    BY <1>1
  <2>2. fs[Len(fs)] # "inspect"
    BY <1>3 DEF Last
  <2> HIDE DEF gs
  <2>3. \A i \in 1 .. Len(gs) - 1 : gs[i] # "inspect"
    BY <1>1, <2>1, <2>2
  <2>4. gs[1] = "list" /\ Last(gs) = f /\ gs # <<>>
    BY <1>1, <2>1 DEF Last
  <2>5. gs \in Seq(Frames) \ {<<>>} /\ Standing(gs) /\ Last(gs) = f
    BY <2>1, <2>3, <2>4
  <2> QED
    BY <2>5 DEF gs
<1>4. ASSUME Last(fs) # "list"
      PROVE  /\ Front(fs) \in Seq(Frames) \ {<<>>}
             /\ Standing(Front(fs)) /\ Last(Front(fs)) # "inspect"
  <2> DEFINE gs == Front(fs)
  <2>1. Len(fs) > 1
    BY <1>1, <1>4 DEF Last
  <2>2. /\ gs \in Seq(Frames) /\ Len(gs) = Len(fs) - 1
        /\ \A i \in 1 .. Len(fs) - 1 : gs[i] = fs[i]
    BY <1>1, <2>1 DEF Front
  <2> HIDE DEF gs
  <2>3. gs[1] = "list" /\ gs # <<>> /\ gs[Len(gs)] # "inspect"
    BY <1>1, <2>1, <2>2
  <2>4. \A i \in 1 .. Len(gs) - 1 : gs[i] # "inspect"
    BY <1>1, <2>1, <2>2
  <2>5. gs \in Seq(Frames) \ {<<>>} /\ Standing(gs) /\ Last(gs) # "inspect"
    BY <2>2, <2>3, <2>4 DEF Last
  <2> QED
    BY <2>5 DEF gs
<1> QED
  BY <1>2, <1>3, <1>4

-----------------------------------------------------------------------------
(* What the handlers make of it *)

\* A frame pushed, popped or left alone touches nothing else, and keeps a sound
\* plugin sound: what is pushed is no detail, what comes to light is none.
LEMMA FramesKeep ==
  ASSUME NEW l, Shaped(l), Listed(l), Standing(l.frames)
  PROVE  /\ Sound(Cleared(l)) /\ Cleared(l) = [l EXCEPT !.frames = <<"list">>]
         /\ Top(l) # "inspect" => \A f \in Frames :
              /\ PushFrame(l, f) = [l EXCEPT !.frames = Append(l.frames, f)]
              /\ Top(PushFrame(l, f)) = f
              /\ (f = "inspect" => l.detail \in l.changes) => Sound(PushFrame(l, f))
         /\ Top(l) # "list" =>
              /\ PopFrame(l) = [l EXCEPT !.frames = Front(l.frames)]
              /\ Top(PopFrame(l)) # "inspect"
              /\ Sound(PopFrame(l))
<1>1. l.frames \in Seq(Frames) \ {<<>>}
  BY DEF Shaped
<1>2. ASSUME NEW fs \in Seq(Frames) \ {<<>>}, Standing(fs),
             NEW m, m = [l EXCEPT !.frames = fs]
      PROVE  /\ Shaped(m) /\ Listed(m) /\ m.frames = fs
             /\ m.detail = l.detail /\ m.changes = l.changes
             /\ (Last(fs) = "inspect" => l.detail \in l.changes) => Sound(m)
             /\ Top(m) = Last(fs)
  <2>1. /\ Shaped(m) /\ m.frames = fs /\ m.detail = l.detail /\ m.changes = l.changes
        /\ m.filtered = l.filtered /\ m.tree = l.tree
    BY <1>2 DEF Shaped
  <2>2. Listed(m)
    BY <2>1 DEF Listed
  <2> QED
    BY <1>2, <2>1, <2>2 DEF Sound, Detailed, Top
<1>3. /\ <<"list">> \in Seq(Frames) \ {<<>>}
      /\ Standing(<<"list">>) /\ Last(<<"list">>) = "list"
  BY DEF Frames, Standing, Last
<1>4. Cleared(l) = [l EXCEPT !.frames = <<"list">>]
  <2>1. <<Head(l.frames)>> = <<"list">>
    BY <1>1, FramesStand
  <2> QED
    BY <2>1 DEF Cleared
<1>5. Sound(Cleared(l))
  BY <1>2, <1>3, <1>4
<1>6. ASSUME Top(l) # "inspect", NEW f \in Frames
      PROVE  /\ PushFrame(l, f) = [l EXCEPT !.frames = Append(l.frames, f)]
             /\ Top(PushFrame(l, f)) = f
             /\ (f = "inspect" => l.detail \in l.changes) => Sound(PushFrame(l, f))
  <2>1. PushFrame(l, f) = [l EXCEPT !.frames = Append(l.frames, f)]
    BY DEF PushFrame
  <2>2. /\ Append(l.frames, f) \in Seq(Frames) \ {<<>>}
        /\ Standing(Append(l.frames, f)) /\ Last(Append(l.frames, f)) = f
    BY <1>1, <1>6, FramesStand DEF Top
  <2> QED
    BY <1>2, <2>1, <2>2
<1>7. ASSUME Top(l) # "list"
      PROVE  /\ PopFrame(l) = [l EXCEPT !.frames = Front(l.frames)]
             /\ Top(PopFrame(l)) # "inspect"
             /\ Sound(PopFrame(l))
  <2>1. PopFrame(l) = [l EXCEPT !.frames = Front(l.frames)]
    BY DEF PopFrame
  <2>2. /\ Front(l.frames) \in Seq(Frames) \ {<<>>}
        /\ Standing(Front(l.frames)) /\ Last(Front(l.frames)) # "inspect"
    BY <1>1, <1>7, FramesStand DEF Top
  <2> QED
    BY <1>2, <2>1, <2>2
<1> QED
  BY <1>4, <1>5, <1>6, <1>7

\* The tree is rebuilt from what is listed.
LEMMA RebuiltKeeps ==
  ASSUME NEW l, Shaped(l)
  PROVE  /\ Rebuilt(l) = [l EXCEPT !.tree = Rebuilt(l).tree]
         /\ Shaped(Rebuilt(l))
         /\ Rebuilt(l).tree.items = l.filtered
<1> DEFINE t == NewTree(l.filtered, l.treeMode)
           u == IF l.treeMode /\ l.filter # "" THEN ExpandAll(t) ELSE t
<1>1. l.filtered \in Seq(Addrs) /\ IsInjective(l.filtered) /\ l.treeMode \in BOOLEAN
  BY DEF Shaped
<1>2. Grown(t) /\ t.items = l.filtered
  BY <1>1, NewTreeItems
<1>3. Grown(u) /\ u.items = l.filtered
  BY <1>2, TreeKeepsItems
<1>4. Rebuilt(l) = [l EXCEPT !.tree = u]
  BY DEF Rebuilt
<1> HIDE DEF u
<1>5. Rebuilt(l).tree = u
  BY <1>4 DEF Shaped
<1> QED
  BY <1>3, <1>4, <1>5 DEF Shaped

\* SetFilter lists what the query and the view ask for, and nothing else moves.
LEMMA SetFilterFollows ==
  ASSUME NEW l, Shaped(l), Standing(l.frames), Detailed(l), NEW q \in Queries, NEW ps
  PROVE  Sound(SetFilter(l, q, ps)) /\ Follows(SetFilter(l, q, ps), ps)
<1> DEFINE order == IF q # "" /\ ~l.treeMode THEN ByScore ELSE ByPlan
           asked == Source(l, ps) \cap Matching[q]
           listed == InOrder(order, asked)
           m == [l EXCEPT !.filter = q, !.filtered = listed]
           n == SetFilter(l, q, ps)
<1>1. order \in Seq(Addrs) /\ ToSet(order) = Addrs /\ IsInjective(order)
  BY ChangeListAssumption
<1>2. asked \subseteq Addrs /\ asked \subseteq l.changes
  BY DEF Source, Shaped
<1>3. listed \in Seq(Addrs) /\ ToSet(listed) = asked /\ IsInjective(listed)
  <2> HIDE DEF order, asked
  <2>1. /\ listed \in Seq(Addrs) /\ ToSet(listed) = ToSet(order) \cap asked
        /\ IsInjective(listed)
    BY <1>1, InOrderKeeps
  <2> QED
    BY <1>1, <1>2, <2>1
<1>4. n = Rebuilt(m)
  BY DEF SetFilter
<1> HIDE DEF order, listed, n
<1>5. /\ Shaped(m) /\ m.filter = q /\ m.filtered = listed /\ m.changes = l.changes
      /\ m.pinnedOnly = l.pinnedOnly /\ m.frames = l.frames /\ m.detail = l.detail
  BY <1>3 DEF Shaped
<1> HIDE DEF m
<1>6. /\ Shaped(n) /\ n.filter = q /\ n.filtered = listed /\ n.changes = l.changes
      /\ n.pinnedOnly = l.pinnedOnly /\ n.frames = l.frames /\ n.detail = l.detail
      /\ n.tree.items = listed
  <2>1. /\ Rebuilt(m) = [m EXCEPT !.tree = Rebuilt(m).tree]
        /\ Shaped(Rebuilt(m)) /\ Rebuilt(m).tree.items = m.filtered
    BY <1>5, RebuiltKeeps
  <2> QED
    BY <1>4, <1>5, <2>1 DEF Shaped
<1>7. Sound(n)
  BY <1>2, <1>3, <1>6 DEF Sound, Listed, Detailed, Top
<1>8. Follows(n, ps)
  BY <1>3, <1>6 DEF Follows, Source
<1> QED
  BY <1>7, <1>8 DEF n

\* A plugin that lists the same changes under the same query and view still follows.
LEMMA FollowsSame ==
  ASSUME NEW l, NEW m, NEW ps, Follows(l, ps), m.filtered = l.filtered,
         m.changes = l.changes, m.filter = l.filter, m.pinnedOnly = l.pinnedOnly
  PROVE  Follows(m, ps)
BY DEF Follows, Source

\* No change, no resource and no plan: the list is bare.
LEMMA BareList ==
  /\ ToSet(<<>>) = {} /\ <<>> \in Seq(Addrs) /\ IsInjective(<<>>)
  /\ Grown(Empty) /\ Empty.items = <<>>
  /\ "" \in Queries /\ Matching[""] = Addrs /\ NoAddr \in Addrs \cup {NoAddr}
<1>1. ToSet(<<>>) = {} /\ <<>> \in Seq(Addrs) /\ IsInjective(<<>>)
  <2>1. DOMAIN <<>> = {}
    OBVIOUS
  <2> QED
    BY <2>1 DEF ToSet, IsInjective
<1> QED
  BY <1>1, EmptyIsGrown, ChangeListAssumption

\* A plan set aside leaves the bare list, which follows.
LEMMA ResetSound ==
  ASSUME NEW l, Sound(l), NEW ps
  PROVE  Sound(Reset(l)) /\ Follows(Reset(l), ps)
<1> DEFINE m == [l EXCEPT !.status = "idle", !.stale = FALSE, !.changes = {}, !.filter = "",
                          !.filtered = <<>>, !.tree = Empty, !.detail = NoAddr]
<1>1. Grown(Empty) /\ ToSet(Empty.items) = {}
  BY BareList
<1>2. /\ Shaped(m) /\ Standing(m.frames) /\ m.changes = {} /\ m.filter = ""
      /\ m.filtered = <<>> /\ m.tree = Empty
  BY <1>1, BareList DEF Sound, Shaped
<1>3. Reset(l) = Cleared(m)
  BY DEF Reset
<1> HIDE DEF m
<1>4. ToSet(m.filtered) = {}
  BY <1>2, BareList
<1>5. Listed(m)
  BY <1>1, <1>2, <1>4 DEF Listed
<1>6. Follows(m, ps)
  BY <1>2, <1>4 DEF Follows, Source
<1>7. Sound(Cleared(m)) /\ Cleared(m) = [m EXCEPT !.frames = <<"list">>]
  BY <1>2, <1>5, FramesKeep
<1>8. Follows(Cleared(m), ps)
  <2>1. /\ Cleared(m).filtered = m.filtered /\ Cleared(m).changes = m.changes
        /\ Cleared(m).filter = m.filter /\ Cleared(m).pinnedOnly = m.pinnedOnly
    BY <1>2, <1>7 DEF Shaped
  <2> QED
    BY <1>6, <2>1, FollowsSame
<1> QED
  BY <1>3, <1>7, <1>8

\* The log on top of a list, and a result that takes its place.
LEMMA LogSound ==
  ASSUME NEW l, Shaped(l), Listed(l), Standing(l.frames), NEW f \in {"stream", "list"}
  PROVE  LET m == PushFrame(Cleared(l), f)
         IN  /\ Sound(m) /\ m.filtered = l.filtered /\ m.changes = l.changes
             /\ m.filter = l.filter /\ m.pinnedOnly = l.pinnedOnly
<1> DEFINE k == Cleared(l)
           m == PushFrame(k, f)
<1>1. Sound(k) /\ k = [l EXCEPT !.frames = <<"list">>]
  BY FramesKeep
<1>2. k.frames = <<"list">> /\ k.filtered = l.filtered /\ k.changes = l.changes
      /\ k.filter = l.filter /\ k.pinnedOnly = l.pinnedOnly
  BY <1>1 DEF Shaped
<1>3. Top(k) # "inspect"
  BY <1>2 DEF Top, Last
<1>4. f \in Frames /\ f # "inspect"
  BY DEF Frames
<1>5. Shaped(k) /\ Listed(k) /\ Standing(k.frames)
  BY <1>1 DEF Sound
<1> HIDE DEF k
<1>6. Sound(m) /\ m = [k EXCEPT !.frames = Append(k.frames, f)]
  BY <1>3, <1>4, <1>5, FramesKeep
<1> HIDE DEF m
<1>7. /\ m.filtered = k.filtered /\ m.changes = k.changes
      /\ m.filter = k.filter /\ m.pinnedOnly = k.pinnedOnly
  BY <1>5, <1>6 DEF Shaped
<1> QED
  BY <1>2, <1>6, <1>7 DEF m, k

\* A plan that starts anew lists nothing, one that is started again what was listed.
LEMMA StartedSound ==
  ASSUME NEW l, Sound(l), NEW ps
  PROVE  /\ Sound(Replanned(l)) /\ Follows(Replanned(l), ps)
         /\ Sound(Activated(l)) /\ (Follows(l, ps) => Follows(Activated(l), ps))
<1>1. Sound(Replanned(l)) /\ Follows(Replanned(l), ps)
  <2> DEFINE m == [l EXCEPT !.status = "loading", !.changes = {}, !.filter = "",
                            !.filtered = <<>>, !.tree = Empty, !.detail = NoAddr]
             n == PushFrame(Cleared(m), "stream")
  <2>1. Grown(Empty) /\ ToSet(Empty.items) = {}
    BY BareList
  <2>2. /\ Shaped(m) /\ Standing(m.frames) /\ m.changes = {} /\ m.filter = ""
        /\ m.filtered = <<>> /\ m.tree = Empty
    BY <2>1, BareList DEF Sound, Shaped
  <2>3. Replanned(l) = n
    BY DEF Replanned, LogShown
  <2> HIDE DEF m
  <2>4. ToSet(m.filtered) = {}
    BY <2>2, BareList
  <2>5. Listed(m)
    BY <2>1, <2>2, <2>4 DEF Listed
  <2>6. Follows(m, ps)
    BY <2>2, <2>4 DEF Follows, Source
  <2>7. Sound(n) /\ n.filtered = m.filtered /\ n.changes = m.changes
        /\ n.filter = m.filter /\ n.pinnedOnly = m.pinnedOnly
    BY <2>2, <2>5, LogSound
  <2> HIDE DEF n
  <2>8. Follows(n, ps)
    BY <2>6, <2>7, FollowsSame
  <2> QED
    BY <2>3, <2>7, <2>8
<1>2. Sound(Activated(l)) /\ (Follows(l, ps) => Follows(Activated(l), ps))
  <2> DEFINE m == [l EXCEPT !.status = "loading", !.stale = FALSE]
             n == PushFrame(Cleared(m), "stream")
  <2>1. /\ Shaped(m) /\ m.frames = l.frames /\ m.changes = l.changes /\ m.filter = l.filter
        /\ m.filtered = l.filtered /\ m.tree = l.tree /\ m.pinnedOnly = l.pinnedOnly
    BY DEF Sound, Shaped
  <2>2. Activated(l) = n
    BY DEF Activated, LogShown
  <2> HIDE DEF m
  <2>3. Listed(m) /\ Standing(m.frames)
    BY <2>1 DEF Sound, Listed
  <2>4. Sound(n) /\ n.filtered = m.filtered /\ n.changes = m.changes
        /\ n.filter = m.filter /\ n.pinnedOnly = m.pinnedOnly
    BY <2>1, <2>3, LogSound
  <2> HIDE DEF n
  <2>5. Follows(l, ps) => Follows(n, ps)
    BY <2>1, <2>4, FollowsSame
  <2> QED
    BY <2>2, <2>4, <2>5
<1> QED
  BY <1>1, <1>2

\* A result is listed as it comes, which follows where nothing is asked for.
LEMMA ResultSound ==
  ASSUME NEW l, Sound(l), NEW ps, NEW found \in Plans
  PROVE  /\ Sound(Completed(l, found))
         /\ ~l.pinnedOnly /\ l.filter = "" => Follows(Completed(l, found), ps)
<1> DEFINE listed == InOrder(ByPlan, found)
           k == [l EXCEPT !.status = "done", !.changes = found, !.filtered = listed]
           m == Rebuilt(k)
           n == PushFrame(Cleared(m), "list")
<1>1. /\ listed \in Seq(Addrs) /\ ToSet(listed) = found /\ found \subseteq Addrs
      /\ IsInjective(listed)
  <2>1. found \subseteq Addrs /\ ByPlan \in Seq(Addrs) /\ ToSet(ByPlan) = Addrs
        /\ IsInjective(ByPlan)
    BY ChangeListAssumption
  <2>2. /\ listed \in Seq(Addrs) /\ ToSet(listed) = ToSet(ByPlan) \cap found
        /\ IsInjective(listed)
    BY <2>1, InOrderKeeps
  <2> QED
    BY <2>1, <2>2
<1> HIDE DEF listed
<1>2. /\ Shaped(k) /\ k.frames = l.frames /\ k.changes = found /\ k.filter = l.filter
      /\ k.filtered = listed /\ k.pinnedOnly = l.pinnedOnly
  BY <1>1 DEF Sound, Shaped
<1>3. Completed(l, found) = n
  BY DEF Completed, listed
<1> HIDE DEF k
<1>4. m = [k EXCEPT !.tree = m.tree] /\ Shaped(m) /\ m.tree.items = k.filtered
  BY <1>2, RebuiltKeeps
<1> HIDE DEF m
<1>5. /\ m.frames = l.frames /\ m.changes = found /\ m.filter = l.filter
      /\ m.filtered = listed /\ m.pinnedOnly = l.pinnedOnly
  BY <1>2, <1>4 DEF Shaped
<1>6. Listed(m) /\ Standing(m.frames)
  BY <1>1, <1>2, <1>4, <1>5 DEF Sound, Listed
<1>7. Sound(n) /\ n.filtered = m.filtered /\ n.changes = m.changes
      /\ n.filter = m.filter /\ n.pinnedOnly = m.pinnedOnly
  BY <1>4, <1>6, LogSound
<1> HIDE DEF n
<1>8. ~l.pinnedOnly /\ l.filter = "" => Follows(n, ps)
  BY <1>1, <1>5, <1>7, ChangeListAssumption DEF Follows, Source
<1> QED
  BY <1>3, <1>7, <1>8

\* A failure leaves what was listed.
LEMMA FailureSound ==
  ASSUME NEW l, Sound(l), NEW ps
  PROVE  Sound(Failed(l)) /\ (Follows(l, ps) => Follows(Failed(l), ps))
<1> DEFINE m == [l EXCEPT !.status = "error"]
           n == PushFrame(Cleared(m), "list")
<1>1. /\ Shaped(m) /\ m.frames = l.frames /\ m.changes = l.changes /\ m.filter = l.filter
      /\ m.filtered = l.filtered /\ m.tree = l.tree /\ m.pinnedOnly = l.pinnedOnly
  BY DEF Sound, Shaped
<1>2. Failed(l) = n
  BY DEF Failed
<1> HIDE DEF m
<1>3. Listed(m) /\ Standing(m.frames)
  BY <1>1 DEF Sound, Listed
<1>4. Sound(n) /\ n.filtered = m.filtered /\ n.changes = m.changes
      /\ n.filter = m.filter /\ n.pinnedOnly = m.pinnedOnly
  BY <1>1, <1>3, LogSound
<1> HIDE DEF n
<1>5. Follows(l, ps) => Follows(n, ps)
  BY <1>1, <1>4, FollowsSame
<1> QED
  BY <1>2, <1>4, <1>5

\* New pins: a view of the pinned is listed anew, any other does not care.
LEMMA PinsReadSound ==
  ASSUME NEW l, Sound(l), NEW ps, NEW qs
  PROVE  /\ Sound(PinsRead(l, qs))
         /\ (~l.pinnedOnly => Follows(l, ps)) => Follows(PinsRead(l, qs), qs)
<1> DEFINE m == [l EXCEPT !.stale = TRUE]
<1>1. /\ Shaped(m) /\ m.frames = l.frames /\ m.changes = l.changes /\ m.filter = l.filter
      /\ m.filtered = l.filtered /\ m.tree = l.tree /\ m.pinnedOnly = l.pinnedOnly
      /\ m.detail = l.detail
  BY DEF Sound, Shaped
<1>2. PinsRead(l, qs) = IF l.pinnedOnly THEN SetFilter(m, l.filter, qs) ELSE m
  BY DEF PinsRead
<1> HIDE DEF m
<1>3. Sound(m)
  BY <1>1 DEF Sound, Listed, Detailed, Top
<1>4. CASE l.pinnedOnly
  <2>1. l.filter \in Queries
    BY DEF Sound, Shaped
  <2>2. Shaped(m) /\ Standing(m.frames) /\ Detailed(m)
    BY <1>3 DEF Sound
  <2>3. Sound(SetFilter(m, l.filter, qs)) /\ Follows(SetFilter(m, l.filter, qs), qs)
    BY <2>1, <2>2, SetFilterFollows
  <2> QED
    BY <1>2, <1>4, <2>3
<1>5. CASE ~l.pinnedOnly
  BY <1>1, <1>2, <1>3, <1>5 DEF Follows, Source
<1> QED
  BY <1>4, <1>5

-----------------------------------------------------------------------------
(* The steps *)

\* A cursor moved, a module opened or closed: what is listed is as it was.
LEMMA TreeOnly ==
  ASSUME NEW l, Sound(l), NEW t, Grown(t), t.items = l.tree.items, NEW ps
  PROVE  /\ Sound([l EXCEPT !.tree = t])
         /\ Follows(l, ps) => Follows([l EXCEPT !.tree = t], ps)
<1> DEFINE m == [l EXCEPT !.tree = t]
<1>1. /\ Shaped(m) /\ m.frames = l.frames /\ m.changes = l.changes /\ m.filter = l.filter
      /\ m.filtered = l.filtered /\ m.tree = t /\ m.pinnedOnly = l.pinnedOnly
      /\ m.detail = l.detail
  BY DEF Sound, Shaped
<1> HIDE DEF m
<1>2. Sound(m) /\ (Follows(l, ps) => Follows(m, ps))
  BY <1>1, FollowsSame DEF Sound, Listed, Detailed, Top
<1> QED
  BY <1>2 DEF m

\* The change under the cursor is shown.
LEMMA InspectedSound ==
  ASSUME NEW l, Sound(l), Top(l) \in {"list", "filter"}, OnLeaf(l.tree), NEW ps
  PROVE  Sound(Inspected(l)) /\ (Follows(l, ps) => Follows(Inspected(l), ps))
<1> DEFINE k == IF Top(l) = "filter" THEN PopFrame(l) ELSE l
           m == [k EXCEPT !.detail = CursorRow(l.tree)]
<1>1. CursorRow(l.tree) \in l.changes /\ l.changes \subseteq Addrs
  BY DEF OnLeaf, IsLeaf, Sound, Listed, Shaped
<1>2. /\ Sound(k) /\ Top(k) # "inspect" /\ k.changes = l.changes /\ k.filter = l.filter
      /\ k.filtered = l.filtered /\ k.pinnedOnly = l.pinnedOnly
  <2>1. CASE Top(l) = "filter"
    <3>1. /\ PopFrame(l) = [l EXCEPT !.frames = Front(l.frames)]
          /\ Top(PopFrame(l)) # "inspect" /\ Sound(PopFrame(l))
      BY <2>1, FramesKeep DEF Sound
    <3>2. k = PopFrame(l)
      BY <2>1
    <3> HIDE DEF k
    <3> QED
      BY <3>1, <3>2 DEF Sound, Shaped
  <2>2. CASE Top(l) # "filter"
    BY <2>2
  <2> QED
    BY <2>1, <2>2
<1>3. Inspected(l) = PushFrame(m, "inspect")
  BY DEF Inspected
<1> HIDE DEF k
<1>4. /\ Shaped(m) /\ m.frames = k.frames /\ m.changes = l.changes /\ m.filter = l.filter
      /\ m.filtered = l.filtered /\ m.pinnedOnly = l.pinnedOnly
      /\ m.detail = CursorRow(l.tree) /\ m.tree = k.tree
  BY <1>1, <1>2 DEF Sound, Shaped
<1> HIDE DEF m
<1>5. Listed(m) /\ Standing(m.frames) /\ Top(m) # "inspect"
  BY <1>2, <1>4 DEF Sound, Listed, Top
<1>6. /\ PushFrame(m, "inspect") = [m EXCEPT !.frames = Append(m.frames, "inspect")]
      /\ Sound(PushFrame(m, "inspect"))
  <2>1. "inspect" \in Frames
    BY DEF Frames
  <2> QED
    BY <1>1, <1>4, <1>5, <2>1, FramesKeep
<1>7. /\ PushFrame(m, "inspect").filtered = l.filtered
      /\ PushFrame(m, "inspect").changes = l.changes
      /\ PushFrame(m, "inspect").filter = l.filter
      /\ PushFrame(m, "inspect").pinnedOnly = l.pinnedOnly
  BY <1>4, <1>6 DEF Shaped
<1>8. Follows(l, ps) => Follows(PushFrame(m, "inspect"), ps)
  BY <1>7, FollowsSame
<1> QED
  BY <1>3, <1>6, <1>8

\* A key of the list keeps what is listed sound, and what follows following.
LEMMA KeysFollow == Followed /\ User => Followed'
<1> SUFFICES ASSUME Sound(list), current => Follows(list, pins), User
             PROVE  Sound(list') /\ (current' => Follows(list', pins'))
  BY DEF Followed
<1>1. Grown(list.tree) /\ list.filter \in Queries /\ "" \in Queries
  BY BareList DEF Sound, Shaped
<1>2. Shaped(list) /\ Listed(list) /\ Standing(list.frames) /\ Detailed(list)
  BY DEF Sound
<1>w. CASE Walk
  <2>1. PICK c \in Moves(list.tree) : list' = [list EXCEPT !.tree.cursor = c]
    BY <1>w DEF Walk, Locally
  <2> DEFINE t == [list.tree EXCEPT !.cursor = c]
  <2>2. Grown(t) /\ t.items = list.tree.items
    <3>1. list.tree \in TreeState
      BY <1>1 DEF Grown
    <3> QED
      BY <1>1, <2>1, <3>1, CursorMoves DEF TreeState
  <2>3. list' = [list EXCEPT !.tree = t]
    BY <2>1
  <2> HIDE DEF t
  <2>4. pins' = pins /\ current' = current
    BY <1>w DEF Walk, Locally
  <2> QED
    BY <2>2, <2>3, <2>4, TreeOnly
<1>e. CASE Enter
  <2>1. pins' = pins /\ current' = current /\ Top(list) \in {"list", "filter"}
    BY <1>e DEF Enter, Locally
  <2>2. \/ OnBranch(list.tree) /\ list' = [list EXCEPT !.tree = ToggleNode(list.tree)]
        \/ OnLeaf(list.tree) /\ list' = Inspected(list)
    BY <1>e DEF Enter, Locally
  <2>3. CASE OnBranch(list.tree) /\ list' = [list EXCEPT !.tree = ToggleNode(list.tree)]
    <3>1. Grown(ToggleNode(list.tree)) /\ ToggleNode(list.tree).items = list.tree.items
      BY <1>1, <2>3, TreeKeepsItems
    <3> QED
      BY <2>1, <2>3, <3>1, TreeOnly
  <2>4. CASE OnLeaf(list.tree) /\ list' = Inspected(list)
    BY <2>1, <2>4, InspectedSound
  <2> QED
    BY <2>2, <2>3, <2>4
<1>u. CASE Unfold
  <2>1. PICK t \in {ExpandAll(list.tree), CollapseAll(list.tree)} : list' = [list EXCEPT !.tree = t]
    BY <1>u DEF Unfold, Locally
  <2>2. Grown(t) /\ t.items = list.tree.items
    BY <1>1, TreeKeepsItems
  <2>3. pins' = pins /\ current' = current
    BY <1>u DEF Unfold, Locally
  <2> QED
    BY <2>1, <2>2, <2>3, TreeOnly
<1>t. CASE ToggleTree
  <2> DEFINE m == [list EXCEPT !.treeMode = ~@]
  <2>1. list' = SetFilter(m, list.filter, pins) /\ pins' = pins
    BY <1>t DEF ToggleTree, Locally
  <2>2. Shaped(m) /\ Standing(m.frames) /\ Detailed(m)
    BY <1>2 DEF Shaped, Detailed, Top
  <2> HIDE DEF m
  <2> QED
    BY <1>1, <2>1, <2>2, SetFilterFollows
<1>p. CASE TogglePinned
  <2> DEFINE m == [list EXCEPT !.pinnedOnly = ~@]
  <2>1. list' = SetFilter(m, list.filter, pins) /\ pins' = pins
    BY <1>p DEF TogglePinned, Locally
  <2>2. Shaped(m) /\ Standing(m.frames) /\ Detailed(m)
    BY <1>2 DEF Shaped, Detailed, Top
  <2> HIDE DEF m
  <2> QED
    BY <1>1, <2>1, <2>2, SetFilterFollows
<1>f. CASE OpenFilter
  <2> DEFINE m == SetFilter(list, "", pins)
             n == PushFrame(m, "filter")
  <2>1. list' = n /\ pins' = pins /\ Top(list) = "list"
    BY <1>f DEF OpenFilter, Locally
  <2>2. Sound(m) /\ Follows(m, pins)
    BY <1>1, <1>2, SetFilterFollows
  <2>3. Top(m) = "list"
    <3>1. m.frames = list.frames
      <4> DEFINE k == [list EXCEPT !.filter = "",
                         !.filtered = InOrder(ByPlan, Source(list, pins) \cap Matching[""])]
      <4>1. m = Rebuilt(k)
        BY DEF SetFilter
      <4>2. Rebuilt(k).frames = k.frames /\ k.frames = list.frames
        BY <1>2 DEF Rebuilt, Shaped
      <4> QED
        BY <4>1, <4>2
    <3> QED
      BY <2>1, <3>1 DEF Top
  <2> HIDE DEF m
  <2>4. n = [m EXCEPT !.frames = Append(m.frames, "filter")] /\ Sound(n)
    <3>1. "filter" \in Frames
      BY DEF Frames
    <3> QED
      BY <2>2, <2>3, <3>1, FramesKeep DEF Sound
  <2> HIDE DEF n
  <2>5. /\ n.filtered = m.filtered /\ n.changes = m.changes
        /\ n.filter = m.filter /\ n.pinnedOnly = m.pinnedOnly
    BY <2>2, <2>4 DEF Sound, Shaped
  <2> QED
    BY <2>1, <2>2, <2>4, <2>5, FollowsSame
<1>y. CASE Type
  <2>1. PICK q \in Queries : list' = SetFilter(list, q, pins)
    BY <1>y DEF Type, Locally
  <2>2. pins' = pins
    BY <1>y DEF Type, Locally
  <2> QED
    BY <1>2, <2>1, <2>2, SetFilterFollows
<1>c. CASE Close
  <2> DEFINE m == IF Top(list) = "inspect" THEN [list EXCEPT !.detail = NoAddr] ELSE list
  <2>1. list' = PopFrame(m) /\ pins' = pins /\ current' = current /\ Top(list) # "list"
    BY <1>c DEF Close, Locally
  <2>2. /\ Shaped(m) /\ m.frames = list.frames /\ m.changes = list.changes
        /\ m.filter = list.filter /\ m.filtered = list.filtered /\ m.tree = list.tree
        /\ m.pinnedOnly = list.pinnedOnly
    BY <1>2, BareList DEF Shaped
  <2> HIDE DEF m
  <2>3. Listed(m) /\ Standing(m.frames) /\ Top(m) # "list"
    BY <1>2, <2>1, <2>2 DEF Listed, Top
  <2>4. PopFrame(m) = [m EXCEPT !.frames = Front(m.frames)] /\ Sound(PopFrame(m))
    BY <2>2, <2>3, FramesKeep
  <2>5. /\ PopFrame(m).filtered = list.filtered /\ PopFrame(m).changes = list.changes
        /\ PopFrame(m).filter = list.filter /\ PopFrame(m).pinnedOnly = list.pinnedOnly
    BY <2>2, <2>4 DEF Shaped
  <2> QED
    BY <2>1, <2>4, <2>5, FollowsSame
<1>n. CASE Pin \/ Leave
  <2>1. list' = list /\ pins' = pins /\ current' = current
    BY <1>n DEF Pin, Leave, Sends
  <2> QED
    BY <2>1
<1>m. CASE Unpin
  <2>1. pins' = pins
    BY <1>m DEF Unpin, Sends
  <2>2. CASE list.pinnedOnly
    <3> DEFINE m == [list EXCEPT !.pinnedOnly = FALSE]
    <3>1. list' = SetFilter(m, list.filter, pins)
      BY <1>m, <2>2 DEF Unpin
    <3>2. Shaped(m) /\ Standing(m.frames) /\ Detailed(m)
      BY <1>2 DEF Shaped, Detailed, Top
    <3> HIDE DEF m
    <3> QED
      BY <1>1, <2>1, <3>1, <3>2, SetFilterFollows
  <2>3. CASE ~list.pinnedOnly
    BY <1>m, <2>1, <2>3 DEF Unpin
  <2> QED
    BY <2>2, <2>3
<1>q. CASE Quit
  <2>1. CASE list' = Cleared(list) /\ pins' = pins /\ current' = current
    <3>1. Sound(Cleared(list)) /\ Cleared(list) = [list EXCEPT !.frames = <<"list">>]
      BY <1>2, FramesKeep
    <3>2. /\ Cleared(list).filtered = list.filtered /\ Cleared(list).changes = list.changes
          /\ Cleared(list).filter = list.filter /\ Cleared(list).pinnedOnly = list.pinnedOnly
      BY <1>2, <3>1 DEF Shaped
    <3> QED
      BY <2>1, <3>1, <3>2, FollowsSame
  <2>2. CASE list' = list /\ pins' = pins /\ current' = current
    BY <2>2
  <2> QED
    BY <1>q, <2>1, <2>2 DEF Quit, Locally
<1>r. CASE Replan
  <2>1. list' = Replanned(list)
    BY <1>r DEF Replan
  <2> QED
    BY <2>1, StartedSound
<1>o. CASE Open
  <2>1. pins' = pins /\ current' = current /\ list' \in {Activated(list), list}
    BY <1>o DEF Open
  <2> QED
    BY <2>1, StartedSound
<1> QED
  BY <1>w, <1>e, <1>u, <1>t, <1>p, <1>f, <1>y, <1>c, <1>n, <1>m, <1>q, <1>r, <1>o DEF User

\* So does every message, and what other plugins say.
LEMMA MessagesFollow == Followed /\ [Next]_vars /\ ~User => Followed'
<1> SUFFICES ASSUME Sound(list), current => Follows(list, pins), [Next]_vars, ~User
             PROVE  Sound(list') /\ (current' => Follows(list', pins'))
  BY DEF Followed
<1>s. ASSUME list' = list, pins' = pins, current' = current
      PROVE  Sound(list') /\ (current' => Follows(list', pins'))
  BY <1>s
<1>i. ASSUME NEW qs, pins' = qs, list' = PinsRead(list, qs), current' = (current \/ list.pinnedOnly)
      PROVE  Sound(list') /\ (current' => Follows(list', pins'))
  <2>1. Sound(PinsRead(list, qs))
    BY PinsReadSound
  <2>2. (~list.pinnedOnly => Follows(list, pins)) => Follows(PinsRead(list, qs), qs)
    BY PinsReadSound
  <2>3. Sound(list) /\ list.pinnedOnly \in BOOLEAN
    BY DEF Sound, Shaped
  <2> QED
    BY <1>i, <2>1, <2>2, <2>3
<1>c. CASE PlanCompletes
  <2>1. PICK found \in Plans : list' = Completed(list, found)
    BY <1>c DEF PlanCompletes
  <2>2. pins' = pins /\ current' = (~list.pinnedOnly /\ list.filter = "")
    BY <1>c DEF PlanCompletes
  <2> QED
    BY <2>1, <2>2, ResultSound
<1>f. CASE PlanFails
  <2>1. list' = Failed(list) /\ pins' = pins /\ current' = current
    BY <1>f DEF PlanFails
  <2>2. Sound(Failed(list)) /\ (Follows(list, pins) => Follows(Failed(list), pins))
    BY FailureSound
  <2> QED
    BY <2>1, <2>2
<1>m. CASE \E m \in BagToSet(requests) : Receive(m)
  <2>1. PICK m \in BagToSet(requests) : Refuse(m) \/ TogglePins(m) \/ ClearPins(m) \/ GoHome(m)
    BY <1>m DEF Receive
  <2>2. CASE Refuse(m) \/ GoHome(m)
    BY <1>s, <2>2 DEF Refuse, GoHome
  <2>3. CASE TogglePins(m)
    BY <1>i, <2>3 DEF TogglePins, ReplacePins
  <2>4. CASE ClearPins(m)
    BY <1>i, <1>s, <2>4 DEF ClearPins, ReplacePins
  <2> QED
    BY <2>1, <2>2, <2>3, <2>4
<1>h. CASE Hear
  <2>1. pins' = pins /\ current' = (current \/ list' = Reset(list))
    BY <1>h DEF Hear
  <2>2. CASE list' = Reset(list)
    BY <2>2, ResetSound
  <2>3. CASE list' # Reset(list)
    <3> DEFINE m == [list EXCEPT !.stale = TRUE]
    <3>1. list' = m
      BY <1>h, <2>3 DEF Hear, Invalidated
    <3>2. /\ Shaped(m) /\ m.frames = list.frames /\ m.changes = list.changes
          /\ m.filter = list.filter /\ m.filtered = list.filtered /\ m.tree = list.tree
          /\ m.pinnedOnly = list.pinnedOnly /\ m.detail = list.detail
      BY DEF Sound, Shaped
    <3> HIDE DEF m
    <3>3. Sound(m) /\ (Follows(list, pins) => Follows(m, pins))
      BY <3>2, FollowsSame DEF Sound, Listed, Detailed, Top
    <3> QED
      BY <2>1, <2>3, <3>1, <3>3
  <2> QED
    BY <2>2, <2>3
<1>w. CASE SwitchContext
  <2>1. list' = Reset(list)
    BY <1>w DEF SwitchContext
  <2> QED
    BY <2>1, ResetSound
<1>u. CASE UNCHANGED vars
  BY <1>s, <1>u DEF vars
<1> QED
  BY <1>c, <1>f, <1>m, <1>h, <1>w, <1>u DEF Next

-----------------------------------------------------------------------------
(* Types, rows and marks *)

\* What is counted, pinned and on its way.
Counted ==
    /\ home \in BOOLEAN /\ current \in BOOLEAN
    /\ pins \subseteq Addrs
    /\ running \in Nat /\ started \in 0 .. MaxPlans /\ running <= started
    /\ IsABag(requests) /\ BagToSet(requests) \subseteq Request

\* Requests sent, and one received.
LEMMA BagsOfRequests ==
  ASSUME IsABag(requests), BagToSet(requests) \subseteq Request
  PROVE  /\ \A S \in SUBSET Request : /\ IsABag(requests (+) SetToBag(S))
                                      /\ BagToSet(requests (+) SetToBag(S)) \subseteq Request
         /\ \A m \in BagToSet(requests), S \in SUBSET Request :
              LET left == requests (-) SetToBag({m})
              IN  /\ IsABag(left) /\ BagToSet(left) \subseteq Request
                  /\ IsABag(left (+) SetToBag(S))
                  /\ BagToSet(left (+) SetToBag(S)) \subseteq Request
<1>1. ASSUME NEW B, IsABag(B), BagToSet(B) \subseteq Request, NEW S \in SUBSET Request
      PROVE  IsABag(B (+) SetToBag(S)) /\ BagToSet(B (+) SetToBag(S)) \subseteq Request
  BY <1>1 DEF IsABag, (+), SetToBag, BagToSet
<1>2. ASSUME NEW m \in BagToSet(requests)
      PROVE  /\ IsABag(requests (-) SetToBag({m}))
             /\ BagToSet(requests (-) SetToBag({m})) \subseteq Request
  BY <1>2 DEF IsABag, (-), SetToBag, BagToSet
<1> QED
  BY <1>1, <1>2

\* What space asks App to pin, on a row or in a detail, are addresses.
LEMMA PinsAreAddresses ==
  ASSUME NEW l, Sound(l)
  PROVE  /\ l.changes \subseteq Addrs
         /\ Top(l) = "inspect" => l.detail \in Addrs
         /\ CursorRow(l.tree) # Root => PinAddresses(l.tree, CursorRow(l.tree)) \subseteq Addrs
<1>1. l.changes \subseteq Addrs /\ ToSet(l.tree.items) \subseteq l.changes
  BY DEF Sound, Shaped, Listed
<1>2. Top(l) = "inspect" => l.detail \in Addrs
  BY <1>1 DEF Sound, Detailed
<1>3. PinAddresses(l.tree, CursorRow(l.tree)) \subseteq Addrs
  BY <1>1 DEF PinAddresses, IsLeaf
<1> QED
  BY <1>1, <1>2, <1>3

\* A key starts one plan more at most and asks for addresses only.
LEMMA KeysCount == Followed /\ Counted /\ User => Counted'
<1> SUFFICES ASSUME Sound(list), Counted, User PROVE Counted'
  BY DEF Followed
<1>1. /\ \A S \in SUBSET Request : /\ IsABag(requests (+) SetToBag(S))
                                   /\ BagToSet(requests (+) SetToBag(S)) \subseteq Request
  BY BagsOfRequests DEF Counted
<1>2. PinClear \in Request /\ Deactivate \in Request
  BY DEF Request, PinClear, Deactivate
<1>3. ASSUME NEW l, Locally(l), current' \in {current, TRUE}
      PROVE  Counted'
  BY <1>3 DEF Locally, Counted
<1>4. ASSUME NEW m \in Request, Sends(m), current' \in {current, TRUE}
      PROVE  Counted'
  <2>1. {m} \in SUBSET Request
    OBVIOUS
  <2>2. requests' = requests (+) SetToBag({m})
    BY <1>4 DEF Sends, Sent
  <2>3. IsABag(requests') /\ BagToSet(requests') \subseteq Request
    BY <1>1, <2>1, <2>2
  <2> QED
    BY <1>4, <2>3 DEF Sends, Counted
<1>5. ASSUME StartPlan, UNCHANGED <<pins, requests>>, home' \in BOOLEAN, current' \in {current, TRUE}
      PROVE  Counted'
  <2>1. MaxPlans \in Nat
    BY ChangeListAssumption
  <2>2. running' = running + 1 /\ started < MaxPlans /\ started' = started + 1
    BY <1>5 DEF StartPlan
  <2>3. running' \in Nat /\ started' \in 0 .. MaxPlans /\ running' <= started'
    BY <2>1, <2>2 DEF Counted
  <2> QED
    BY <1>5, <2>3 DEF Counted
<1>w. CASE Walk
  BY <1>3, <1>w DEF Walk
<1>e. CASE Enter
  BY <1>3, <1>e DEF Enter
<1>u. CASE Unfold
  BY <1>3, <1>u DEF Unfold
<1>t. CASE ToggleTree \/ TogglePinned \/ OpenFilter \/ Type
  BY <1>3, <1>t DEF ToggleTree, TogglePinned, OpenFilter, Type
<1>c. CASE Close
  BY <1>3, <1>c DEF Close
<1>p. CASE Pin
  <2>1. PICK asked : /\ \/ asked = {list.detail} /\ Top(list) = "inspect"
                        \/ /\ asked = PinAddresses(list.tree, CursorRow(list.tree))
                           /\ CursorRow(list.tree) # Root
                     /\ Sends(PinToggle(asked))
    BY <1>p DEF Pin
  <2>2. asked \subseteq Addrs
    BY <2>1, PinsAreAddresses
  <2>3. PinToggle(asked) \in Request
    BY <2>2 DEF Request, PinToggle
  <2>4. current' = current
    BY <1>p DEF Pin
  <2> QED
    BY <1>4, <2>1, <2>3, <2>4
<1>n. CASE Unpin
  BY <1>2, <1>4, <1>n DEF Unpin
<1>l. CASE Leave
  BY <1>2, <1>4, <1>l DEF Leave
<1>q. CASE Quit
  <2>1. CASE Locally(Cleared(list)) /\ UNCHANGED current
    BY <1>3, <2>1
  <2>2. CASE home' = TRUE /\ requests' = Sent({PinClear})
             /\ UNCHANGED <<pins, running, started, current>>
    <3>1. {PinClear} \in SUBSET Request
      BY <1>2
    <3>2. IsABag(requests') /\ BagToSet(requests') \subseteq Request
      BY <1>1, <2>2, <3>1 DEF Sent
    <3> QED
      BY <2>2, <3>2 DEF Counted
  <2> QED
    BY <1>q, <2>1, <2>2 DEF Quit
<1>r. CASE Replan
  <2>1. home' \in BOOLEAN
    BY <1>r DEF Replan, Counted
  <2> QED
    BY <1>5, <1>r, <2>1 DEF Replan
<1>o. CASE Open
  <2>1. CASE StartPlan
    BY <1>5, <1>o, <2>1 DEF Open
  <2>2. CASE UNCHANGED <<running, started>>
    BY <1>o, <2>2 DEF Open, Counted
  <2> QED
    BY <1>o, <2>1, <2>2 DEF Open
<1> QED
  BY <1>w, <1>e, <1>u, <1>t, <1>c, <1>p, <1>n, <1>l, <1>q, <1>r, <1>o DEF User

\* A message takes itself off, a result asks to unpin what has gone.
LEMMA MessagesCount == Followed /\ Counted /\ [Next]_vars /\ ~User => Counted'
<1> SUFFICES ASSUME Sound(list), Counted, [Next]_vars, ~User PROVE Counted'
  BY DEF Followed
<1>0. list.pinnedOnly \in BOOLEAN
  BY DEF Sound, Shaped
<1>1. /\ \A S \in SUBSET Request : /\ IsABag(requests (+) SetToBag(S))
                                   /\ BagToSet(requests (+) SetToBag(S)) \subseteq Request
      /\ \A m \in BagToSet(requests), S \in SUBSET Request :
           LET left == requests (-) SetToBag({m})
           IN  /\ IsABag(left) /\ BagToSet(left) \subseteq Request
               /\ IsABag(left (+) SetToBag(S))
               /\ BagToSet(left (+) SetToBag(S)) \subseteq Request
  BY BagsOfRequests DEF Counted
<1>2. {} \in SUBSET Request /\ {PinClear} \in SUBSET Request
  BY DEF Request, PinClear
<1>3. ASSUME running > 0, running' = running - 1, started' = started
      PROVE  running' \in Nat /\ running' <= started'
  <2>1. MaxPlans \in Nat
    BY ChangeListAssumption
  <2> QED
    BY <1>3, <2>1 DEF Counted
<1>c. CASE PlanCompletes
  <2>1. PICK found \in Plans :
          requests' = LET gone == StalePins(pins, found)
                      IN  IF gone = {} THEN requests ELSE Sent({PinToggle(gone)})
    BY <1>c DEF PlanCompletes
  <2>2. StalePins(pins, found) \subseteq Addrs
    BY DEF StalePins, Counted
  <2>3. {PinToggle(StalePins(pins, found))} \in SUBSET Request
    BY <2>2 DEF Request, PinToggle
  <2>4. IsABag(requests') /\ BagToSet(requests') \subseteq Request
    <3>1. CASE requests' = requests
      BY <3>1 DEF Counted
    <3>2. CASE requests' = requests (+) SetToBag({PinToggle(StalePins(pins, found))})
      BY <1>1, <2>3, <3>2
    <3> QED
      BY <2>1, <3>1, <3>2 DEF Sent
  <2>5. current' \in BOOLEAN
    BY <1>c DEF PlanCompletes
  <2>6. running > 0 /\ running' = running - 1 /\ UNCHANGED <<home, pins, started>>
    BY <1>c DEF PlanCompletes
  <2> QED
    BY <1>3, <2>4, <2>5, <2>6 DEF Counted
<1>f. CASE PlanFails
  <2>1. running > 0 /\ running' = running - 1 /\ UNCHANGED <<home, pins, requests, started, current>>
    BY <1>f DEF PlanFails
  <2> QED
    BY <1>3, <2>1 DEF Counted
<1>m. CASE \E m \in BagToSet(requests) : Receive(m)
  <2>1. PICK m \in BagToSet(requests) : Refuse(m) \/ TogglePins(m) \/ ClearPins(m) \/ GoHome(m)
    BY <1>m DEF Receive
  <2>2. m \in Request
    BY DEF Counted
  <2>3. ASSUME Received(m)
        PROVE  IsABag(requests') /\ BagToSet(requests') \subseteq Request
    <3>1. requests' = requests (-) SetToBag({m})
      BY <2>3 DEF Received
    <3> QED
      BY <1>1, <1>2, <3>1
  <2>4. CASE Refuse(m)
    BY <2>3, <2>4 DEF Refuse, Counted
  <2>5. ASSUME NEW qs \in SUBSET Addrs, ReplacePins(qs), Received(m)
        PROVE  Counted'
    BY <1>0, <2>3, <2>5 DEF ReplacePins, Counted
  <2>6. CASE TogglePins(m)
    <3>1. m.addrs \subseteq Addrs
      BY <2>2, <2>6 DEF TogglePins, Request
    <3>2. Toggled(pins, m.addrs) \in SUBSET Addrs
      BY <3>1 DEF Toggled, Counted
    <3> QED
      BY <2>5, <2>6, <3>2 DEF TogglePins
  <2>7. CASE ClearPins(m)
    <3>1. CASE ReplacePins({}) /\ Received(m)
      BY <2>5, <3>1
    <3>2. CASE UNCHANGED <<list, home, pins, running, started, current>> /\ Received(m)
      BY <2>3, <3>2 DEF Counted
    <3> QED
      BY <2>7, <3>1, <3>2 DEF ClearPins
  <2>8. CASE GoHome(m)
    <3> DEFINE S == IF home THEN {} ELSE {PinClear}
    <3>1. S \in SUBSET Request
      BY <1>2
    <3>2. requests' = (requests (-) SetToBag({m})) (+) SetToBag(S)
      BY <2>8 DEF GoHome
    <3> HIDE DEF S
    <3>3. IsABag(requests') /\ BagToSet(requests') \subseteq Request
      BY <1>1, <3>1, <3>2
    <3> QED
      BY <2>8, <3>3 DEF GoHome, Counted
  <2> QED
    BY <2>1, <2>4, <2>6, <2>7, <2>8
<1>h. CASE Hear
  <2>1. current' \in BOOLEAN /\ UNCHANGED <<home, pins, running, requests, started>>
    BY <1>h DEF Hear, Counted
  <2> QED
    BY <2>1 DEF Counted
<1>w. CASE SwitchContext
  BY <1>w DEF SwitchContext, Counted
<1>u. CASE UNCHANGED vars
  BY <1>u DEF vars, Counted
<1> QED
  BY <1>c, <1>f, <1>m, <1>h, <1>w, <1>u DEF Next

-----------------------------------------------------------------------------
(* The theorems *)

\* Nothing is planned, listed or shown at first.
LEMMA FollowsAtFirst == Init => Followed
<1> SUFFICES ASSUME Init PROVE Sound(list) /\ Follows(list, pins)
  BY DEF Followed
<1>1. list = NewList /\ pins = {}
  BY DEF Init
<1>2. <<"list">> \in Seq(Frames) \ {<<>>} /\ Standing(<<"list">>) /\ Last(<<"list">>) = "list"
  BY DEF Frames, Standing, Last
<1>3. /\ Shaped(list) /\ list.frames = <<"list">> /\ list.changes = {}
      /\ list.filtered = <<>> /\ list.tree = Empty /\ list.pinnedOnly = FALSE
  BY <1>1, <1>2, BareList DEF NewList, Shaped
<1>4. Listed(list) /\ Detailed(list)
  BY <1>2, <1>3, BareList DEF Listed, Detailed, Top
<1>5. Follows(list, pins)
  BY <1>3, BareList DEF Follows, Source
<1> QED
  BY <1>2, <1>3, <1>4, <1>5 DEF Sound

\* The invariant holds in every state that can be reached.
LEMMA AlwaysFollowed == Spec => []Followed
<1>1. Followed /\ [Next]_vars => Followed'
  BY KeysFollow, MessagesFollow
<1> QED
  BY <1>1, FollowsAtFirst, PTL DEF Spec

\* A detail on the screen, and what space on it pins, is a change of the plan
\* listed, however plans end, are set aside or come late while it is open.
THEOREM DetailsAreListed == Spec => []DetailIsListed
<1>1. Followed => DetailIsListed
  BY DEF Followed, Sound, Detailed, DetailIsListed
<1> QED
  BY <1>1, AlwaysFollowed, PTL

\* The list follows the query, the pinned-only view and the pins, whatever the
\* order in which results, requests about pins and keys come.
THEOREM ListFollows == Spec => []ListIsCurrent
<1>1. Followed => ListIsCurrent
  BY DEF Followed, Follows, ListIsCurrent
<1> QED
  BY <1>1, AlwaysFollowed, PTL

\* Nothing is pinned, started or on its way at first.
LEMMA CountedAtFirst == Init => Counted
<1> SUFFICES ASSUME Init PROVE Counted
  OBVIOUS
<1>1. MaxPlans \in Nat
  BY ChangeListAssumption
<1>2. 0 \in 0 .. MaxPlans
  BY <1>1
<1>3. IsABag(requests) /\ BagToSet(requests) \subseteq Request
  BY DEF Init, EmptyBag, SetToBag, IsABag, BagToSet
<1> QED
  BY <1>2, <1>3 DEF Init, Counted

\* Both invariants hold in every state that can be reached.
LEMMA AlwaysCounted == Spec => [](Followed /\ Counted)
<1>1. Followed /\ Counted /\ [Next]_vars => Followed' /\ Counted'
  BY KeysFollow, MessagesFollow, KeysCount, MessagesCount
<1> QED
  BY <1>1, FollowsAtFirst, CountedAtFirst, PTL DEF Spec

\* Types; the cursor of the tree is always on a row, if there are any, and what is
\* listed are changes of the plan.
THEOREM ListTypes == Spec => []TypeOK
<1>1. Followed /\ Counted => TypeOK
  <2> SUFFICES ASSUME Sound(list), Counted PROVE TypeOK
    BY DEF Followed
  <2>1. list.tree \in TreeState /\ list.tree.cursor \in 1 .. Len(list.tree.rows) \cup {1}
    BY DEF Sound, Shaped, Grown
  <2>2. list \in ListState
    BY <2>1 DEF Sound, Shaped, ListState
  <2>3. ToSet(list.filtered) \subseteq list.changes
    BY DEF Sound, Listed
  <2>4. running \in 0 .. MaxPlans
    <3>1. MaxPlans \in Nat
      BY ChangeListAssumption
    <3> QED
      BY <3>1 DEF Counted
  <2> QED
    BY <2>1, <2>2, <2>3, <2>4 DEF TypeOK, Counted
<1> QED
  BY <1>1, AlwaysCounted, PTL

\* The rows kept with the tree are, without repetition and in order, the modules
\* and the changes under open modules, whatever was opened, closed, sorted or
\* listed: a walk of any tree over any addresses returns them.
THEOREM RowsShown == Spec => []RowsAreExact
<1>1. Followed => RowsAreExact
  <2> SUFFICES ASSUME Sound(list) PROVE RowsAreExact
    BY DEF Followed
  <2>1. Exact(list.tree, list.tree.rows)
    BY DEF Sound, Shaped, Grown
  <2> QED
    BY <2>1 DEF RowsAreExact, Exact, Shown, Rows, Goes
<1> QED
  BY <1>1, AlwaysFollowed, PTL

\* A row pins something: itself, or a resource below it, for a module is only
\* there because of one.
LEMMA RowsPin ==
  ASSUME NEW t, Grown(t), NEW r \in ToSet(t.rows)
  PROVE  PinAddresses(t, r) # {}
<1>1. Planted(t) /\ ToSet(t.rows) = Shown(t)
  BY DEF Grown, Exact, TreeState, Planted
<1>2. r \in Rows(t)
  BY <1>1 DEF Shown
<1>3. CASE IsLeaf(t, r)
  BY <1>3 DEF PinAddresses
<1>4. CASE ~ IsLeaf(t, r)
  <2>1. r \in Paths(t) \ {Root}
    BY <1>2, <1>4 DEF Rows, IsLeaf
  <2>2. t.nested
    BY <1>1, <2>1, PathFacts DEF Planted
  <2>3. PICK a \in ToSet(t.items) : \E n \in 1 .. Len(a) - 1 : r = SubSeq(a, 1, n)
    BY <1>1, <2>1, <2>2, PathFacts
  <2>4. PICK n \in 1 .. Len(a) - 1 : r = SubSeq(a, 1, n)
    BY <2>3
  <2>5. a \in Seq(Nat) /\ Len(a) \in Nat
    BY <1>1, PathFacts
  <2>6. n \in 0 .. Len(a) /\ n <= Len(a)
    BY <2>4, <2>5
  <2>7. Len(r) = n /\ SubSeq(r, 1, n) = SubSeq(a, 1, n)
    BY <2>4, <2>5, <2>6, Parts
  <2>8. IsPrefix(r, a)
    BY <2>6, <2>7 DEF IsPrefix
  <2> QED
    BY <1>4, <2>3, <2>8 DEF PinAddresses
<1> QED
  BY <1>3, <1>4

\* The mark of a row tells what space will do to it: full, all its pins go, else
\* it becomes full, whatever is pinned and whether a module is open or not.
THEOREM MarksTell == Spec => []MarkTellsGesture
<1>1. ASSUME NEW t, NEW r, NEW ps, PinAddresses(t, r) # {}
      PROVE  PinStateOf(t, r, Toggled(ps, PinAddresses(t, r)))
               = IF PinStateOf(t, r, ps) = "full" THEN "none" ELSE "full"
  <2> DEFINE X == PinAddresses(t, r)
  <2>1. CASE X \subseteq ps
    BY <1>1, <2>1 DEF PinStateOf, Toggled
  <2>2. CASE ~(X \subseteq ps)
    BY <1>1, <2>2 DEF PinStateOf, Toggled
  <2> QED
    BY <2>1, <2>2
<1>2. Followed => MarkTellsGesture
  <2> SUFFICES ASSUME Sound(list) PROVE MarkTellsGesture
    BY DEF Followed
  <2>1. Grown(list.tree)
    BY DEF Sound, Shaped
  <2> QED
    BY <1>1, <2>1, RowsPin DEF MarkTellsGesture
<1> QED
  BY <1>2, AlwaysFollowed, PTL
=============================================================================
