----------------------------- MODULE SumTheorems -----------------------------
(***************************************************************************)
(* What the fold of a finite set of weights computes, whatever order it    *)
(* takes the elements in, and what a subsequence holds.  The induction is  *)
(* over the subsets of a finite set: a set of counterexamples has a        *)
(* smallest one.                                                           *)
(***************************************************************************)
EXTENDS Subsequences, FiniteSetsExt, FiniteSetTheorems, TLAPS

\* The weights of the elements of S, added up the way MapThenSumSet does.
SumOf(w, S) == MapThenSumSet(LAMBDA x : w[x], S)

\* A set of natural numbers has a least one.
LEMMA LeastNatural ==
    ASSUME NEW T, T \subseteq Nat, T # {}
    PROVE  \E m \in T : \A k \in T : m <= k
<1>. DEFINE R == {ss \in Nat \X Nat : ss[1] < ss[2]}
<1>1. IsWellFoundedOn(R, Nat)
  BY NatLessThanWellFounded, Zenon DEF OpToRel
<1>2. PICK m \in T : \A y \in T : ~ (<<y, m>> \in R)
  <2>. HIDE DEF R
  <2>. QED  BY <1>1, WFMin
<1>3. ASSUME NEW k \in T PROVE m <= k
  <2>1. k < m => <<k, m>> \in R
    OBVIOUS
  <2>. HIDE DEF R
  <2>. QED  BY <1>2, <2>1
<1>. QED  BY <1>3

\* Min of the community modules returns it.
LEMMA MinIsLeast ==
    ASSUME NEW T, T \subseteq Nat, T # {}
    PROVE  Min(T) \in T /\ \A k \in T : Min(T) <= k
BY LeastNatural DEF Min

\* Among sets of elements of a finite set, one has no other below it.
LEMMA SmallestSubset ==
    ASSUME NEW S, IsFiniteSet(S), NEW T, T \subseteq SUBSET S, T # {}
    PROVE  \E m \in T : \A y \in T : y \subseteq m => y = m
<1>1. IsWellFoundedOn(StrictSubsetOrdering(S), SUBSET S)
  BY FS_StrictSubsetOrderingWellFounded, FS_FiniteSubsetsOfFinite
<1>2. PICK m \in T : \A y \in T : ~ (<<y, m>> \in StrictSubsetOrdering(S))
  BY <1>1, WFMin
<1>. QED  BY <1>2 DEF StrictSubsetOrdering

-----------------------------------------------------------------------------
(* The function that the fold iterates.                                    *)

\* The element a fold takes out of s.
Taken(s) == CHOOSE x \in s : TRUE

\* One step of the fold, given the sums g of smaller sets.
Step(w, g, s) == IF s = {} THEN 0 ELSE w[Taken(s)] + g[s \ {Taken(s)}]

IsIter(w, S, g) == g = [s \in SUBSET S |-> Step(w, g, s)]

Iter(w, S) == CHOOSE g : IsIter(w, S, g)

\* A sum is what the iterated function says of the whole set.
LEMMA SumOfDef ==
    ASSUME NEW w, NEW S
    PROVE  SumOf(w, S) = Iter(w, S)[S]
BY DEF SumOf, MapThenSumSet, MapThenFoldSet, Step, IsIter, Iter, Taken

\* Some function satisfies the equation that defines Iter.
LEMMA IterExists ==
    ASSUME NEW S, IsFiniteSet(S), NEW w, \A x \in S : w[x] \in Nat
    PROVE  \E g : IsIter(w, S, g)
<1>. DEFINE Good(g, n) == \A s \in SUBSET S : Cardinality(s) <= n => g[s] = Step(w, g, s)
            Bad == {n \in Nat : ~ \E g \in [SUBSET S -> Nat] : Good(g, n)}
<1>1. \A s \in SUBSET S :
          IsFiniteSet(s) /\ Cardinality(s) \in Nat /\ Cardinality(s) <= Cardinality(S)
  BY FS_Subset, FS_CardinalityType
<1>2. Bad = {}
  <2>. SUFFICES ASSUME Bad # {} PROVE FALSE
    OBVIOUS
  <2>1. PICK n \in Bad : \A k \in Bad : n <= k
    BY LeastNatural
  <2>2. CASE n = 0
    <3>1. [s \in SUBSET S |-> 0] \in [SUBSET S -> Nat]
      OBVIOUS
    <3>2. Good([s \in SUBSET S |-> 0], 0)
      <4>. SUFFICES ASSUME NEW s \in SUBSET S, Cardinality(s) <= 0
                    PROVE  s = {}
        BY DEF Step
      <4>. QED  BY <1>1, FS_EmptySet
    <3>. QED  BY <3>1, <3>2, <2>2
  <2>3. CASE n # 0
    <3>. n \in Nat /\ n - 1 \in Nat
      BY <2>3
    <3>1. n - 1 \notin Bad
      <4>. HIDE DEF Bad
      <4>. QED  BY <2>1
    <3>2. PICK g \in [SUBSET S -> Nat] : Good(g, n - 1)
      BY <3>1
    <3>. DEFINE h == [s \in SUBSET S |->
                        IF Cardinality(s) <= n - 1 THEN g[s] ELSE Step(w, g, s)]
    <3>3. ASSUME NEW s \in SUBSET S PROVE Step(w, g, s) \in Nat
      <4>1. s # {} => Taken(s) \in s
        BY DEF Taken
      <4>. QED  BY <4>1 DEF Step
    <3>4. h \in [SUBSET S -> Nat]
      BY <3>3
    <3>5. ASSUME NEW s \in SUBSET S, Cardinality(s) <= n
          PROVE  h[s] = Step(w, h, s)
      <4>1. h[s] = Step(w, g, s)
        BY <3>2
      <4>2. CASE s = {}
        BY <4>1, <4>2 DEF Step
      <4>3. CASE s # {}
        <5>. DEFINE t == s \ {Taken(s)}
        <5>1. Taken(s) \in s
          BY <4>3 DEF Taken
        <5>2. t \in SUBSET S /\ Cardinality(t) <= n - 1
          <6>1. IsFiniteSet(s) /\ Cardinality(s) \in Nat
            BY <1>1
          <6>2. Cardinality(t) = Cardinality(s) - 1
            BY <6>1, <5>1, FS_RemoveElement
          <6>. QED  BY <6>1, <6>2, <3>5
        <5>3. h[t] = g[t]
          BY <5>2
        <5>. QED  BY <4>1, <5>3 DEF Step
      <4>. QED  BY <4>2, <4>3
    <3>. QED  BY <3>4, <3>5
  <2>. QED  BY <2>2, <2>3
<1>3. Cardinality(S) \in Nat
  BY <1>1
<1>4. PICK g \in [SUBSET S -> Nat] : Good(g, Cardinality(S))
  BY <1>2, <1>3
<1>5. IsIter(w, S, g)
  BY <1>4, <1>1 DEF IsIter
<1>. QED  BY <1>5

\* Iter satisfies it.
LEMMA IterDef ==
    ASSUME NEW S, IsFiniteSet(S), NEW w, \A x \in S : w[x] \in Nat
    PROVE  Iter(w, S) = [s \in SUBSET S |-> Step(w, Iter(w, S), s)]
<1>1. IsIter(w, S, Iter(w, S))
  BY IterExists DEF Iter
<1>. QED  BY <1>1 DEF IsIter

\* The sums of the subsets of T do not depend on the set T was taken from.
LEMMA IterSame ==
    ASSUME NEW S, IsFiniteSet(S), NEW w, \A x \in S : w[x] \in Nat, NEW T \in SUBSET S
    PROVE  \A s \in SUBSET T : Iter(w, S)[s] = Iter(w, T)[s]
<1>. DEFINE Bad == {s \in SUBSET T : Iter(w, S)[s] # Iter(w, T)[s]}
<1>. SUFFICES ASSUME Bad # {} PROVE FALSE
  OBVIOUS
<1>1. IsFiniteSet(T) /\ Bad \subseteq SUBSET T
  BY FS_Subset
<1>2. PICK s \in Bad : \A y \in Bad : y \subseteq s => y = s
  <2>. HIDE DEF Bad
  <2>. QED  BY <1>1, SmallestSubset
<1>3. Iter(w, S)[s] = Step(w, Iter(w, S), s) /\ Iter(w, T)[s] = Step(w, Iter(w, T), s)
  <2>1. Iter(w, S) = [y \in SUBSET S |-> Step(w, Iter(w, S), y)]
    BY IterDef
  <2>2. Iter(w, T) = [y \in SUBSET T |-> Step(w, Iter(w, T), y)]
    BY <1>1, IterDef
  <2>. QED  BY <2>1, <2>2
<1>4. CASE s = {}
  BY <1>3, <1>4 DEF Step
<1>5. CASE s # {}
  <2>1. Taken(s) \in s
    BY <1>5 DEF Taken
  <2>2. s \ {Taken(s)} \notin Bad
    BY <1>2, <2>1
  <2>. QED  BY <1>3, <2>2 DEF Step
<1>. QED  BY <1>4, <1>5

-----------------------------------------------------------------------------
(* The facts about sums that the other proofs cite.                        *)

\* The empty set has sum 0, and any other set that of one element more.
LEMMA SumStep ==
    ASSUME NEW S, IsFiniteSet(S), NEW w, \A x \in S : w[x] \in Nat
    PROVE  /\ SumOf(w, {}) = 0
           /\ S # {} => \E c \in S : SumOf(w, S) = w[c] + SumOf(w, S \ {c})
<1>1. Iter(w, {})[{}] = 0
  <2>1. Iter(w, {}) = [s \in SUBSET {} |-> Step(w, Iter(w, {}), s)]
    BY FS_EmptySet, IterDef
  <2>. QED  BY <2>1 DEF Step
<1>2. ASSUME S # {}
      PROVE  Taken(S) \in S /\ SumOf(w, S) = w[Taken(S)] + SumOf(w, S \ {Taken(S)})
  <2>. DEFINE T == S \ {Taken(S)}
  <2>1. Taken(S) \in S
    BY <1>2 DEF Taken
  <2>2. Iter(w, S) = [s \in SUBSET S |-> Step(w, Iter(w, S), s)]
    BY IterDef
  <2>3. Iter(w, S)[S] = Step(w, Iter(w, S), S)
    BY <2>2
  <2>4. Iter(w, S)[T] = Iter(w, T)[T]
    <3>1. \A s \in SUBSET T : Iter(w, S)[s] = Iter(w, T)[s]
      BY IterSame
    <3>. QED  BY <3>1
  <2>. QED  BY <2>1, <2>3, <2>4, <1>2, SumOfDef DEF Step
<1>. QED  BY <1>1, <1>2, SumOfDef

\* A sum is a natural number.
LEMMA SumType ==
    ASSUME NEW S, IsFiniteSet(S), NEW w, \A x \in S : w[x] \in Nat
    PROVE  SumOf(w, S) \in Nat
<1>. DEFINE Bad == {s \in SUBSET S : SumOf(w, s) \notin Nat}
<1>. SUFFICES ASSUME Bad # {} PROVE FALSE
  OBVIOUS
<1>1. Bad \subseteq SUBSET S
  OBVIOUS
<1>2. PICK s \in Bad : \A y \in Bad : y \subseteq s => y = s
  <2>. HIDE DEF Bad
  <2>. QED  BY <1>1, SmallestSubset
<1>3. IsFiniteSet(s) /\ \A x \in s : w[x] \in Nat
  BY FS_Subset
<1>4. SumOf(w, {}) = 0
  BY SumStep
<1>5. s # {}
  BY <1>4
<1>6. PICK c \in s : SumOf(w, s) = w[c] + SumOf(w, s \ {c})
  <2>. HIDE DEF Bad
  <2>. QED  BY <1>3, <1>5, SumStep
<1>7. SumOf(w, s \ {c}) \in Nat
  BY <1>2
<1>. QED  BY <1>3, <1>6, <1>7

\* Any element of a set can be counted on its own.
LEMMA SumRemove ==
    ASSUME NEW S, IsFiniteSet(S), NEW w, \A x \in S : w[x] \in Nat, NEW h \in S
    PROVE  SumOf(w, S) = w[h] + SumOf(w, S \ {h})
<1>. DEFINE Bad == {s \in SUBSET S : \E x \in s : SumOf(w, s) # w[x] + SumOf(w, s \ {x})}
<1>. SUFFICES ASSUME Bad # {} PROVE FALSE
  OBVIOUS
<1>1. Bad \subseteq SUBSET S
  OBVIOUS
<1>2. PICK s \in Bad : \A y \in Bad : y \subseteq s => y = s
  <2>. HIDE DEF Bad
  <2>. QED  BY <1>1, SmallestSubset
<1>3. PICK x \in s : SumOf(w, s) # w[x] + SumOf(w, s \ {x})
  OBVIOUS
<1>4. /\ IsFiniteSet(s) /\ \A y \in s : w[y] \in Nat
      /\ \A y \in s : IsFiniteSet(s \ {y})
  BY FS_Subset, FS_RemoveElement
<1>5. PICK c \in s : SumOf(w, s) = w[c] + SumOf(w, s \ {c})
  BY <1>4, SumStep
<1>. DEFINE r == (s \ {c}) \ {x}
<1>6. x # c /\ r = (s \ {x}) \ {c}
  BY <1>3, <1>5
<1>7. s \ {c} \notin Bad /\ s \ {x} \notin Bad
  BY <1>2
<1>8. SumOf(w, s \ {c}) = w[x] + SumOf(w, r)
  BY <1>6, <1>7
<1>9. SumOf(w, s \ {x}) = w[c] + SumOf(w, r)
  BY <1>6, <1>7
<1>10. SumOf(w, r) \in Nat /\ w[x] \in Nat /\ w[c] \in Nat
  <2>1. IsFiniteSet(r) /\ \A y \in r : w[y] \in Nat
    BY <1>4, FS_RemoveElement
  <2>. QED  BY <2>1, <1>4, SumType
<1>. HIDE DEF Bad, r
<1>11. SumOf(w, s) = w[c] + (w[x] + SumOf(w, r))
  BY <1>5, <1>8
<1>12. w[x] + SumOf(w, s \ {x}) = w[x] + (w[c] + SumOf(w, r))
  BY <1>9
<1>. QED  BY <1>3, <1>10, <1>11, <1>12

\* A new element adds its weight.
LEMMA SumAdd ==
    ASSUME NEW S, IsFiniteSet(S), NEW h, h \notin S,
           NEW w, \A x \in S \cup {h} : w[x] \in Nat
    PROVE  SumOf(w, S \cup {h}) = SumOf(w, S) + w[h]
<1>1. IsFiniteSet(S \cup {h}) /\ (S \cup {h}) \ {h} = S
  BY FS_AddElement
<1>2. SumOf(w, S \cup {h}) = w[h] + SumOf(w, (S \cup {h}) \ {h})
  BY <1>1, SumRemove
<1>3. SumOf(w, S) \in Nat /\ w[h] \in Nat
  BY SumType
<1>4. SumOf(w, S \cup {h}) = w[h] + SumOf(w, S)
  BY <1>1, <1>2
<1>. QED  BY <1>3, <1>4

-----------------------------------------------------------------------------
(* Subsequences. *)

\* How many elements of I are no larger than i; the k-th element of I.
Rank(I, i) == Cardinality({j \in I : j <= i})
PlaceAt(I, k) == CHOOSE i \in I : Rank(I, i) = k

\* Ranks are counts of the elements of a finite set.
LEMMA RankType ==
    ASSUME NEW n \in Nat, NEW I \in SUBSET (1..n)
    PROVE  /\ IsFiniteSet(I) /\ Cardinality(I) \in 0..n
           /\ \A i \in I : Rank(I, i) \in 1..Cardinality(I)
           /\ \A i, j \in I : i < j => Rank(I, i) < Rank(I, j)
<1>1. IsFiniteSet(1..n) /\ Cardinality(1..n) = n
  BY FS_Interval
<1>2. IsFiniteSet(I) /\ Cardinality(I) \in 0..n
  <2>1. IsFiniteSet(I) /\ Cardinality(I) <= n
    BY <1>1, FS_Subset
  <2>. QED  BY <2>1, FS_CardinalityType
<1>3. ASSUME NEW i \in I PROVE Rank(I, i) \in 1..Cardinality(I)
  <2>. DEFINE L == {j \in I : j <= i}
  <2>1. IsFiniteSet(L) /\ Cardinality(L) <= Cardinality(I)
    BY <1>2, FS_Subset
  <2>2. L # {}
    OBVIOUS
  <2>3. Cardinality(L) \in Nat /\ Cardinality(L) # 0
    BY <2>1, <2>2, FS_EmptySet, FS_CardinalityType
  <2>. QED  BY <2>1, <2>3, <1>2 DEF Rank
<1>4. ASSUME NEW i \in I, NEW j \in I, i < j PROVE Rank(I, i) < Rank(I, j)
  <2>. DEFINE L == {k \in I : k <= i}
              M == {k \in I : k <= j}
  <2>1. IsFiniteSet(M) /\ IsFiniteSet(L) /\ L \subseteq M \ {j} /\ j \in M
    <3>1. L \subseteq M \ {j} /\ j \in M /\ M \subseteq I /\ L \subseteq I
      <4>1. I \subseteq Nat /\ i \in Nat /\ j \in Nat
        OBVIOUS
      <4>2. \A k \in I : k <= i => k <= j /\ k # j
        BY <1>4, <4>1
      <4>3. j \in M
        BY <4>1
      <4>. QED  BY <4>2, <4>3
    <3>. HIDE DEF L, M
    <3>. QED  BY <3>1, <1>2, FS_Subset
  <2>2. Cardinality(M \ {j}) = Cardinality(M) - 1 /\ IsFiniteSet(M \ {j})
    BY <2>1, FS_RemoveElement
  <2>3. Cardinality(L) <= Cardinality(M \ {j})
    BY <2>1, <2>2, FS_Subset
  <2>4. Cardinality(L) \in Nat /\ Cardinality(M) \in Nat
    BY <2>1, FS_CardinalityType
  <2>. QED  BY <2>2, <2>3, <2>4 DEF Rank
<1>. QED  BY <1>2, <1>3, <1>4

\* Every rank up to the last is that of an element.
LEMMA RankOnto ==
    ASSUME NEW n \in Nat, NEW I \in SUBSET (1..n), NEW k \in 1..Cardinality(I)
    PROVE  \E i \in I : Rank(I, i) = k
<1>. DEFINE Bad == {m \in 1..Cardinality(I) : ~ \E i \in I : Rank(I, i) = m}
<1>. SUFFICES ASSUME Bad # {} PROVE FALSE
  OBVIOUS
<1>1. IsFiniteSet(I) /\ Cardinality(I) \in Nat
  BY RankType
<1>2. PICK m \in Bad : \A j \in Bad : m <= j
  <2>1. Bad \subseteq Nat
    BY <1>1
  <2>. HIDE DEF Bad
  <2>. QED  BY <2>1, LeastNatural
\* The elements that come before rank m.
<1>. DEFINE L == {j \in I : Rank(I, j) < m}
            H == I \ L
<1>3. IsFiniteSet(L) /\ Cardinality(L) = m - 1
  <2>1. CASE m = 1
    <3>1. \A j \in I : Rank(I, j) \in 1..Cardinality(I)
      BY RankType
    <3>2. L = {}
      <4>1. \A j \in I : ~(Rank(I, j) < 1)
        BY <3>1, <1>1
      <4>. QED  BY <2>1, <4>1
    <3>. QED  BY <3>2, <2>1, FS_EmptySet
  <2>2. CASE m # 1
    <3>1. m \in 1..Cardinality(I) /\ m - 1 \in 1..Cardinality(I)
      BY <1>1, <2>2
    <3>2. m - 1 \notin Bad
      <4>. HIDE DEF Bad
      <4>. QED  BY <1>1, <1>2, <3>1
    <3>3. PICK i \in I : Rank(I, i) = m - 1
      BY <3>1, <3>2
    <3>4. \A j \in I : Rank(I, j) \in Nat /\ i \in Nat /\ j \in Nat
      BY RankType
    <3>5. \A j \in I : j <= i <=> Rank(I, j) < m
      <4>. SUFFICES ASSUME NEW j \in I PROVE j <= i <=> Rank(I, j) < m
        OBVIOUS
      <4>1. j < i \/ j = i \/ i < j
        BY <3>4
      <4>2. j < i => Rank(I, j) < Rank(I, i)
        BY RankType
      <4>3. i < j => Rank(I, i) < Rank(I, j)
        BY RankType
      <4>. QED  BY <4>1, <4>2, <4>3, <3>1, <3>3, <3>4
    <3>6. L = {j \in I : j <= i}
      BY <3>5
    <3>. QED  BY <3>3, <3>6, <1>1, FS_Subset DEF Rank
  <2>. QED  BY <2>1, <2>2
<1>4. H # {} /\ H \subseteq Nat
  <2>1. I # L
    <3>. HIDE DEF L
    <3>. QED  BY <1>1, <1>2, <1>3
  <2>2. L \subseteq I /\ I \subseteq Nat
    OBVIOUS
  <2>. HIDE DEF L
  <2>. QED  BY <2>1, <2>2
<1>5. PICK i \in H : \A j \in H : i <= j
  <2>. HIDE DEF H
  <2>. QED  BY <1>4, LeastNatural
<1>6. {j \in I : j <= i} = L \cup {i}
  <2>1. ASSUME NEW j \in L PROVE j <= i
    <3>1. Rank(I, j) < m /\ ~(Rank(I, i) < m) /\ i \in I /\ j \in I
      OBVIOUS
    <3>2. i < j => Rank(I, i) < Rank(I, j)
      BY <3>1, RankType
    <3>3. Rank(I, i) \in Nat /\ Rank(I, j) \in Nat /\ m \in Nat
      BY <3>1, RankType, <1>1
    <3>. QED  BY <3>1, <3>2, <3>3
  <2>2. ASSUME NEW j \in H, j <= i PROVE j = i
    BY <1>5, <2>2, <1>4
  <2>3. L \subseteq I /\ I \subseteq Nat
    OBVIOUS
  <2>. HIDE DEF L
  <2>. QED  BY <2>1, <2>2, <2>3, <1>5
<1>7. Rank(I, i) = m
  <2>1. i \notin L
    BY <1>5
  <2>2. Cardinality(L \cup {i}) = Cardinality(L) + 1
    BY <2>1, <1>3, FS_AddElement
  <2>3. m \in Nat
    BY <1>1
  <2>4. Rank(I, i) = Cardinality(L \cup {i})
    BY <1>6, Zenon DEF Rank
  <2>. HIDE DEF L, H
  <2>. QED  BY <2>2, <2>3, <2>4, <1>3
<1>. QED  BY <1>7, <1>5

\* The places of a subsequence are those asked for, each once.
LEMMA PlaceFacts ==
    ASSUME NEW n \in Nat, NEW I \in SUBSET (1..n)
    PROVE  /\ \A k \in 1..Cardinality(I) : PlaceAt(I, k) \in I /\ Rank(I, PlaceAt(I, k)) = k
           /\ \A i \in I : PlaceAt(I, Rank(I, i)) = i
<1>1. ASSUME NEW k \in 1..Cardinality(I)
      PROVE  PlaceAt(I, k) \in I /\ Rank(I, PlaceAt(I, k)) = k
  BY RankOnto DEF PlaceAt
<1>2. ASSUME NEW i \in I PROVE PlaceAt(I, Rank(I, i)) = i
  <2>1. Rank(I, i) \in 1..Cardinality(I)
    BY RankType
  <2>. DEFINE j == PlaceAt(I, Rank(I, i))
  <2>2. j \in I /\ Rank(I, j) = Rank(I, i)
    BY <2>1, <1>1
  <2>3. (i < j => Rank(I, i) < Rank(I, j)) /\ (j < i => Rank(I, j) < Rank(I, i))
    BY <2>2, RankType
  <2>4. i \in Nat /\ j \in Nat /\ Rank(I, i) \in Nat
    <3>1. Cardinality(I) \in Nat
      BY RankType
    <3>. HIDE DEF j
    <3>. QED  BY <2>1, <2>2, <3>1
  <2>5. j = i
    <3>. HIDE DEF j
    <3>. QED  BY <2>2, <2>3, <2>4
  <2>. QED  BY <2>5
<1>. QED  BY <1>1, <1>2

\* What a subsequence holds.
LEMMA SubsequenceFacts ==
    ASSUME NEW S, NEW s \in Seq(S), NEW I \in SUBSET (DOMAIN s)
    PROVE  LET t == SubsequenceAt(s, I) IN
           /\ IsFiniteSet(I) /\ Cardinality(I) \in Nat /\ Cardinality(I) <= Len(s)
           /\ t \in Seq(S) /\ Len(t) = Cardinality(I) /\ DOMAIN t = 1..Cardinality(I)
           /\ \A k \in DOMAIN t : PlaceAt(I, k) \in I /\ t[k] = s[PlaceAt(I, k)]
           /\ \A i \in I : Rank(I, i) \in DOMAIN t /\ t[Rank(I, i)] = s[i]
           /\ \A j, k \in DOMAIN t : PlaceAt(I, j) = PlaceAt(I, k) => j = k
<1>. DEFINE t == SubsequenceAt(s, I)
            c == Cardinality(I)
<1>1. Len(s) \in Nat /\ DOMAIN s = 1..Len(s) /\ I \in SUBSET (1..Len(s))
  OBVIOUS
<1>2. IsFiniteSet(I) /\ c \in Nat /\ c <= Len(s)
  BY <1>1, RankType
<1>3. t = [k \in 1..c |-> s[PlaceAt(I, k)]]
  BY DEF SubsequenceAt, PlaceAt, Rank
<1>4. \A k \in 1..c : PlaceAt(I, k) \in I /\ Rank(I, PlaceAt(I, k)) = k
  BY <1>1, PlaceFacts
<1>5. \A i \in I : Rank(I, i) \in 1..c /\ PlaceAt(I, Rank(I, i)) = i
  BY <1>1, RankType, PlaceFacts
<1>6. \A i \in I : s[i] \in S
  OBVIOUS
<1>. HIDE DEF t, c
<1>7. t \in Seq(S) /\ Len(t) = c /\ DOMAIN t = 1..c
  BY <1>2, <1>3, <1>4, <1>6
<1>8. \A k \in DOMAIN t : PlaceAt(I, k) \in I /\ t[k] = s[PlaceAt(I, k)]
  BY <1>3, <1>4, <1>7
<1>9. \A i \in I : Rank(I, i) \in DOMAIN t /\ t[Rank(I, i)] = s[i]
  BY <1>3, <1>5, <1>7
<1>10. \A j, k \in DOMAIN t : PlaceAt(I, j) = PlaceAt(I, k) => j = k
  BY <1>4, <1>7
<1>. QED  BY <1>2, <1>7, <1>8, <1>9, <1>10 DEF t, c
=============================================================================
