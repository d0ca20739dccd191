--------------------------- MODULE RedisDBProofs ----------------------------
(***************************************************************************)
(* Proofs about RedisDB.  The striped locks: what a command reads under    *)
(* its lock is still there when it writes, and threads wait in a circle or *)
(* unlock too much only for the reasons that LocksSafe names.  The         *)
(* collections: each command leaves the records of its hash, set, list or  *)
(* sorted set whole, whatever the threads do in between.                   *)
(***************************************************************************)
EXTENDS RedisDB, WellFoundedInduction, FiniteSetTheorems, SequenceTheorems, TLAPS

-----------------------------------------------------------------------------
(* Vectors of keys.                                                        *)

LessThan == {ss \in Nat \X Nat : ss[1] < ss[2]}

LEMMA LeastOf ==
    ASSUME NEW S \in SUBSET Nat, S # {}
    PROVE  \E n \in S : \A m \in S : n <= m
<1>1. IsWellFoundedOn(LessThan, Nat)
  BY NatLessThanWellFounded, Zenon DEF OpToRel, LessThan
<1>2. PICK n \in S : \A m \in S : ~(<<m, n>> \in LessThan)
  BY <1>1, WFMin
<1>3. ASSUME NEW m \in S PROVE n <= m
  <2>1. <<m, n>> \in Nat \X Nat /\ ~(<<m, n>> \in LessThan)
    BY <1>2
  <2> QED
    BY <2>1 DEF LessThan
<1> QED
  BY <1>3

\* The places where a vector has another key than before.
Firsts(ks) == {i \in DOMAIN ks : i = 1 \/ ks[i] # ks[i - 1]}
Rank(K, i) == Cardinality({x \in K : x <= i})

LEMMA PlacesFinite ==
    ASSUME NEW n \in Nat, NEW K \in SUBSET (1 .. n)
    PROVE  /\ IsFiniteSet(K) /\ Cardinality(K) \in Nat /\ \A x \in K : x \in 1 .. n /\ x \in Nat
           /\ \A T \in SUBSET K : IsFiniteSet(T) /\ Cardinality(T) \in Nat
<1>1. IsFiniteSet(1 .. n)
  BY FS_Interval
<1>2. IsFiniteSet(K)
  BY <1>1, FS_Subset
<1>3. ASSUME NEW T \in SUBSET K PROVE IsFiniteSet(T) /\ Cardinality(T) \in Nat
  BY <1>2, FS_Subset, FS_CardinalityType
<1> QED
  BY <1>2, <1>3

LEMMA RankIs ==
    ASSUME NEW n \in Nat, NEW K \in SUBSET (1 .. n), NEW i
    PROVE  /\ Rank(K, i) \in Nat
           /\ Rank(K, n) = Cardinality(K)
<1>1. {x \in K : x <= i} \in SUBSET K
  OBVIOUS
<1>2. \A x \in K : x <= n
  BY PlacesFinite
<1>3. {x \in K : x <= n} = K
  BY <1>2
<1> QED
  BY <1>1, <1>3, PlacesFinite DEF Rank

LEMMA RankFirst ==
    ASSUME NEW n \in Nat, NEW K \in SUBSET (1 .. n)
    PROVE  Rank(K, 1) = IF 1 \in K THEN 1 ELSE 0
<1>1. \A x \in K : x <= 1 <=> x = 1
  BY PlacesFinite
<1>2. CASE 1 \in K
  <2>1. {x \in K : x <= 1} = {} \cup {1}
    BY <1>1, <1>2
  <2>2. Cardinality({} \cup {1}) = 1
    BY FS_EmptySet, FS_AddElement
  <2> QED
    BY <1>2, <2>1, <2>2 DEF Rank
<1>3. CASE 1 \notin K
  <2>1. {x \in K : x <= 1} = {}
    BY <1>1, <1>3
  <2> QED
    BY <1>3, <2>1, FS_EmptySet DEF Rank
<1> QED
  BY <1>2, <1>3

LEMMA RankNext ==
    ASSUME NEW n \in Nat, NEW K \in SUBSET (1 .. n), NEW i \in 1 .. n, i # 1
    PROVE  /\ i - 1 \in 1 .. n /\ Rank(K, i - 1) \in Nat
           /\ i \in K => Rank(K, i) = Rank(K, i - 1) + 1
           /\ i \notin K => Rank(K, i) = Rank(K, i - 1)
<1>1. i - 1 \in 1 .. n
  OBVIOUS
<1>2. PICK S : S = {x \in K : x <= i - 1}
  OBVIOUS
<1>3. \A x \in K : x <= i <=> x <= i - 1 \/ x = i
  BY <1>1, PlacesFinite
<1>4. {x \in K : x <= i} = IF i \in K THEN S \cup {i} ELSE S
  BY <1>2, <1>3
<1>5. i \notin S
  BY <1>2
<1>6. S \in SUBSET K
  BY <1>2
<1>7. IsFiniteSet(S) /\ Cardinality(S) \in Nat
  BY <1>6, PlacesFinite
<1>8. Cardinality(S \cup {i}) = Cardinality(S) + 1
  BY <1>5, <1>7, FS_AddElement
<1>9. Rank(K, i - 1) = Cardinality(S)
  BY <1>2 DEF Rank
<1> QED
  BY <1>1, <1>4, <1>7, <1>8, <1>9 DEF Rank

LEMMA RankGrows ==
    ASSUME NEW n \in Nat, NEW K \in SUBSET (1 .. n), NEW i \in 1 .. n, NEW j \in 1 .. n, i <= j
    PROVE  Rank(K, i) <= Rank(K, j)
<1>1. PICK T : T = {x \in K : x <= j}
  OBVIOUS
<1>2. \A x \in K : x <= i => x <= j
  BY PlacesFinite
<1>3. T \in SUBSET K
  BY <1>1
<1>4. {x \in K : x <= i} \in SUBSET T
  BY <1>1, <1>2
<1>5. IsFiniteSet(T)
  BY <1>3, PlacesFinite
<1>6. Cardinality({x \in K : x <= i}) <= Cardinality(T)
  BY <1>4, <1>5, FS_Subset
<1> QED
  BY <1>1, <1>6 DEF Rank

\* Every rank is that of a place.
LEMMA RankTaken ==
    ASSUME NEW n \in Nat, NEW K \in SUBSET (1 .. n), NEW j \in 1 .. Cardinality(K)
    PROVE  \E i \in K : Rank(K, i) = j
<1>0. n \in 1 .. n
  <2>1. n # 0
    <3>1. SUFFICES ASSUME n = 0 PROVE FALSE
      OBVIOUS
    <3>2. K = {}
      BY <3>1
    <3> QED
      BY <3>2, FS_EmptySet
  <2> QED
    BY <2>1
<1>1. Cardinality(K) \in Nat /\ Rank(K, n) = Cardinality(K)
  BY PlacesFinite, RankIs
<1>2. PICK S : S = {i \in 1 .. n : Rank(K, i) >= j}
  OBVIOUS
<1>3. n \in S /\ S \in SUBSET Nat
  BY <1>0, <1>1, <1>2
<1>4. PICK i \in S : \A m \in S : i <= m
  BY <1>3, LeastOf
<1>5. i \in 1 .. n /\ Rank(K, i) >= j
  BY <1>2, <1>4
<1>6. CASE i = 1
  <2>1. Rank(K, i) = IF 1 \in K THEN 1 ELSE 0
    BY <1>5, <1>6, RankFirst
  <2> QED
    BY <1>1, <1>5, <1>6, <2>1
<1>7. CASE i # 1
  <2>1. /\ i - 1 \in 1 .. n /\ Rank(K, i - 1) \in Nat
        /\ i \in K => Rank(K, i) = Rank(K, i - 1) + 1
        /\ i \notin K => Rank(K, i) = Rank(K, i - 1)
    BY <1>5, <1>7, RankNext
  <2>2. i - 1 \notin S
    BY <1>4, <1>5
  <2>3. ~(Rank(K, i - 1) >= j)
    BY <1>2, <2>1, <2>2
  <2> QED
    BY <1>1, <1>5, <2>1, <2>3
<1> QED
  BY <1>6, <1>7

LEMMA AdjacentIs ==
    ASSUME NEW n \in Nat \ {0}, NEW ks, DOMAIN ks = 1 .. n
    PROVE  /\ Firsts(ks) \in SUBSET (1 .. n) /\ 1 \in Firsts(ks)
           /\ Cardinality(Firsts(ks)) \in Nat \ {0}
           /\ DOMAIN Adjacent(ks) = 1 .. Cardinality(Firsts(ks))
           /\ \A j \in 1 .. Cardinality(Firsts(ks)) :
                 \E i \in Firsts(ks) : Rank(Firsts(ks), i) = j /\ Adjacent(ks)[j] = ks[i]
<1>1. Firsts(ks) \in SUBSET (1 .. n) /\ 1 \in Firsts(ks)
  BY DEF Firsts
<1>2. Cardinality(Firsts(ks)) \in Nat /\ IsFiniteSet(Firsts(ks))
  BY <1>1, PlacesFinite
<1>3. Cardinality(Firsts(ks)) # 0
  BY <1>1, <1>2, FS_EmptySet
<1>4. Adjacent(ks) = [j \in 1 .. Cardinality(Firsts(ks)) |-> ks[CHOOSE i \in Firsts(ks) : Rank(Firsts(ks), i) = j]]
  BY DEF Adjacent, Firsts, Rank
<1>5. ASSUME NEW j \in 1 .. Cardinality(Firsts(ks))
      PROVE  \E i \in Firsts(ks) : Rank(Firsts(ks), i) = j /\ Adjacent(ks)[j] = ks[i]
  <2>1. \E i \in Firsts(ks) : Rank(Firsts(ks), i) = j
    BY <1>1, RankTaken
  <2>2. PICK i : i = CHOOSE x \in Firsts(ks) : Rank(Firsts(ks), x) = j
    OBVIOUS
  <2>3. i \in Firsts(ks) /\ Rank(Firsts(ks), i) = j
    BY <2>1, <2>2
  <2>4. Adjacent(ks)[j] = ks[i]
    BY <1>4, <2>2
  <2> QED
    BY <2>3, <2>4
<1> QED
  BY <1>1, <1>2, <1>3, <1>4, <1>5

\* Of a vector in order each key is left once, in order.
LEMMA AdjacentAscends ==
    ASSUME NEW n \in Nat \ {0}, NEW ks \in [1 .. n -> Nat], \A i, j \in 1 .. n : i <= j => ks[i] <= ks[j],
           NEW x \in 1 .. Cardinality(Firsts(ks)), NEW y \in 1 .. Cardinality(Firsts(ks)), x < y
    PROVE  Adjacent(ks)[x] < Adjacent(ks)[y]
<1>1. PICK i \in Firsts(ks) : Rank(Firsts(ks), i) = x /\ Adjacent(ks)[x] = ks[i]
  BY AdjacentIs
<1>2. PICK j \in Firsts(ks) : Rank(Firsts(ks), j) = y /\ Adjacent(ks)[y] = ks[j]
  BY AdjacentIs
<1>3. Firsts(ks) \in SUBSET (1 .. n) /\ Cardinality(Firsts(ks)) \in Nat
  BY AdjacentIs
<1>4. i \in 1 .. n /\ j \in 1 .. n /\ x \in Nat /\ y \in Nat
  BY <1>3
<1>5. ~(j <= i)
  <2>1. SUFFICES ASSUME j <= i PROVE FALSE
    OBVIOUS
  <2>2. PICK K : K = Firsts(ks)
    OBVIOUS
  <2>3. Rank(K, j) <= Rank(K, i)
    BY <1>3, <1>4, <2>1, <2>2, RankGrows
  <2> QED
    BY <1>1, <1>2, <1>4, <2>2, <2>3
<1>6. j - 1 \in 1 .. n /\ i <= j - 1 /\ j - 1 <= j /\ j # 1
  BY <1>4, <1>5
<1>7. ks[j] # ks[j - 1]
  BY <1>2, <1>6 DEF Firsts
<1>8. ks[i] <= ks[j - 1] /\ ks[j - 1] <= ks[j] /\ ks[i] \in Nat /\ ks[j - 1] \in Nat /\ ks[j] \in Nat
  BY <1>4, <1>6
<1> QED
  BY <1>1, <1>2, <1>7, <1>8

-----------------------------------------------------------------------------
(* std::sort, on the vectors of keys that clients give.                    *)

Ascending(s, D) == \A i, j \in D : i <= j => s[i] <= s[j]
Permuted(s, ks, D) == \E p \in Bijection(D, D) : \A i \in D : s[i] = ks[p[i]]

LEMMA SortedWhere ==
    ASSUME NEW n \in Nat, NEW ks \in [1 .. n -> Nat], NEW s \in [1 .. n -> Range(ks)],
           Ascending(s, 1 .. n), Permuted(s, ks, 1 .. n)
    PROVE  /\ Sorted(ks) \in [1 .. n -> Nat] /\ Ascending(Sorted(ks), 1 .. n) /\ Permuted(Sorted(ks), ks, 1 .. n)
<1>1. DOMAIN ks = 1 .. n
  OBVIOUS
<1>2. Sorted(ks) = CHOOSE x \in [DOMAIN ks -> Range(ks)] : Ascending(x, DOMAIN ks) /\ Permuted(x, ks, DOMAIN ks)
  BY Zenon DEF Sorted, Ascending, Permuted
<1>3. \E x \in [DOMAIN ks -> Range(ks)] : Ascending(x, DOMAIN ks) /\ Permuted(x, ks, DOMAIN ks)
  BY <1>1
<1>4. /\ Sorted(ks) \in [DOMAIN ks -> Range(ks)] /\ Ascending(Sorted(ks), DOMAIN ks)
      /\ Permuted(Sorted(ks), ks, DOMAIN ks)
  BY <1>2, <1>3, Zenon
<1>5. Range(ks) \subseteq Nat
  BY DEF Range
<1> QED
  BY <1>1, <1>4, <1>5

LEMMA IsBijection ==
    ASSUME NEW n \in Nat, NEW p \in [1 .. n -> 1 .. n], \A i, j \in 1 .. n : p[i] = p[j] => i = j,
           \A j \in 1 .. n : \E i \in 1 .. n : p[i] = j
    PROVE  p \in Bijection(1 .. n, 1 .. n)
  BY DEF Bijection, Injection, Surjection, IsInjective

\* A vector of one, two or three keys, the third the first again.
Vectors == {<<k>> : k \in Keys} \cup KeyVectors

LEMMA VectorIs ==
    ASSUME NEW ks \in Vectors
    PROVE  \E k, l \in Keys : ks = <<k>> \/ ks = <<k, l>> \/ ks = <<k, l, k>>
  BY DEF Vectors, KeyVectors

LEMMA SortedOne ==
    ASSUME NEW k \in Nat, NEW ks, ks = <<k>>
    PROVE  ks \in [1 .. 1 -> Nat] /\ Sorted(ks) \in [1 .. 1 -> Nat] /\ Ascending(Sorted(ks), 1 .. 1) /\ Permuted(Sorted(ks), ks, 1 .. 1)
<1>1. ks \in [1 .. 1 -> Nat] /\ ks \in [1 .. 1 -> Range(ks)]
  BY DEF Range
<1>2. PICK p : p = [i \in 1 .. 1 |-> i]
  OBVIOUS
<1>3. p \in Bijection(1 .. 1, 1 .. 1)
  <2>1. p \in [1 .. 1 -> 1 .. 1] /\ \A i \in 1 .. 1 : p[i] = i
    BY <1>2
  <2> QED
    BY <2>1, IsBijection
<1>4. Ascending(ks, 1 .. 1)
  BY <1>1 DEF Ascending
<1>5. Permuted(ks, ks, 1 .. 1)
  <2>1. \A i \in 1 .. 1 : ks[i] = ks[p[i]]
    BY <1>2
  <2> QED
    BY <1>3, <2>1 DEF Permuted
<1> QED
  BY <1>1, <1>4, <1>5, SortedWhere

LEMMA SortedTwo ==
    ASSUME NEW k \in Nat, NEW l \in Nat, NEW ks, ks = <<k, l>>
    PROVE  ks \in [1 .. 2 -> Nat] /\ Sorted(ks) \in [1 .. 2 -> Nat] /\ Ascending(Sorted(ks), 1 .. 2) /\ Permuted(Sorted(ks), ks, 1 .. 2)
<1>1. ks \in [1 .. 2 -> Nat] /\ ks \in [1 .. 2 -> Range(ks)] /\ ks[1] = k /\ ks[2] = l /\ k \in Range(ks) /\ l \in Range(ks)
  BY DEF Range
<1>2. CASE k <= l
  <2>1. PICK p : p = [i \in 1 .. 2 |-> i]
    OBVIOUS
  <2>2. p \in [1 .. 2 -> 1 .. 2] /\ \A i \in 1 .. 2 : p[i] = i
    BY <2>1
  <2>3. p \in Bijection(1 .. 2, 1 .. 2)
    BY <2>2, IsBijection
  <2>4. Ascending(ks, 1 .. 2) /\ Permuted(ks, ks, 1 .. 2)
    BY <1>1, <1>2, <2>2, <2>3 DEF Ascending, Permuted
  <2> QED
    BY <1>1, <2>4, SortedWhere
<1>3. CASE ~(k <= l)
  <2>1. PICK p : p = [i \in 1 .. 2 |-> IF i = 1 THEN 2 ELSE 1]
    OBVIOUS
  <2>2. p \in [1 .. 2 -> 1 .. 2] /\ p[1] = 2 /\ p[2] = 1
    BY <2>1
  <2>3. p \in Bijection(1 .. 2, 1 .. 2)
    <3>1. 1 \in 1 .. 2 /\ 2 \in 1 .. 2 /\ \A j \in 1 .. 2 : j = 1 \/ j = 2
      OBVIOUS
    <3>2. (\A i, j \in 1 .. 2 : p[i] = p[j] => i = j) /\ \A j \in 1 .. 2 : \E i \in 1 .. 2 : p[i] = j
      BY <2>2, <3>1
    <3> QED
      BY <2>2, <3>2, IsBijection
  <2>4. PICK s : s = [i \in 1 .. 2 |-> ks[p[i]]]
    OBVIOUS
  <2>5. s \in [1 .. 2 -> Range(ks)] /\ s[1] = l /\ s[2] = k /\ \A i \in 1 .. 2 : s[i] = ks[p[i]]
    BY <1>1, <2>2, <2>4
  <2>6. Ascending(s, 1 .. 2)
    BY <1>3, <2>5 DEF Ascending
  <2>7. Permuted(s, ks, 1 .. 2)
    BY <2>3, <2>5 DEF Permuted
  <2> QED
    BY <1>1, <2>5, <2>6, <2>7, SortedWhere
<1> QED
  BY <1>2, <1>3

LEMMA SortedThree ==
    ASSUME NEW k \in Nat, NEW l \in Nat, NEW ks, ks = <<k, l, k>>
    PROVE  ks \in [1 .. 3 -> Nat] /\ Sorted(ks) \in [1 .. 3 -> Nat] /\ Ascending(Sorted(ks), 1 .. 3) /\ Permuted(Sorted(ks), ks, 1 .. 3)
<1>1. /\ ks \in [1 .. 3 -> Nat] /\ ks[1] = k /\ ks[2] = l /\ ks[3] = k /\ k \in Range(ks) /\ l \in Range(ks)
  BY DEF Range
<1>2. PICK p : p = [i \in 1 .. 3 |-> IF k <= l THEN (IF i = 1 THEN 1 ELSE IF i = 2 THEN 3 ELSE 2)
                                               ELSE (IF i = 1 THEN 2 ELSE IF i = 2 THEN 1 ELSE 3)]
  OBVIOUS
<1>3. p \in [1 .. 3 -> 1 .. 3] /\ (k <= l => p[1] = 1 /\ p[2] = 3 /\ p[3] = 2) /\ (~(k <= l) => p[1] = 2 /\ p[2] = 1 /\ p[3] = 3)
  BY <1>2
<1>4. p \in Bijection(1 .. 3, 1 .. 3)
  <2>1. \A i, j \in 1 .. 3 : p[i] = p[j] => i = j
    <3>1. CASE k <= l
      BY <1>3, <3>1
    <3>2. CASE ~(k <= l)
      BY <1>3, <3>2
    <3> QED
      BY <3>1, <3>2
  <2>2. \A j \in 1 .. 3 : \E i \in 1 .. 3 : p[i] = j
    <3>1. 1 \in 1 .. 3 /\ 2 \in 1 .. 3 /\ 3 \in 1 .. 3 /\ \A j \in 1 .. 3 : j = 1 \/ j = 2 \/ j = 3
      OBVIOUS
    <3> QED
      BY <1>3, <3>1
  <2> QED
    BY <1>3, <2>1, <2>2, IsBijection
<1>5. PICK s : s = [i \in 1 .. 3 |-> ks[p[i]]]
  OBVIOUS
<1>6. s \in [1 .. 3 -> Range(ks)] /\ \A i \in 1 .. 3 : s[i] = ks[p[i]]
  BY <1>1, <1>3, <1>5
<1>7. (k <= l => s[1] = k /\ s[2] = k /\ s[3] = l) /\ (~(k <= l) => s[1] = l /\ s[2] = k /\ s[3] = k)
  BY <1>1, <1>3, <1>6
<1>8. Ascending(s, 1 .. 3)
  BY <1>7 DEF Ascending
<1>9. Permuted(s, ks, 1 .. 3)
  BY <1>4, <1>6 DEF Permuted
<1> QED
  BY <1>1, <1>6, <1>8, <1>9, SortedWhere

LEMMA VectorSorted ==
    ASSUME NEW ks \in Vectors
    PROVE  \E n \in 1 .. 3 : /\ n \in Nat \ {0} /\ ks \in [1 .. n -> Keys] /\ ks \in [1 .. n -> Nat]
                             /\ Sorted(ks) \in [1 .. n -> Keys] /\ Sorted(ks) \in [1 .. n -> Nat]
                             /\ Ascending(Sorted(ks), 1 .. n) /\ Permuted(Sorted(ks), ks, 1 .. n)
<1>1. PICK k \in Keys, l \in Keys : ks = <<k>> \/ ks = <<k, l>> \/ ks = <<k, l, k>>
  BY VectorIs
<1>2. k \in Nat /\ l \in Nat
  BY RedisAssumption
<1>3. PICK n \in 1 .. 3 : /\ ks \in [1 .. n -> Keys] /\ ks \in [1 .. n -> Nat] /\ Sorted(ks) \in [1 .. n -> Nat]
                          /\ Ascending(Sorted(ks), 1 .. n) /\ Permuted(Sorted(ks), ks, 1 .. n)
  <2>1. CASE ks = <<k>>
    <3>1. 1 \in 1 .. 3 /\ ks \in [1 .. 1 -> Keys]
      BY <2>1
    <3> QED
      BY <1>2, <2>1, <3>1, SortedOne
  <2>2. CASE ks = <<k, l>>
    <3>1. 2 \in 1 .. 3 /\ ks \in [1 .. 2 -> Keys]
      BY <2>2
    <3> QED
      BY <1>2, <2>2, <3>1, SortedTwo
  <2>3. CASE ks = <<k, l, k>>
    <3>1. 3 \in 1 .. 3 /\ ks \in [1 .. 3 -> Keys]
      BY <2>3
    <3> QED
      BY <1>2, <2>3, <3>1, SortedThree
  <2> QED
    BY <1>1, <2>1, <2>2, <2>3
<1>4. PICK p \in Bijection(1 .. n, 1 .. n) : \A i \in 1 .. n : Sorted(ks)[i] = ks[p[i]]
  BY <1>3 DEF Permuted
<1>5. p \in [1 .. n -> 1 .. n]
  BY <1>4 DEF Bijection, Injection
<1>6. \A i \in 1 .. n : Sorted(ks)[i] \in Keys
  BY <1>3, <1>4, <1>5
<1>7. Sorted(ks) \in [1 .. n -> Keys]
  BY <1>3, <1>6
<1>8. n \in Nat \ {0}
  OBVIOUS
<1> QED
  BY <1>3, <1>7, <1>8

-----------------------------------------------------------------------------
(* The order of the stripes.                                               *)

StripesOf(st, ks) == [i \in DOMAIN Adjacent(ks) |-> st[Adjacent(ks)[i]]]
Order(st, ks) == StripesOf(st, Sorted(ks))

LEMMA StripesAre ==
    ASSUME NEW n \in Nat \ {0}, NEW ks \in [1 .. n -> Keys], NEW st \in [Keys -> Stripes]
    PROVE  /\ Len(StripesOf(st, ks)) = Cardinality(Firsts(ks)) /\ Cardinality(Firsts(ks)) \in Nat \ {0}
           /\ \A i \in 1 .. Cardinality(Firsts(ks)) :
                 /\ Adjacent(ks)[i] \in Keys
                 /\ StripesOf(st, ks)[i] = st[Adjacent(ks)[i]] /\ StripesOf(st, ks)[i] \in Stripes
<1>1. PICK N \in Nat \ {0} : N = Cardinality(Firsts(ks)) /\ DOMAIN Adjacent(ks) = 1 .. N
  BY AdjacentIs
<1>2. \A i \in 1 .. N : Adjacent(ks)[i] \in Keys
  <2>1. \A j \in 1 .. N : \E i \in Firsts(ks) : Adjacent(ks)[j] = ks[i]
    BY <1>1, AdjacentIs
  <2>2. Firsts(ks) \subseteq 1 .. n
    BY AdjacentIs
  <2> QED
    BY <2>1, <2>2
<1>3. StripesOf(st, ks) \in [1 .. N -> Stripes] /\ \A i \in 1 .. N : StripesOf(st, ks)[i] = st[Adjacent(ks)[i]]
  BY <1>1, <1>2 DEF StripesOf
<1>4. Len(StripesOf(st, ks)) = N
  BY <1>3
<1> QED
  BY <1>1, <1>2, <1>3, <1>4

\* MultiHashLock takes the stripes in the order of the keys, each key once.
LEMMA OrderIs ==
    ASSUME NEW ks \in Vectors, NEW st \in [Keys -> Stripes]
    PROVE  \E N \in Nat \ {0} : \E A \in [1 .. N -> Keys] :
              /\ Len(Order(st, ks)) = N /\ A = Adjacent(Sorted(ks))
              /\ \A i \in 1 .. N : Order(st, ks)[i] = st[A[i]] /\ Order(st, ks)[i] \in Stripes
              /\ \A i, j \in 1 .. N : i < j => A[i] < A[j]
<1>1. PICK n \in Nat \ {0} : Sorted(ks) \in [1 .. n -> Keys] /\ Sorted(ks) \in [1 .. n -> Nat] /\ Ascending(Sorted(ks), 1 .. n)
  BY VectorSorted
<1>2. PICK s : s = Sorted(ks)
  OBVIOUS
<1>3. s \in [1 .. n -> Keys] /\ s \in [1 .. n -> Nat] /\ \A i, j \in 1 .. n : i <= j => s[i] <= s[j]
  BY <1>1, <1>2 DEF Ascending
<1>4. PICK N \in Nat \ {0} : N = Cardinality(Firsts(s)) /\ DOMAIN Adjacent(s) = 1 .. N
  BY <1>3, AdjacentIs
<1>5. \A i, j \in 1 .. N : i < j => Adjacent(s)[i] < Adjacent(s)[j]
  BY <1>3, <1>4, AdjacentAscends
<1>6. /\ Len(StripesOf(st, s)) = N
      /\ \A i \in 1 .. N : Adjacent(s)[i] \in Keys /\ StripesOf(st, s)[i] = st[Adjacent(s)[i]] /\ StripesOf(st, s)[i] \in Stripes
  BY <1>3, <1>4, StripesAre
<1>7. PICK A : A = [i \in 1 .. N |-> Adjacent(s)[i]]
  OBVIOUS
<1>8. A = Adjacent(s) /\ A \in [1 .. N -> Keys]
  <2>1. Adjacent(s) = [i \in DOMAIN Adjacent(s) |-> Adjacent(s)[i]]
    BY DEF Adjacent
  <2> QED
    BY <1>4, <1>6, <1>7, <2>1
<1> QED
  BY <1>2, <1>5, <1>6, <1>8 DEF Order

\* The destructor unlocks too much only for a key that is named again behind
\* another one.
LEMMA SurplusWhy ==
    ASSUME NEW ks \in Vectors, NEW st \in [Keys -> Stripes], Len(StripesOf(st, ks)) > Len(Order(st, ks))
    PROVE  \E i, j, x \in DOMAIN ks : i < x /\ x < j /\ ks[i] = ks[j] /\ ks[x] # ks[i]
<1>1. PICK k \in Keys, l \in Keys : ks = <<k>> \/ ks = <<k, l>> \/ ks = <<k, l, k>>
  BY VectorIs
<1>2. PICK n \in 1 .. 3 : /\ n \in Nat \ {0} /\ ks \in [1 .. n -> Keys] /\ Sorted(ks) \in [1 .. n -> Keys]
                          /\ Permuted(Sorted(ks), ks, 1 .. n)
  BY VectorSorted
<1>3. PICK s : s = Sorted(ks)
  OBVIOUS
<1>4. PICK p \in Bijection(1 .. n, 1 .. n) : \A i \in 1 .. n : s[i] = ks[p[i]]
  BY <1>2, <1>3 DEF Permuted
<1>5. p \in [1 .. n -> 1 .. n] /\ \A i, j \in 1 .. n : p[i] = p[j] => i = j
  BY <1>4 DEF Bijection, Injection, IsInjective
<1>6. DOMAIN ks = 1 .. n /\ DOMAIN s = 1 .. n
  BY <1>2, <1>3
<1>7. Firsts(ks) # Firsts(s)
  <2>1. SUFFICES ASSUME Firsts(ks) = Firsts(s) PROVE FALSE
    OBVIOUS
  <2>2. Len(StripesOf(st, ks)) = Cardinality(Firsts(ks)) /\ Len(StripesOf(st, s)) = Cardinality(Firsts(s)) /\ Cardinality(Firsts(s)) \in Nat
    BY <1>2, <1>3, StripesAre
  <2> QED
    BY <1>3, <2>1, <2>2 DEF Order
<1>8. CASE n = 3 /\ k # l
  <2>1. ks = <<k, l, k>>
    BY <1>1, <1>6, <1>8, SMTT(40)
  <2>2. ks[1] = k /\ ks[2] = l /\ ks[3] = k /\ 1 \in DOMAIN ks /\ 2 \in DOMAIN ks /\ 3 \in DOMAIN ks
    BY <2>1
  <2> QED
    BY <1>8, <2>2
<1>9. CASE n # 3 \/ k = l
  <2>1. \A i \in 1 .. n : i # 1 => (ks[i] = ks[i - 1] <=> s[i] = s[i - 1])
    <3>1. CASE k = l \/ n = 1
      <4>1. \A i \in 1 .. n : ks[i] = k
        BY <1>1, <1>2, <3>1, SMTT(40)
      <4>2. \A i \in 1 .. n : s[i] = k
        BY <1>4, <1>5, <4>1
      <4>3. \A i \in 1 .. n : i # 1 => i - 1 \in 1 .. n
        OBVIOUS
      <4> QED
        BY <4>1, <4>2, <4>3
    <3>2. CASE n = 2 /\ k # l
      <4>1. ks = <<k, l>>
        BY <1>1, <1>6, <3>2
      <4>2. ks[1] = k /\ ks[2] = l
        BY <4>1
      <4>3. p[1] \in 1 .. 2 /\ p[2] \in 1 .. 2 /\ p[1] # p[2] /\ s[1] = ks[p[1]] /\ s[2] = ks[p[2]]
        BY <1>4, <1>5, <3>2
      <4>4. s[1] # s[2]
        BY <3>2, <4>2, <4>3
      <4> QED
        BY <3>2, <4>2, <4>4
    <3> QED
      BY <1>2, <1>9, <3>1, <3>2
  <2>2. Firsts(ks) = Firsts(s)
    BY <1>6, <2>1 DEF Firsts
  <2> QED
    BY <1>7, <2>2
<1> QED
  BY <1>8, <1>9

-----------------------------------------------------------------------------
(* The invariant.                                                          *)

Fields == {"op", "keys", "a", "pc", "m", "d", "next", "dirty"}
Behind == {"meta", "data", "write"}
CurrentIn(base, op, key) == DbGet(base[TypeOf(op)], MetaKey(op, key))

\* A command has keys of its kind and, while it locks, a stripe to take.
CallOK(c, st, k) ==
    /\ DOMAIN c = Fields /\ c.dirty \in BOOLEAN
    /\ c.pc # "idle" => /\ c.keys \in Vectors
                        /\ IF k = "mset" THEN c.op \in {"MSet", "MSetnx"} ELSE c.keys = <<FirstKey>>
    /\ c.pc = "lock" => c.next \in 1 .. Len(Order(st, c.keys))

\* What a thread holds it took in this command, in the order of the keys.
HoldsTaken(t, c, h, st) ==
    \A s \in Stripes : h[s] = t =>
       \/ c.pc \in Behind
       \/ c.pc = "lock" /\ \E i \in 1 .. c.next - 1 : Order(st, c.keys)[i] = s

\* A command behind its lock holds it, and what it read is current unless a
\* command without a lock wrote.
LockKept(t, c, h, st, k, base) ==
    k # "mset" /\ c.pc \in Behind /\ Locked(c.op) =>
       /\ h[st[FirstKey]] = t
       /\ c.pc \in {"data", "write"} /\ ~c.dirty /\ c.op \notin {"MSet", "MSetnx"} =>
             c.m = CurrentIn(base, c.op, c.keys[1])

ThreadOK(t, c, h, st, k, base) == CallOK(c, st, k) /\ HoldsTaken(t, c, h, st) /\ LockKept(t, c, h, st, k, base)

Renamed(ks) == \E i, j, x \in DOMAIN ks : i < x /\ x < j /\ ks[i] = ks[j] /\ ks[x] # ks[i]

LockInv ==
    /\ stripe \in [Keys -> Stripes] /\ DOMAIN held = Stripes /\ DOMAIN th = Threads
    /\ \A t \in Threads : ThreadOK(t, th[t], held, stripe, kind, db)
    /\ \A ks \in badUnlock : Renamed(ks)

LEMMA FirstKeyIs == FirstKey \in Keys /\ <<FirstKey>> \in Vectors
<1>1. PICK n \in Keys : \A m \in Keys : n <= m
  <2>1. Keys \in SUBSET Nat /\ Keys # {}
    BY RedisAssumption
  <2> QED
    BY <2>1, LeastOf
<1>2. FirstKey \in Keys
  BY <1>1 DEF FirstKey, Min
<1> QED
  BY <1>2 DEF Vectors

LEMMA OrdersAre == \A ks : LockOrder(ks) = Order(stripe, ks) /\ UnlockOrder(ks) = StripesOf(stripe, ks)
  BY DEF LockOrder, UnlockOrder, Order, StripesOf

LEMMA InitLocks == Init => LockInv
<1> SUFFICES ASSUME Init PROVE LockInv
  OBVIOUS
<1>1. /\ stripe \in [Keys -> Stripes] /\ held = [s \in Stripes |-> NoThread] /\ th = [t \in Threads |-> Idle] /\ badUnlock = {}
  BY DEF Init
<1>2. DOMAIN Idle = Fields /\ Idle.pc = "idle" /\ Idle.dirty = FALSE
  BY DEF Idle, Fields
<1>3. ASSUME NEW t \in Threads PROVE ThreadOK(t, th[t], held, stripe, kind, db)
  <2>1. th[t] = Idle /\ \A s \in Stripes : held[s] # t
    BY <1>1, RedisAssumption
  <2> QED
    BY <1>2, <2>1 DEF ThreadOK, CallOK, HoldsTaken, LockKept, Behind
<1> QED
  BY <1>1, <1>3 DEF LockInv

\* A step that changes one thread only.
LEMMA OneThread ==
    ASSUME LockInv, NEW t \in Threads, NEW e, th' = [th EXCEPT ![t] = e],
           held' = held, stripe' = stripe, kind' = kind, db' = db, badUnlock' = badUnlock,
           ThreadOK(t, e, held, stripe, kind, db)
    PROVE  LockInv'
<1>1. DOMAIN th' = Threads /\ \A u \in Threads : ThreadOK(u, th'[u], held', stripe', kind', db')
  <2>1. DOMAIN th' = Threads /\ \A u \in Threads : th'[u] = IF u = t THEN e ELSE th[u]
    BY DEF LockInv
  <2>2. \A u \in Threads : ThreadOK(u, th[u], held, stripe, kind, db)
    BY DEF LockInv
  <2> QED
    BY <2>1, <2>2
<1> QED
  BY <1>1 DEF LockInv

LEMMA CallKept ==
    ASSUME LockInv, NEW t \in Threads, NEW op, NEW ks \in Vectors, NEW a, Call(t, op, ks, a),
           IF kind = "mset" THEN op \in {"MSet", "MSetnx"} ELSE ks = <<FirstKey>>
    PROVE  LockInv'
<1>1. PICK pc : pc = IF op = "MSetnx" THEN "probe" ELSE IF Locked(op) THEN "lock" ELSE "meta"
  OBVIOUS
<1>2. PICK e : e = [Idle EXCEPT !.op = op, !.keys = ks, !.a = a, !.pc = pc]
  OBVIOUS
<1>3. /\ th' = [th EXCEPT ![t] = e] /\ th[t].pc = "idle" /\ held' = held /\ stripe' = stripe /\ kind' = kind
      /\ db' = db /\ badUnlock' = badUnlock
  BY <1>1, <1>2 DEF Call
<1>4. DOMAIN e = Fields /\ e.dirty = FALSE /\ e.op = op /\ e.keys = ks /\ e.pc = pc /\ e.next = 1
  BY <1>2 DEF Idle, Fields
<1>5. ThreadOK(t, th[t], held, stripe, kind, db) /\ stripe \in [Keys -> Stripes]
  BY DEF LockInv
<1>6. \A s \in Stripes : held[s] # t
  BY <1>3, <1>5 DEF ThreadOK, HoldsTaken, Behind
<1>7. 1 \in 1 .. Len(Order(stripe, ks))
  <2>1. PICK N \in Nat \ {0} : Len(Order(stripe, ks)) = N
    BY <1>5, OrderIs
  <2> QED
    BY <2>1
<1>8. pc \in {"probe", "lock", "meta"} /\ (pc = "meta" => ~Locked(op))
  BY <1>1
<1>9. CallOK(e, stripe, kind)
  BY <1>4, <1>7 DEF CallOK
<1>10. HoldsTaken(t, e, held, stripe)
  BY <1>6 DEF HoldsTaken
<1>11. LockKept(t, e, held, stripe, kind, db)
  BY <1>4, <1>8 DEF LockKept, Behind
<1> QED
  BY <1>3, <1>9, <1>10, <1>11, OneThread DEF ThreadOK

LEMMA ProbeKept ==
    ASSUME LockInv, NEW t \in Threads, Probe(t)
    PROVE  LockInv'
<1>1. PICK c : c = th[t]
  OBVIOUS
<1>2. PICK e : e = th'[t]
  OBVIOUS
<1>3. /\ DOMAIN th = Threads /\ th' = [th EXCEPT ![t] = e] /\ c.pc = "probe" /\ held' = held /\ stripe' = stripe
      /\ kind' = kind /\ db' = db /\ badUnlock' = badUnlock
      /\ e = Idle \/ e = [c EXCEPT !.pc = "lock", !.next = 1] \/ e = [c EXCEPT !.next = c.next + 1]
  BY <1>1, <1>2 DEF Probe, LockInv
<1>4. ThreadOK(t, c, held, stripe, kind, db) /\ stripe \in [Keys -> Stripes]
  BY <1>1 DEF LockInv
<1>5. \A s \in Stripes : held[s] # t
  BY <1>3, <1>4 DEF ThreadOK, HoldsTaken, Behind
<1>6. /\ DOMAIN c = Fields /\ c.dirty \in BOOLEAN /\ c.keys \in Vectors
      /\ IF kind = "mset" THEN c.op \in {"MSet", "MSetnx"} ELSE c.keys = <<FirstKey>>
  BY <1>3, <1>4 DEF ThreadOK, CallOK
<1>7. ThreadOK(t, e, held, stripe, kind, db)
  <2>1. CASE e = Idle
    <3>1. DOMAIN e = Fields /\ e.pc = "idle" /\ e.dirty = FALSE
      BY <2>1 DEF Idle, Fields
    <3> QED
      BY <1>5, <3>1 DEF ThreadOK, CallOK, HoldsTaken, LockKept, Behind
  <2>2. CASE e = [c EXCEPT !.pc = "lock", !.next = 1]
    <3>1. DOMAIN e = Fields /\ e.pc = "lock" /\ e.next = 1 /\ e.dirty = c.dirty /\ e.keys = c.keys /\ e.op = c.op
      BY <1>6, <2>2 DEF Fields
    <3>2. PICK N \in Nat \ {0} : Len(Order(stripe, c.keys)) = N
      BY <1>4, <1>6, OrderIs
    <3>3. CallOK(e, stripe, kind)
      BY <1>6, <3>1, <3>2 DEF CallOK
    <3> QED
      BY <1>5, <3>1, <3>3 DEF ThreadOK, HoldsTaken, LockKept, Behind
  <2>3. CASE e = [c EXCEPT !.next = c.next + 1]
    <3>1. DOMAIN e = Fields /\ e.pc = "probe" /\ e.dirty = c.dirty /\ e.keys = c.keys /\ e.op = c.op
      BY <1>3, <1>6, <2>3 DEF Fields
    <3>2. CallOK(e, stripe, kind)
      BY <1>6, <3>1 DEF CallOK
    <3> QED
      BY <1>5, <3>1, <3>2 DEF ThreadOK, HoldsTaken, LockKept, Behind
  <2> QED
    BY <1>3, <2>1, <2>2, <2>3
<1> QED
  BY <1>3, <1>7, OneThread

\* A thread that holds a stripe of FirstKey behind its lock is the only one.
LEMMA OneBehind ==
    ASSUME LockInv, kind # "mset", NEW t \in Threads, NEW u \in Threads, th[t].pc \in Behind, Locked(th[t].op),
           th[u].pc \in Behind, Locked(th[u].op)
    PROVE  t = u
<1>1. ThreadOK(t, th[t], held, stripe, kind, db) /\ ThreadOK(u, th[u], held, stripe, kind, db)
  BY DEF LockInv
<1>2. held[stripe[FirstKey]] = t /\ held[stripe[FirstKey]] = u
  BY <1>1 DEF ThreadOK, LockKept
<1> QED
  BY <1>2

LEMMA ReadMetaKept ==
    ASSUME LockInv, NEW t \in Threads, ReadMeta(t)
    PROVE  LockInv'
<1>1. PICK c : c = th[t]
  OBVIOUS
<1>2. PICK pc : pc = IF ReadsElements(c.op) THEN "data" ELSE "write"
  OBVIOUS
<1>3. PICK d : d = IF c.op = "HDel" THEN db["hash"] ELSE None
  OBVIOUS
<1>4. PICK e : e = [c EXCEPT !.m = Current(c.op, c.keys[1]), !.d = d, !.pc = pc]
  OBVIOUS
<1>5. DOMAIN th = Threads /\ ThreadOK(t, c, held, stripe, kind, db)
  BY <1>1 DEF LockInv
<1>6. DOMAIN c = Fields
  BY <1>5 DEF ThreadOK, CallOK
<1>7. /\ th' = [th EXCEPT ![t] = e] /\ c.pc = "meta" /\ held' = held /\ stripe' = stripe
      /\ kind' = kind /\ db' = db /\ badUnlock' = badUnlock
  BY <1>1, <1>2, <1>3, <1>4, <1>5 DEF ReadMeta
<1>8. /\ DOMAIN e = Fields /\ e.pc \in {"data", "write"} /\ e.dirty = c.dirty /\ e.keys = c.keys /\ e.op = c.op
      /\ e.m = CurrentIn(db, c.op, c.keys[1])
  BY <1>2, <1>4, <1>6 DEF Fields, Current, CurrentIn
<1>9. CallOK(e, stripe, kind)
  BY <1>5, <1>7, <1>8 DEF ThreadOK, CallOK
<1>10. HoldsTaken(t, e, held, stripe)
  BY <1>8 DEF HoldsTaken, Behind
<1>11. LockKept(t, e, held, stripe, kind, db)
  BY <1>5, <1>7, <1>8 DEF ThreadOK, LockKept, Behind
<1> QED
  BY <1>7, <1>9, <1>10, <1>11, OneThread DEF ThreadOK

LEMMA ReadElementsKept ==
    ASSUME LockInv, NEW t \in Threads, ReadElements(t)
    PROVE  LockInv'
<1>1. PICK c : c = th[t]
  OBVIOUS
<1>2. PICK e : e = [c EXCEPT !.d = db[TypeOf(c.op)], !.pc = "write"]
  OBVIOUS
<1>3. DOMAIN th = Threads /\ ThreadOK(t, c, held, stripe, kind, db)
  BY <1>1 DEF LockInv
<1>4. DOMAIN c = Fields
  BY <1>3 DEF ThreadOK, CallOK
<1>5. /\ th' = [th EXCEPT ![t] = e] /\ c.pc = "data" /\ held' = held /\ stripe' = stripe
      /\ kind' = kind /\ db' = db /\ badUnlock' = badUnlock
  BY <1>1, <1>2, <1>3 DEF ReadElements
<1>6. DOMAIN e = Fields /\ e.pc = "write" /\ e.dirty = c.dirty /\ e.keys = c.keys /\ e.op = c.op /\ e.m = c.m
  BY <1>2, <1>4 DEF Fields
<1>7. CallOK(e, stripe, kind)
  BY <1>3, <1>5, <1>6 DEF ThreadOK, CallOK
<1>8. HoldsTaken(t, e, held, stripe)
  BY <1>6 DEF HoldsTaken, Behind
<1>9. LockKept(t, e, held, stripe, kind, db)
  BY <1>3, <1>5, <1>6 DEF ThreadOK, LockKept, Behind
<1> QED
  BY <1>5, <1>7, <1>8, <1>9, OneThread DEF ThreadOK

\* The stripe that a command of one key takes.
LEMMA OrderOfOne ==
    ASSUME NEW st \in [Keys -> Stripes], NEW k \in Keys
    PROVE  Len(Order(st, <<k>>)) = 1 /\ Order(st, <<k>>)[1] = st[k]
<1>1. PICK ks : ks = <<k>>
  OBVIOUS
<1>2. ks \in [1 .. 1 -> Keys] /\ ks[1] = k /\ DOMAIN ks = 1 .. 1 /\ k \in Nat
  BY <1>1, RedisAssumption
<1>3. Sorted(ks) \in [1 .. 1 -> Nat] /\ Permuted(Sorted(ks), ks, 1 .. 1)
  BY <1>1, <1>2, SortedOne
<1>4. Sorted(ks)[1] = k
  <2>1. PICK p \in Bijection(1 .. 1, 1 .. 1) : \A i \in 1 .. 1 : Sorted(ks)[i] = ks[p[i]]
    BY <1>3 DEF Permuted
  <2>2. p \in [1 .. 1 -> 1 .. 1]
    BY <2>1 DEF Bijection, Injection
  <2> QED
    BY <1>2, <2>1, <2>2
<1>5. Sorted(ks) \in [1 .. 1 -> Keys]
  BY <1>3, <1>4
<1>6. PICK s : s = Sorted(ks)
  OBVIOUS
<1>7. Firsts(s) = {1}
  BY <1>5, <1>6 DEF Firsts
<1>8. Cardinality(Firsts(s)) = 1
  BY <1>7, FS_Singleton
<1>81. PICK n \in Nat \ {0} : n = 1
  OBVIOUS
<1>82. s \in [1 .. n -> Keys] /\ s \in [1 .. n -> Nat] /\ 1 \in 1 .. Cardinality(Firsts(s))
  BY <1>3, <1>5, <1>6, <1>8, <1>81
<1>9. Len(StripesOf(st, s)) = 1 /\ StripesOf(st, s)[1] = st[Adjacent(s)[1]]
  <2>1. /\ Len(StripesOf(st, s)) = Cardinality(Firsts(s))
        /\ \A i \in 1 .. Cardinality(Firsts(s)) : StripesOf(st, s)[i] = st[Adjacent(s)[i]]
    BY <1>82, StripesAre
  <2> QED
    BY <1>8, <1>82, <2>1
<1>10. Adjacent(s)[1] = s[1]
  <2>1. \E i \in Firsts(s) : Adjacent(s)[1] = s[i]
    BY <1>82, <1>8, AdjacentIs
  <2> QED
    BY <1>7, <2>1
<1> QED
  BY <1>1, <1>4, <1>6, <1>9, <1>10 DEF Order

\* Thread t takes the free stripe x and becomes e.
LEMMA TakenKept ==
    ASSUME LockInv, NEW t \in Threads, NEW x \in Stripes, NEW e, held[x] = NoThread,
           th' = [th EXCEPT ![t] = e], held' = [held EXCEPT ![x] = t], stripe' = stripe, kind' = kind, db' = db,
           badUnlock' = badUnlock, ThreadOK(t, e, held', stripe, kind, db)
    PROVE  LockInv'
<1>1. DOMAIN th' = Threads /\ \A u \in Threads : th'[u] = IF u = t THEN e ELSE th[u]
  BY DEF LockInv
<1>2. DOMAIN held' = Stripes /\ \A s \in Stripes : held'[s] = IF s = x THEN t ELSE held[s]
  BY DEF LockInv
<1>3. ASSUME NEW u \in Threads, u # t PROVE ThreadOK(u, th'[u], held', stripe', kind', db')
  <2>1. ThreadOK(u, th[u], held, stripe, kind, db) /\ stripe \in [Keys -> Stripes] /\ u # NoThread
    BY RedisAssumption DEF LockInv
  <2>2. \A s \in Stripes : held[s] = u <=> held'[s] = u
    BY <1>2, <1>3, <2>1
  <2>3. HoldsTaken(u, th[u], held', stripe)
    BY <2>1, <2>2 DEF ThreadOK, HoldsTaken
  <2>4. stripe[FirstKey] \in Stripes
    BY <2>1, FirstKeyIs
  <2>5. LockKept(u, th[u], held', stripe, kind, db)
    BY <2>1, <2>2, <2>4 DEF ThreadOK, LockKept
  <2>6. ThreadOK(u, th[u], held', stripe, kind, db)
    BY <2>1, <2>3, <2>5 DEF ThreadOK
  <2>7. th'[u] = th[u]
    BY <1>1, <1>3
  <2> QED
    BY <2>6, <2>7
<1>4. ASSUME NEW u \in Threads PROVE ThreadOK(u, th'[u], held', stripe', kind', db')
  <2>1. CASE u = t
    BY <1>1, <2>1
  <2>2. CASE u # t
    BY <1>3, <2>2
  <2> QED
    BY <2>1, <2>2
<1> QED
  BY <1>1, <1>2, <1>4 DEF LockInv

LEMMA LockStepKept ==
    ASSUME LockInv, NEW t \in Threads, Lock(t)
    PROVE  LockInv'
<1>1. PICK c : c = th[t]
  OBVIOUS
<1>2. PICK e : e = th'[t]
  OBVIOUS
<1>3. PICK order : order = Order(stripe, c.keys)
  OBVIOUS
<1>4. PICK x : x = order[c.next]
  OBVIOUS
<1>5. LockOrder(c.keys) = order /\ LockOrder(th[t].keys) = order
  BY <1>1, <1>3, OrdersAre
<1>6. DOMAIN th = Threads /\ ThreadOK(t, c, held, stripe, kind, db) /\ stripe \in [Keys -> Stripes] /\ DOMAIN held = Stripes
  BY <1>1 DEF LockInv
<1>7. /\ c.pc = "lock" /\ held[x] = NoThread /\ held' = [held EXCEPT ![x] = t] /\ th' = [th EXCEPT ![t] = e]
      /\ e = IF c.next < Len(order) THEN [c EXCEPT !.next = c.next + 1]
             ELSE [c EXCEPT !.pc = IF c.op \in {"MSet", "MSetnx"} THEN "write" ELSE "meta"]
      /\ stripe' = stripe /\ kind' = kind /\ db' = db /\ badUnlock' = badUnlock
  BY <1>1, <1>2, <1>4, <1>5, <1>6 DEF Lock
<1>8. /\ DOMAIN c = Fields /\ c.dirty \in BOOLEAN /\ c.keys \in Vectors /\ c.next \in 1 .. Len(order)
      /\ IF kind = "mset" THEN c.op \in {"MSet", "MSetnx"} ELSE c.keys = <<FirstKey>>
  BY <1>3, <1>6, <1>7 DEF ThreadOK, CallOK
<1>9. PICK N \in Nat \ {0} : Len(order) = N /\ \A i \in 1 .. N : order[i] \in Stripes
  BY <1>3, <1>6, <1>8, OrderIs
<1>10. x \in Stripes /\ c.next \in 1 .. N /\ c.next \in Nat
  BY <1>4, <1>8, <1>9
<1>11. \A s \in Stripes : held'[s] = IF s = x THEN t ELSE held[s]
  BY <1>6, <1>7
<1>12. \A s \in Stripes : held[s] = t => \E i \in 1 .. c.next - 1 : order[i] = s
  BY <1>3, <1>6, <1>7 DEF ThreadOK, HoldsTaken, Behind
<1>13. ThreadOK(t, e, held', stripe, kind, db)
  <2>1. CASE c.next < Len(order)
    <3>1. e = [c EXCEPT !.next = c.next + 1]
      BY <1>7, <2>1
    <3>2. DOMAIN e = Fields /\ e.pc = "lock" /\ e.next = c.next + 1 /\ e.dirty = c.dirty /\ e.keys = c.keys /\ e.op = c.op
      BY <1>7, <1>8, <3>1 DEF Fields
    <3>3. e.next \in 1 .. Len(order)
      BY <1>9, <1>10, <2>1, <3>2
    <3>4. CallOK(e, stripe, kind)
      BY <1>3, <1>8, <3>2, <3>3 DEF CallOK
    <3>5. ASSUME NEW s \in Stripes, held'[s] = t PROVE \E i \in 1 .. e.next - 1 : order[i] = s
      <4>1. 1 .. e.next - 1 = 1 .. c.next /\ c.next \in 1 .. c.next
        BY <1>10, <3>2
      <4>2. CASE s = x
        BY <1>4, <4>1, <4>2
      <4>3. CASE s # x
        <5>1. held[s] = t
          BY <1>11, <3>5, <4>3
        <5>2. PICK i \in 1 .. c.next - 1 : order[i] = s
          BY <1>12, <5>1
        <5>3. i \in 1 .. c.next
          BY <1>10, <5>2
        <5> QED
          BY <4>1, <5>2, <5>3
      <4> QED
        BY <4>2, <4>3
    <3>6. HoldsTaken(t, e, held', stripe)
      BY <1>3, <3>2, <3>5 DEF HoldsTaken
    <3>7. LockKept(t, e, held', stripe, kind, db)
      BY <3>2 DEF LockKept, Behind
    <3> QED
      BY <3>4, <3>6, <3>7 DEF ThreadOK
  <2>2. CASE ~(c.next < Len(order))
    <3>0. PICK pc : pc = IF c.op \in {"MSet", "MSetnx"} THEN "write" ELSE "meta"
      OBVIOUS
    <3>1. e = [c EXCEPT !.pc = pc]
      BY <1>7, <2>2, <3>0
    <3>2. DOMAIN e = Fields /\ e.pc = pc /\ e.dirty = c.dirty /\ e.keys = c.keys /\ e.op = c.op /\ pc \in {"write", "meta"}
      BY <1>8, <3>0, <3>1 DEF Fields
    <3>3. CallOK(e, stripe, kind)
      BY <1>8, <3>2 DEF CallOK
    <3>4. HoldsTaken(t, e, held', stripe)
      BY <3>2 DEF HoldsTaken, Behind
    <3>5. LockKept(t, e, held', stripe, kind, db)
      <4>1. ASSUME kind # "mset" PROVE held'[stripe[FirstKey]] = t
        <5>1. c.keys = <<FirstKey>>
          BY <1>8, <4>1
        <5>2. Len(order) = 1 /\ order[1] = stripe[FirstKey]
          BY <1>3, <1>6, <5>1, FirstKeyIs, OrderOfOne
        <5>3. c.next = 1
          BY <1>9, <1>10, <5>2
        <5>4. x = stripe[FirstKey]
          BY <1>4, <5>2, <5>3
        <5> QED
          BY <1>10, <1>11, <5>4
      <4>2. pc = "meta" \/ c.op \in {"MSet", "MSetnx"}
        BY <3>0
      <4> QED
        BY <3>2, <4>1, <4>2 DEF LockKept
    <3> QED
      BY <3>3, <3>4, <3>5 DEF ThreadOK
  <2> QED
    BY <2>1, <2>2
<1> QED
  BY <1>7, <1>10, <1>13, TakenKept

LEMMA FinishKept ==
    ASSUME LockInv, NEW t \in Threads, Finish(t)
    PROVE  LockInv'
<1>1. PICK c : c = th[t]
  OBVIOUS
<1>2. PICK r : r = Result(th[t])
  OBVIOUS
<1>3. c.pc = "write" /\ FinishWith(t, c, r)
  BY <1>1, <1>2 DEF Finish
<1>4. /\ DOMAIN th = Threads /\ DOMAIN held = Stripes /\ stripe \in [Keys -> Stripes]
      /\ \A u \in Threads : ThreadOK(u, th[u], held, stripe, kind, db)
      /\ \A ks \in badUnlock : Renamed(ks)
  BY DEF LockInv
<1>5. /\ stripe' = stripe /\ kind' = kind
      /\ th' = [u \in Threads |-> IF u = t THEN Idle ELSE [th[u] EXCEPT !.dirty = th[u].dirty \/ ~ Locked(c.op)]]
      /\ held' = [s \in Stripes |-> IF s \in {z \in Stripes : held[z] = t} THEN NoThread ELSE held[s]]
      /\ badUnlock' = IF Locked(c.op) /\ Surplus(c.keys) THEN badUnlock \cup {c.keys} ELSE badUnlock
  BY <1>3 DEF FinishWith
<1>6. DOMAIN held' = Stripes /\ \A s \in Stripes : held'[s] = IF held[s] = t THEN NoThread ELSE held[s]
  BY <1>5
<1>7. c.keys \in Vectors
  BY <1>1, <1>3, <1>4 DEF ThreadOK, CallOK
<1>8. \A ks \in badUnlock' : Renamed(ks)
  <2>1. CASE Surplus(c.keys)
    <3>1. Len(StripesOf(stripe, c.keys)) > Len(Order(stripe, c.keys))
      BY <2>1, OrdersAre DEF Surplus
    <3>2. Renamed(c.keys)
      BY <1>4, <1>7, <3>1, SurplusWhy DEF Renamed
    <3> QED
      BY <1>4, <1>5, <3>2
  <2>2. CASE ~Surplus(c.keys)
    BY <1>4, <1>5, <2>2
  <2> QED
    BY <2>1, <2>2
<1>9. ASSUME NEW u \in Threads PROVE ThreadOK(u, th'[u], held', stripe, kind, db')
  <2>1. CASE u = t
    <3>1. th'[u] = Idle
      BY <1>5, <2>1
    <3>2. DOMAIN Idle = Fields /\ Idle.pc = "idle" /\ Idle.dirty = FALSE
      BY DEF Idle, Fields
    <3>3. \A s \in Stripes : held'[s] # u
      BY <1>6, <2>1, RedisAssumption
    <3> QED
      BY <3>1, <3>2, <3>3 DEF ThreadOK, CallOK, HoldsTaken, LockKept, Behind
  <2>2. CASE u # t
    <3>1. PICK b : b = th[u]
      OBVIOUS
    <3>2. PICK f : f = (b.dirty \/ ~ Locked(c.op))
      OBVIOUS
    <3>3. PICK e : e = [b EXCEPT !.dirty = f]
      OBVIOUS
    <3>4. th'[u] = e
      BY <1>5, <2>2, <3>1, <3>2, <3>3
    <3>5. CallOK(b, stripe, kind) /\ HoldsTaken(u, b, held, stripe) /\ LockKept(u, b, held, stripe, kind, db)
      BY <1>4, <3>1 DEF ThreadOK
    <3>6. DOMAIN b = Fields
      BY <3>5 DEF CallOK
    <3>7. DOMAIN e = Fields /\ e.dirty = f /\ e.pc = b.pc /\ e.keys = b.keys /\ e.op = b.op /\ e.next = b.next /\ e.m = b.m
      BY <3>3, <3>6 DEF Fields
    <3>8. f \in BOOLEAN
      BY <3>2
    <3>9. CallOK(e, stripe, kind)
      BY <3>5, <3>7, <3>8 DEF CallOK
    <3>10. \A s \in Stripes : held'[s] = u <=> held[s] = u
      BY <1>6, <2>2, RedisAssumption
    <3>11. HoldsTaken(u, e, held', stripe)
      BY <3>5, <3>7, <3>10 DEF HoldsTaken
    <3>12. LockKept(u, e, held', stripe, kind, db')
      <4>1. SUFFICES ASSUME kind # "mset", b.pc \in Behind, Locked(b.op)
                     PROVE  held'[stripe[FirstKey]] = u /\ f
        BY <3>7 DEF LockKept
      <4>2. held[stripe[FirstKey]] = u
        BY <3>5, <4>1 DEF LockKept
      <4>3. stripe[FirstKey] \in Stripes
        BY <1>4, FirstKeyIs
      <4>4. ~Locked(c.op)
        <5>1. SUFFICES ASSUME Locked(c.op) PROVE FALSE
          OBVIOUS
        <5>2. th[t].pc \in Behind /\ Locked(th[t].op) /\ th[u].pc \in Behind /\ Locked(th[u].op)
          BY <1>1, <1>3, <3>1, <4>1, <5>1 DEF Behind
        <5> QED
          BY <2>2, <4>1, <5>2, OneBehind
      <4> QED
        BY <3>2, <3>10, <4>2, <4>3, <4>4
    <3> QED
      BY <3>4, <3>9, <3>11, <3>12 DEF ThreadOK
  <2> QED
    BY <2>1, <2>2
<1>10. DOMAIN th' = Threads
  BY <1>5
<1> QED
  BY <1>4, <1>5, <1>6, <1>8, <1>9, <1>10 DEF LockInv

\* RedisDB::Del and RedisDB::Expire run while no other command does.
LEMMA KeyCommandKept ==
    ASSUME LockInv, NEW ops, NEW key, NEW a, KeyCommand(ops, key, a)
    PROVE  LockInv'
<1>1. /\ \A t \in Threads : th[t].pc = "idle"
      /\ kind' = kind /\ stripe' = stripe /\ held' = held /\ th' = th /\ badUnlock' = badUnlock
  BY DEF KeyCommand, KeyCommandWith
<1>2. ASSUME NEW t \in Threads PROVE ThreadOK(t, th[t], held, stripe, kind, db')
  <2>1. ThreadOK(t, th[t], held, stripe, kind, db)
    BY DEF LockInv
  <2>2. LockKept(t, th[t], held, stripe, kind, db')
    BY <1>1 DEF LockKept, Behind
  <2> QED
    BY <2>1, <2>2 DEF ThreadOK
<1> QED
  BY <1>1, <1>2 DEF LockInv

LEMMA ClientKept ==
    ASSUME LockInv, NEW t \in Threads, Client(t)
    PROVE  LockInv'
<1>1. CASE kind # "mset" /\ \E c \in CallsOf(kind) : Call(t, c[1], <<FirstKey>>, c[2])
  <2>1. PICK c \in CallsOf(kind) : Call(t, c[1], <<FirstKey>>, c[2])
    BY <1>1
  <2>2. <<FirstKey>> \in Vectors
    BY FirstKeyIs
  <2> QED
    BY <1>1, <2>1, <2>2, CallKept
<1>2. CASE kind = "mset" /\ \E op \in {"MSet", "MSetnx"}, ks \in KeyVectors : Call(t, op, ks, [v |-> One])
  <2>1. PICK op \in {"MSet", "MSetnx"}, ks \in KeyVectors : Call(t, op, ks, [v |-> One])
    BY <1>2
  <2>2. ks \in Vectors
    BY <2>1 DEF Vectors, KeyVectors
  <2> QED
    BY <1>2, <2>1, <2>2, CallKept
<1> QED
  BY <1>1, <1>2 DEF Client

LEMMA NextLocks == LockInv /\ [Next]_vars => LockInv'
<1> SUFFICES ASSUME LockInv, [Next]_vars PROVE LockInv'
  OBVIOUS
<1>1. ASSUME NEW t \in Threads, Client(t) PROVE LockInv'
  BY <1>1, ClientKept
<1>2. ASSUME NEW t \in Threads, Probe(t) PROVE LockInv'
  BY <1>2, ProbeKept
<1>3. ASSUME NEW t \in Threads, Lock(t) PROVE LockInv'
  BY <1>3, LockStepKept
<1>4. ASSUME NEW t \in Threads, ReadMeta(t) PROVE LockInv'
  BY <1>4, ReadMetaKept
<1>5. ASSUME NEW t \in Threads, ReadElements(t) PROVE LockInv'
  BY <1>5, ReadElementsKept
<1>6. ASSUME NEW t \in Threads, Finish(t) PROVE LockInv'
  BY <1>6, FinishKept
<1>7. ASSUME RedisDel(FirstKey) \/ \E n \in {0, 1} : RedisExpire(FirstKey, n) PROVE LockInv'
  <2>1. ASSUME RedisDel(FirstKey) PROVE LockInv'
    BY <2>1, KeyCommandKept DEF RedisDel
  <2>2. ASSUME NEW n, RedisExpire(FirstKey, n) PROVE LockInv'
    BY <2>2, KeyCommandKept DEF RedisExpire
  <2> QED
    BY <1>7, <2>1, <2>2
<1>8. CASE Tick
  BY <1>8 DEF Tick, LockInv
<1>9. CASE UNCHANGED vars
  BY <1>9 DEF vars, LockInv
<1> QED
  BY <1>1, <1>2, <1>3, <1>4, <1>5, <1>6, <1>7, <1>8, <1>9 DEF Next

\* A thread waits only for a stripe that another one took before the stripe it
\* waits for itself; a circle would climb through the keys for ever.
LEMMA NoCircle ==
    ASSUME LockInv, NEW t \in Threads, NEW u \in Threads, WaitsFor(t, u), WaitsFor(u, t),
           \A j, k \in Keys : stripe[j] = stripe[k] => j = k
    PROVE  FALSE
<1>1. /\ stripe \in [Keys -> Stripes]
      /\ ThreadOK(t, th[t], held, stripe, kind, db) /\ ThreadOK(u, th[u], held, stripe, kind, db)
  BY DEF LockInv
<1>2. PICK ot : ot = Order(stripe, th[t].keys)
  OBVIOUS
<1>3. PICK ou : ou = Order(stripe, th[u].keys)
  OBVIOUS
<1>4. PICK nt : nt = th[t].next
  OBVIOUS
<1>5. PICK nu : nu = th[u].next
  OBVIOUS
<1>6. th[t].pc = "lock" /\ th[u].pc = "lock" /\ held[ot[nt]] = u /\ held[ou[nu]] = t
  BY <1>2, <1>3, <1>4, <1>5, OrdersAre DEF WaitsFor
<1>7. th[t].keys \in Vectors /\ th[u].keys \in Vectors /\ nt \in 1 .. Len(ot) /\ nu \in 1 .. Len(ou)
  BY <1>1, <1>2, <1>3, <1>4, <1>5, <1>6 DEF ThreadOK, CallOK
<1>8. PICK Nt \in Nat \ {0} : \E A \in [1 .. Nt -> Keys] :
         /\ Len(ot) = Nt /\ \A i \in 1 .. Nt : ot[i] = stripe[A[i]] /\ ot[i] \in Stripes
         /\ \A i, j \in 1 .. Nt : i < j => A[i] < A[j]
  BY <1>1, <1>2, <1>7, OrderIs, SMTT(40)
<1>9. PICK At \in [1 .. Nt -> Keys] :
         /\ Len(ot) = Nt /\ \A i \in 1 .. Nt : ot[i] = stripe[At[i]] /\ ot[i] \in Stripes
         /\ \A i, j \in 1 .. Nt : i < j => At[i] < At[j]
  BY <1>8
<1>10. PICK Nu \in Nat \ {0} : \E A \in [1 .. Nu -> Keys] :
         /\ Len(ou) = Nu /\ \A i \in 1 .. Nu : ou[i] = stripe[A[i]] /\ ou[i] \in Stripes
         /\ \A i, j \in 1 .. Nu : i < j => A[i] < A[j]
  BY <1>1, <1>3, <1>7, OrderIs, SMTT(40)
<1>11. PICK Au \in [1 .. Nu -> Keys] :
         /\ Len(ou) = Nu /\ \A i \in 1 .. Nu : ou[i] = stripe[Au[i]] /\ ou[i] \in Stripes
         /\ \A i, j \in 1 .. Nu : i < j => Au[i] < Au[j]
  BY <1>10
<1>12. nt \in 1 .. Nt /\ nu \in 1 .. Nu
  BY <1>7, <1>9, <1>11
<1>13. PICK i \in 1 .. nu - 1 : ou[i] = ot[nt]
  <2>1. ot[nt] \in Stripes
    BY <1>9, <1>12
  <2> QED
    BY <1>1, <1>3, <1>5, <1>6, <2>1 DEF ThreadOK, HoldsTaken, Behind
<1>14. PICK j \in 1 .. nt - 1 : ot[j] = ou[nu]
  <2>1. ou[nu] \in Stripes
    BY <1>11, <1>12
  <2> QED
    BY <1>1, <1>2, <1>4, <1>6, <2>1 DEF ThreadOK, HoldsTaken, Behind
<1>15. i \in 1 .. Nu /\ j \in 1 .. Nt /\ i < nu /\ j < nt
  BY <1>12, <1>13, <1>14
<1>16. Au[i] = At[nt] /\ At[j] = Au[nu]
  <2>1. ou[i] = stripe[Au[i]] /\ ot[nt] = stripe[At[nt]] /\ ot[j] = stripe[At[j]] /\ ou[nu] = stripe[Au[nu]]
    BY <1>9, <1>11, <1>12, <1>15
  <2>2. Au[i] \in Keys /\ At[nt] \in Keys /\ At[j] \in Keys /\ Au[nu] \in Keys
    BY <1>9, <1>11, <1>12, <1>15
  <2> QED
    BY <1>13, <1>14, <2>1, <2>2
<1>17. Au[i] < Au[nu] /\ At[j] < At[nt]
  BY <1>9, <1>11, <1>12, <1>15
<1>18. At[nt] \in Nat /\ Au[nu] \in Nat
  BY <1>9, <1>11, <1>12, RedisAssumption
<1> QED
  BY <1>16, <1>17, <1>18

LEMMA LocksHold == LockInv => LocksSafe
<1> SUFFICES ASSUME LockInv PROVE LocksSafe
  OBVIOUS
<1>1. LockProtects
  <2>1. SUFFICES ASSUME NEW t \in Threads, th[t].pc = "write", th[t].op \notin {"MSet", "MSetnx"}, Locked(th[t].op),
                        ~th[t].dirty
                 PROVE  th[t].m = Current(th[t].op, th[t].keys[1])
    BY DEF LockProtects
  <2>2. CallOK(th[t], stripe, kind) /\ LockKept(t, th[t], held, stripe, kind, db)
    BY DEF LockInv, ThreadOK
  <2>3. kind # "mset"
    BY <2>1, <2>2 DEF CallOK
  <2>4. th[t].m = CurrentIn(db, th[t].op, th[t].keys[1])
    BY <2>1, <2>2, <2>3 DEF LockKept, Behind
  <2> QED
    BY <2>4 DEF CurrentIn, Current
<1>2. StripesSafe
  <2>1. \A ks \in badUnlock : Renamed(ks)
    BY DEF LockInv
  <2>2. ASSUME NEW t \in Threads, NEW u \in Threads, WaitsFor(t, u), WaitsFor(u, t)
        PROVE  \E j, k \in Keys : j # k /\ stripe[j] = stripe[k]
    <3>1. SUFFICES ASSUME \A j, k \in Keys : stripe[j] = stripe[k] => j = k PROVE FALSE
      OBVIOUS
    <3> QED
      BY <2>2, <3>1, NoCircle
  <2> QED
    BY <2>1, <2>2 DEF StripesSafe, Renamed
<1> QED
  BY <1>1, <1>2 DEF LocksSafe

-----------------------------------------------------------------------------
\* LockInv is an inductive invariant of the striped locks, for every set of
\* threads, keys and stripes, every hash and every bound: a thread holds only
\* stripes that its command took, in the order of the keys; a command behind
\* its lock holds the stripe of its key, and the record it read is current
\* unless HDel or Setrange wrote meanwhile (lockmgr.h and the commands of
\* redisdb).
THEOREM LocksInvariant == Spec => []LockInv
<1>1. Init => LockInv
  BY InitLocks
<1>2. LockInv /\ [Next]_vars => LockInv'
  BY NextLocks
<1> QED
  BY <1>1, <1>2, PTL DEF Spec

\* The striped locks protect what they lock: no update of a locked command is
\* lost, and MultiHashLock lets threads wait for each other in a circle only
\* when two keys share a stripe.
THEOREM LocksSafeCorrect == Spec => []LocksSafe
<1>1. Spec => []LockInv
  BY LocksInvariant
<1>2. LockInv => LocksSafe
  BY LocksHold
<1> QED
  BY <1>1, <1>2, PTL

-----------------------------------------------------------------------------
(* Records and batches.                                                    *)

LEMMA BaseParsed ==
    ASSUME NEW c, NEW v, NEW ts
    PROVE  /\ Meta(<<c, v, ts>>) = [count |-> c, version |-> v, timestamp |-> ts]
           /\ <<c, v, ts>> # NoRec
  BY DEF Meta, ParsedBaseMetaValue, FromEnd, NoRec

LEMMA ListParsed ==
    ASSUME NEW c, NEW v, NEW ts, NEW l, NEW r
    PROVE  /\ ListMeta(<<c, v, ts, l, r>>) = [count |-> c, version |-> v, timestamp |-> ts, left |-> l, right |-> r]
           /\ ParsedListsMetaValue(<<c, v, ts, l, r>>) = [count |-> c, version |-> v, timestamp |-> ts, left |-> l, right |-> r]
           /\ <<c, v, ts, l, r>> # NoRec
  BY DEF ListMeta, ParsedListsMetaValue, FromEnd, NoRec

\* A version that is started is above the one before, and above 0.
LEMMA VersionGrows ==
    ASSUME NEW v \in Nat, NEW n \in Nat
    PROVE  UpdateVersion(v, n) \in Nat /\ UpdateVersion(v, n) > v /\ UpdateVersion(v, n) >= 1
  BY DEF UpdateVersion

LEMMA BatchApplied ==
    ASSUME NEW D, NEW P, NEW X
    PROVE  /\ DOMAIN ApplyBatch(D, P, X) = (DOMAIN D \ X) \cup DOMAIN P
           /\ \A k \in DOMAIN P : ApplyBatch(D, P, X)[k] = P[k]
           /\ \A k \in DOMAIN D \ X : k \notin DOMAIN P => ApplyBatch(D, P, X)[k] = D[k]
  BY DEF ApplyBatch

LEMMA PutsJoined ==
    ASSUME NEW k, NEW v, NEW P
    PROVE  /\ DOMAIN BothPuts(OnePut(k, v), P) = {k} \cup DOMAIN P
           /\ BothPuts(OnePut(k, v), P)[k] = v
           /\ \A j \in DOMAIN P : j # k => BothPuts(OnePut(k, v), P)[j] = P[j]
  BY DEF BothPuts, OnePut

LEMMA OnePutIs == \A k, v : DOMAIN OnePut(k, v) = {k} /\ OnePut(k, v)[k] = v
  BY DEF OnePut

LEMMA NoneIs == DOMAIN None = {}
  BY DEF None

-----------------------------------------------------------------------------
(* Hashes and sets.                                                        *)

\* The element records are those of F under one version.
HashRecs(D, v, F) ==
    /\ v \in Nat \ {0} /\ IsFiniteSet(F)
    /\ DOMAIN D \ {<<FirstKey>>} = {<<FirstKey, v, f>> : f \in F}
    /\ \A f \in F : D[<<FirstKey, v, f>>] # NoRec

\* The meta record tells their version and their number.
HashIs(D, v, F) ==
    /\ HashRecs(D, v, F)
    /\ <<FirstKey>> \in DOMAIN D /\ D[<<FirstKey>>] = <<Cardinality(F), v, 0>>
HashOK(D) == DOMAIN D = {} \/ \E v, F : HashIs(D, v, F)
SetOK(D) == DOMAIN D = {} \/ \E v, F : HashIs(D, v, F) /\ F # {}

LEMMA KeysDiffer ==
    /\ \A k, j, v, f : <<k>> # <<j, v, f>>
    /\ \A k, j, v, w, f, g : <<k, v, f>> = <<j, w, g>> => k = j /\ v = w /\ f = g
  OBVIOUS

LEMMA FieldsCounted ==
    ASSUME NEW k, NEW v, NEW F, IsFiniteSet(F), NEW T,
           \A f \in F : <<k, v, f>> \in T, \A z \in T : \E f \in F : z = <<k, v, f>>
    PROVE  Cardinality(T) = Cardinality(F) /\ Cardinality(F) \in Nat
<1>1. PICK b : b = [f \in F |-> <<k, v, f>>]
  OBVIOUS
<1>3. b \in [F -> T] /\ \A f \in F : b[f] = <<k, v, f>>
  BY <1>1
<1>4. \A f, g \in F : b[f] = b[g] => f = g
  BY <1>3, KeysDiffer
<1>5. \A z \in T : \E f \in F : b[f] = z
  BY <1>3
<1>6. b \in Bijection(F, T)
  BY <1>3, <1>4, <1>5 DEF Bijection, Injection, Surjection, IsInjective
<1>7. ExistsBijection(F, T)
  BY <1>6 DEF ExistsBijection
<1> QED
  BY <1>7, FS_Bijection, FS_CardinalityType

LEMMA FieldsFound ==
    ASSUME NEW D, NEW v, NEW F, HashIs(D, v, F)
    PROVE  /\ FieldsAt(D, FirstKey, v) = {<<FirstKey, v, f>> : f \in F}
           /\ Cardinality(FieldsAt(D, FirstKey, v)) = Cardinality(F)
           /\ Cardinality(F) \in Nat
           /\ DbGet(D, <<FirstKey>>) = <<Cardinality(F), v, 0>>
           /\ \A f : DbGet(D, BaseDataKey(FirstKey, v, f)) = NoRec <=> f \notin F
           /\ \A f : <<FirstKey, v, f>> \in DOMAIN D <=> f \in F
<1>0. PICK T : T = {<<FirstKey, v, f>> : f \in F}
  OBVIOUS
<1>a. /\ DOMAIN D \ {<<FirstKey>>} = T /\ <<FirstKey>> \in DOMAIN D /\ D[<<FirstKey>>] = <<Cardinality(F), v, 0>>
      /\ \A f \in F : D[<<FirstKey, v, f>>] # NoRec
  BY <1>0 DEF HashIs, HashRecs
<1>b. IsFiniteSet(F)
  BY DEF HashIs, HashRecs
<1>1. FieldsAt(D, FirstKey, v) = T
  <2>1. ASSUME NEW k \in DOMAIN D PROVE (Len(k) = 3 /\ k[1] = FirstKey /\ k[2] = v) <=> k \in T
    <3>1. CASE k = <<FirstKey>>
      <4>1. Len(k) = 1
        BY <3>1
      <4>2. k \notin T
        BY <1>0, <3>1, KeysDiffer
      <4> QED
        BY <4>1, <4>2
    <3>2. CASE k \in T
      <4>1. PICK f \in F : k = <<FirstKey, v, f>>
        BY <1>0, <3>2
      <4> QED
        BY <3>2, <4>1
    <3> QED
      BY <1>a, <3>1, <3>2
  <2>2. T \subseteq DOMAIN D
    BY <1>a
  <2> QED
    BY <2>1, <2>2 DEF FieldsAt
<1>2. Cardinality(FieldsAt(D, FirstKey, v)) = Cardinality(F) /\ Cardinality(F) \in Nat
  <2>1. Cardinality(T) = Cardinality(F) /\ Cardinality(F) \in Nat
    <3>1. (\A f \in F : <<FirstKey, v, f>> \in T) /\ (\A z \in T : \E f \in F : z = <<FirstKey, v, f>>)
      BY <1>0
    <3> QED
      BY <1>b, <3>1, FieldsCounted
  <2> QED
    BY <1>1, <2>1
<1>3. DbGet(D, <<FirstKey>>) = <<Cardinality(F), v, 0>>
  BY <1>a DEF DbGet
<1>4. ASSUME NEW f PROVE <<FirstKey, v, f>> \in DOMAIN D <=> f \in F
  BY <1>0, <1>a, KeysDiffer
<1>5. ASSUME NEW f PROVE DbGet(D, BaseDataKey(FirstKey, v, f)) = NoRec <=> f \notin F
  BY <1>a, <1>4 DEF DbGet, BaseDataKey
<1> QED
  BY <1>0, <1>1, <1>2, <1>3, <1>4, <1>5

LEMMA HashPutsAre ==
    ASSUME NEW v, NEW vals
    PROVE  /\ DOMAIN HashPuts(FirstKey, v, vals) = {<<FirstKey, v, f>> : f \in DOMAIN vals}
           /\ \A f \in DOMAIN vals : HashPuts(FirstKey, v, vals)[<<FirstKey, v, f>>] = vals[f]
  BY DEF HashPuts, BaseDataKey

\* A batch with a meta record and elements of its version.
LEMMA HashPut ==
    ASSUME NEW D, NEW v, NEW F, HashRecs(D, v, F), NEW vals, IsFiniteSet(DOMAIN vals),
           \A f \in DOMAIN vals : vals[f] # NoRec,
           NEW meta, meta = <<Cardinality(F \cup DOMAIN vals), v, 0>>,
           NEW P, P = BothPuts(OnePut(<<FirstKey>>, meta), HashPuts(FirstKey, v, vals))
    PROVE  HashIs(ApplyBatch(D, P, {}), v, F \cup DOMAIN vals)
<1>1. PICK E : E = ApplyBatch(D, P, {})
  OBVIOUS
<1>2. PICK H : H = HashPuts(FirstKey, v, vals)
  OBVIOUS
<1>3. /\ DOMAIN H = {<<FirstKey, v, f>> : f \in DOMAIN vals}
      /\ \A f \in DOMAIN vals : H[<<FirstKey, v, f>>] = vals[f]
  BY <1>2, HashPutsAre
<1>4. /\ DOMAIN P = {<<FirstKey>>} \cup DOMAIN H /\ P[<<FirstKey>>] = meta
      /\ \A j \in DOMAIN H : j # <<FirstKey>> => P[j] = H[j]
  BY <1>2 DEF BothPuts, OnePut
<1>5. /\ DOMAIN E = DOMAIN D \cup DOMAIN P
      /\ \A k \in DOMAIN P : E[k] = P[k]
      /\ \A k \in DOMAIN D : k \notin DOMAIN P => E[k] = D[k]
  BY <1>1 DEF ApplyBatch
<1>6. <<FirstKey>> \in DOMAIN E /\ E[<<FirstKey>>] = meta
  BY <1>4, <1>5
<1>7. /\ DOMAIN D \ {<<FirstKey>>} = {<<FirstKey, v, f>> : f \in F}
      /\ \A f \in F : D[<<FirstKey, v, f>>] # NoRec
  BY DEF HashRecs
<1>8. DOMAIN E \ {<<FirstKey>>} = {<<FirstKey, v, f>> : f \in F \cup DOMAIN vals}
  BY <1>3, <1>4, <1>5, <1>7, KeysDiffer
<1>9. ASSUME NEW f \in F \cup DOMAIN vals PROVE E[<<FirstKey, v, f>>] # NoRec
  <2>0. <<FirstKey, v, f>> # <<FirstKey>>
    BY KeysDiffer
  <2>1. CASE f \in DOMAIN vals
    <3>1. <<FirstKey, v, f>> \in DOMAIN H /\ H[<<FirstKey, v, f>>] = vals[f]
      BY <1>3, <2>1
    <3> QED
      BY <1>4, <1>5, <2>0, <2>1, <3>1
  <2>2. CASE f \in F /\ f \notin DOMAIN vals
    <3>1. <<FirstKey, v, f>> \in DOMAIN D /\ D[<<FirstKey, v, f>>] # NoRec
      BY <1>7, <2>2
    <3>2. <<FirstKey, v, f>> \notin DOMAIN P
      BY <1>3, <1>4, <2>0, <2>2, KeysDiffer
    <3> QED
      BY <1>5, <3>1, <3>2
  <2> QED
    BY <2>1, <2>2
<1>10. v \in Nat \ {0} /\ IsFiniteSet(F \cup DOMAIN vals)
  BY FS_Union DEF HashRecs
<1> QED
  BY <1>1, <1>6, <1>8, <1>9, <1>10 DEF HashIs, HashRecs

\* New values for fields that are there.
LEMMA HashSame ==
    ASSUME NEW D, NEW v, NEW F, HashIs(D, v, F), NEW vals, DOMAIN vals \subseteq F,
           \A f \in DOMAIN vals : vals[f] # NoRec
    PROVE  HashIs(ApplyBatch(D, HashPuts(FirstKey, v, vals), {}), v, F)
<1>1. PICK E : E = ApplyBatch(D, HashPuts(FirstKey, v, vals), {})
  OBVIOUS
<1>2. PICK H : H = HashPuts(FirstKey, v, vals)
  OBVIOUS
<1>3. /\ DOMAIN H = {<<FirstKey, v, f>> : f \in DOMAIN vals}
      /\ \A f \in DOMAIN vals : H[<<FirstKey, v, f>>] = vals[f]
  BY <1>2, HashPutsAre
<1>4. /\ DOMAIN E = DOMAIN D \cup DOMAIN H
      /\ \A k \in DOMAIN H : E[k] = H[k]
      /\ \A k \in DOMAIN D : k \notin DOMAIN H => E[k] = D[k]
  BY <1>1, <1>2 DEF ApplyBatch
<1>5. /\ DOMAIN D \ {<<FirstKey>>} = {<<FirstKey, v, f>> : f \in F}
      /\ \A f \in F : D[<<FirstKey, v, f>>] # NoRec
      /\ <<FirstKey>> \in DOMAIN D /\ D[<<FirstKey>>] = <<Cardinality(F), v, 0>>
      /\ v \in Nat \ {0} /\ IsFiniteSet(F)
  BY DEF HashIs, HashRecs
<1>6. <<FirstKey>> \in DOMAIN E /\ E[<<FirstKey>>] = <<Cardinality(F), v, 0>>
  <2>1. <<FirstKey>> \notin DOMAIN H
    BY <1>3, KeysDiffer
  <2> QED
    BY <1>4, <1>5, <2>1
<1>7. DOMAIN E \ {<<FirstKey>>} = {<<FirstKey, v, f>> : f \in F}
  BY <1>3, <1>4, <1>5, KeysDiffer
<1>8. ASSUME NEW f \in F PROVE E[<<FirstKey, v, f>>] # NoRec
  <2>1. CASE f \in DOMAIN vals
    <3>1. <<FirstKey, v, f>> \in DOMAIN H /\ H[<<FirstKey, v, f>>] = vals[f]
      BY <1>3, <2>1
    <3> QED
      BY <1>4, <2>1, <3>1
  <2>2. CASE f \notin DOMAIN vals
    <3>1. <<FirstKey, v, f>> \in DOMAIN D /\ D[<<FirstKey, v, f>>] # NoRec
      BY <1>5
    <3>2. <<FirstKey, v, f>> \notin DOMAIN H
      BY <1>3, <2>2, KeysDiffer
    <3> QED
      BY <1>4, <3>1, <3>2
  <2> QED
    BY <2>1, <2>2
<1> QED
  BY <1>1, <1>5, <1>6, <1>7, <1>8 DEF HashIs, HashRecs

\* Some of the fields go.
LEMMA HashCut ==
    ASSUME NEW D, NEW v, NEW F, HashIs(D, v, F), NEW G, G \subseteq F,
           NEW meta, meta = <<Cardinality(F \ G), v, 0>>,
           NEW X, \A f \in G : <<FirstKey, v, f>> \in X, \A z \in X : \E f \in G : z = <<FirstKey, v, f>>
    PROVE  HashIs(ApplyBatch(D, OnePut(<<FirstKey>>, meta), X), v, F \ G)
<1>1. X = {<<FirstKey, v, f>> : f \in G}
  OBVIOUS
<1>2. PICK E : E = ApplyBatch(D, OnePut(<<FirstKey>>, meta), X)
  OBVIOUS
<1>3. /\ DOMAIN E = (DOMAIN D \ X) \cup {<<FirstKey>>} /\ E[<<FirstKey>>] = meta
      /\ \A k \in DOMAIN D \ X : k # <<FirstKey>> => E[k] = D[k]
  BY <1>2 DEF ApplyBatch, OnePut
<1>4. /\ DOMAIN D \ {<<FirstKey>>} = {<<FirstKey, v, f>> : f \in F}
      /\ \A f \in F : D[<<FirstKey, v, f>>] # NoRec
  BY DEF HashIs, HashRecs
<1>5. v \in Nat \ {0} /\ IsFiniteSet(F)
  BY DEF HashIs, HashRecs
<1>6. IsFiniteSet(F \ G)
  BY <1>5, FS_Difference
<1>7. DOMAIN E \ {<<FirstKey>>} = {<<FirstKey, v, f>> : f \in F \ G}
  BY <1>1, <1>3, <1>4, KeysDiffer
<1>8. ASSUME NEW f \in F \ G PROVE E[<<FirstKey, v, f>>] # NoRec
  <2>1. <<FirstKey, v, f>> \in DOMAIN D /\ <<FirstKey, v, f>> # <<FirstKey>> /\ D[<<FirstKey, v, f>>] # NoRec
    BY <1>4, KeysDiffer
  <2>2. <<FirstKey, v, f>> \notin X
    BY <1>1, KeysDiffer
  <2> QED
    BY <1>3, <2>1, <2>2
<1> QED
  BY <1>1, <1>2, <1>3, <1>5, <1>6, <1>7, <1>8 DEF HashIs, HashRecs

\* What the commands compute from a meta record.
LEMMA MetaIs ==
    ASSUME NEW c, NEW v, NEW ts, NEW m, m = <<c, v, ts>>, NEW n
    PROVE  /\ Meta(m).count = c /\ Meta(m).version = v /\ Meta(m).timestamp = ts /\ m # NoRec
           /\ ts = 0 => (Shows(m, n) <=> c # 0)
           /\ \A j : ToBase(ModifyCount(Meta(m), j)) = <<c + j, v, ts>>
           /\ ToBase(InitialMetaValue(Meta(m), n)) = <<0, UpdateVersion(v, n), 0>>
           /\ InitialMetaValue(Meta(m), n).version = UpdateVersion(v, n)
           /\ InitialMetaValue(Meta(m), n) = [count |-> 0, version |-> UpdateVersion(v, n), timestamp |-> 0]
           /\ Meta(m) = [count |-> c, version |-> v, timestamp |-> ts]
<1>1. Meta(m) = [count |-> c, version |-> v, timestamp |-> ts] /\ m # NoRec
  BY BaseParsed
<1>3. ts = 0 => (Shows(m, n) <=> c # 0)
  BY <1>1 DEF Shows, Readable, IsStale
<1>4. \A j : ToBase(ModifyCount(Meta(m), j)) = <<c + j, v, ts>>
  BY <1>1 DEF ToBase, BaseMetaValue, ModifyCount
<1>5. PICK i : i = InitialMetaValue(Meta(m), n)
  OBVIOUS
<1>6. i = [count |-> 0, version |-> UpdateVersion(v, n), timestamp |-> 0]
  <2>1. i = [Meta(m) EXCEPT !.count = 0, !.timestamp = 0, !.version = UpdateVersion(Meta(m).version, n)]
    BY <1>5 DEF InitialMetaValue
  <2>2. Meta(m).version = v
    BY <1>1
  <2> QED
    BY <1>1, <2>1, <2>2
<1>9. ToBase(i) = <<0, UpdateVersion(v, n), 0>> /\ i.version = UpdateVersion(v, n)
  BY <1>6 DEF ToBase, BaseMetaValue
<1>10. Meta(m).count = c /\ Meta(m).version = v /\ Meta(m).timestamp = ts
  BY <1>1
<1> QED
  BY <1>1, <1>3, <1>4, <1>5, <1>6, <1>9, <1>10

LEMMA CountSet ==
    ASSUME NEW c, NEW v, NEW ts, NEW i, i = [count |-> c, version |-> v, timestamp |-> ts], NEW j
    PROVE  ToBase([i EXCEPT !.count = j]) = <<j, v, ts>>
  BY DEF ToBase, BaseMetaValue

\* A hash without fields has no record of any other version either.
LEMMA HashStarts ==
    ASSUME NEW D, NEW w \in Nat \ {0}, DOMAIN D = {} \/ \E v : HashIs(D, v, {})
    PROVE  HashRecs(D, w, {})
<1>1. IsFiniteSet({})
  BY FS_EmptySet
<1>2. DOMAIN D \ {<<FirstKey>>} = {}
  BY DEF HashIs, HashRecs
<1> QED
  BY <1>1, <1>2 DEF HashRecs

IsFcn(D) == D = [k \in DOMAIN D |-> D[k]]
After(D, r) == ApplyBatch(D, r.puts, r.dels)

LEMMA BatchFcn == \A D, r : IsFcn(After(D, r))
  BY DEF IsFcn, After, ApplyBatch

LEMMA BatchWritten ==
    ASSUME NEW D, NEW ret, NEW P, NEW X
    PROVE  After(D, WriteBatch(ret, P, X)) = ApplyBatch(D, P, X)
  BY DEF After, WriteBatch

LEMMA NothingWritten ==
    ASSUME NEW D, IsFcn(D), NEW st, NEW ret
    PROVE  After(D, Return(st, ret)) = D /\ After(D, NotFound(ret)) = D
<1>1. ApplyBatch(D, None, {}) = [k \in DOMAIN D |-> D[k]]
  BY DEF ApplyBatch, None
<1> QED
  BY <1>1 DEF After, IsFcn, Return, NotFound

\* HSet: one field more, or another value for a field.
LEMMA HSetKept ==
    ASSUME NEW D, IsFcn(D), HashOK(D), NEW a, a.value # NoRec, NEW n \in Nat,
           NEW r, r = HSet(DbGet(D, <<FirstKey>>), D, FirstKey, a, n)
    PROVE  HashOK(After(D, r))
<1>1. PICK m : m = DbGet(D, <<FirstKey>>)
  OBVIOUS
<1>2. PICK vals : vals = OnePut(a.field, a.value)
  OBVIOUS
<1>3. DOMAIN vals = {a.field} /\ (\A f \in DOMAIN vals : vals[f] # NoRec) /\ IsFiniteSet(DOMAIN vals) /\ Cardinality(DOMAIN vals) = 1
  <2>1. DOMAIN vals = {a.field} /\ vals[a.field] = a.value
    BY <1>2, OnePutIs
  <2> QED
    BY <2>1, FS_Singleton
<1>4. PICK first : first = UpdateVersion(0, n)
  OBVIOUS
<1>5. first \in Nat \ {0}
  BY <1>4, VersionGrows
<1>6. CASE DOMAIN D = {}
  <2>1. m = NoRec
    BY <1>1, <1>6 DEF DbGet
  <2>2. PICK meta : meta = <<1, first, 0>>
    OBVIOUS
  <2>3. PICK P : P = BothPuts(OnePut(<<FirstKey>>, meta), HashPuts(FirstKey, first, vals))
    OBVIOUS
  <2>4. r = WriteBatch(1, P, {})
    BY <1>1, <1>2, <1>4, <2>1, <2>2, <2>3 DEF HSet, BaseMetaValue
  <2>5. HashRecs(D, first, {})
    BY <1>5, <1>6, HashStarts
  <2>6. meta = <<Cardinality({} \cup DOMAIN vals), first, 0>>
    BY <1>3, <2>2
  <2>7. HashIs(ApplyBatch(D, P, {}), first, {} \cup DOMAIN vals)
    BY <1>3, <2>3, <2>5, <2>6, HashPut
  <2> QED
    BY <2>4, <2>7, BatchWritten DEF HashOK
<1>7. CASE \E v, F : HashIs(D, v, F)
  <2>1. PICK v, F : HashIs(D, v, F)
    BY <1>7
  <2>2. /\ m = <<Cardinality(F), v, 0>> /\ Cardinality(F) \in Nat /\ v \in Nat \ {0} /\ IsFiniteSet(F)
        /\ \A f : DbGet(D, BaseDataKey(FirstKey, v, f)) = NoRec <=> f \notin F
    BY <1>1, <2>1, FieldsFound DEF HashIs, HashRecs
  <2>3. PICK w : w = UpdateVersion(v, n)
    OBVIOUS
  <2>4. w \in Nat \ {0}
    BY <2>2, <2>3, VersionGrows
  <2>5. CASE F = {}
    <3>1. PICK meta : meta = <<1, w, 0>>
      OBVIOUS
    <3>2. PICK P : P = BothPuts(OnePut(<<FirstKey>>, meta), HashPuts(FirstKey, w, vals))
      OBVIOUS
    <3>3. Cardinality(F) = 0
      BY <2>5, FS_EmptySet
    <3>4. m # NoRec /\ ~Shows(m, n)
      BY <2>2, <3>3, MetaIs
    <3>a. m = <<Cardinality(F), v, 0>>
      BY <2>2
    <3>b. ToBase([InitialMetaValue(Meta(m), n) EXCEPT !.count = 1]) = meta
      BY <2>3, <3>1, <3>a, MetaIs, CountSet, SMTT(40)
    <3>c. InitialMetaValue(Meta(m), n).version = w
      BY <2>3, <3>a, MetaIs
    <3>5. /\ ToBase([InitialMetaValue(Meta(m), n) EXCEPT !.count = 1]) = meta
          /\ InitialMetaValue(Meta(m), n).version = w
      BY <3>b, <3>c
    <3>6. r = WriteBatch(1, P, {})
      BY <1>1, <1>2, <3>2, <3>4, <3>5 DEF HSet
    <3>7. HashRecs(D, w, {})
      BY <2>1, <2>4, <2>5, HashStarts
    <3>8. meta = <<Cardinality({} \cup DOMAIN vals), w, 0>>
      BY <1>3, <3>1
    <3>9. HashIs(ApplyBatch(D, P, {}), w, {} \cup DOMAIN vals)
      BY <1>3, <3>2, <3>7, <3>8, HashPut
    <3> QED
      BY <3>6, <3>9, BatchWritten DEF HashOK
  <2>6. CASE F # {}
    <3>1. Cardinality(F) # 0
      BY <2>2, <2>6, FS_EmptySet
    <3>2. m # NoRec /\ Shows(m, n) /\ Meta(m).version = v
      BY <2>2, <3>1, MetaIs
    <3>3. PICK old : old = DbGet(D, BaseDataKey(FirstKey, v, a.field))
      OBVIOUS
    <3>4. CASE old = a.value
      <4>1. r = Return("OK", 0)
        BY <1>1, <3>2, <3>3, <3>4 DEF HSet
      <4>2. After(D, r) = D
        BY <4>1, NothingWritten
      <4> QED
        BY <4>2
    <3>5. CASE old # a.value /\ old # NoRec
      <4>1. r = WriteBatch(0, HashPuts(FirstKey, v, vals), {})
        BY <1>1, <1>2, <3>2, <3>3, <3>5 DEF HSet
      <4>2. DOMAIN vals \subseteq F
        BY <1>3, <2>2, <3>3, <3>5
      <4>3. HashIs(ApplyBatch(D, HashPuts(FirstKey, v, vals), {}), v, F)
        BY <1>3, <2>1, <4>2, HashSame
      <4> QED
        BY <4>1, <4>3, BatchWritten DEF HashOK
    <3>6. CASE old # a.value /\ old = NoRec
      <4>1. PICK meta : meta = <<Cardinality(F) + 1, v, 0>>
        OBVIOUS
      <4>2. PICK P : P = BothPuts(OnePut(<<FirstKey>>, meta), HashPuts(FirstKey, v, vals))
        OBVIOUS
      <4>3. ToBase(ModifyCount(Meta(m), 1)) = meta
        BY <2>2, <4>1, MetaIs
      <4>4. r = WriteBatch(1, P, {})
        BY <1>1, <1>2, <3>2, <3>3, <3>6, <4>2, <4>3 DEF HSet
      <4>5. a.field \notin F
        BY <2>2, <3>3, <3>6
      <4>6. Cardinality(F \cup DOMAIN vals) = Cardinality(F) + 1
        BY <1>3, <2>2, <4>5, FS_AddElement
      <4>7. meta = <<Cardinality(F \cup DOMAIN vals), v, 0>>
        BY <4>1, <4>6
      <4>8. HashIs(ApplyBatch(D, P, {}), v, F \cup DOMAIN vals)
        BY <1>3, <2>1, <4>2, <4>7, HashPut DEF HashIs
      <4> QED
        BY <4>4, <4>8, BatchWritten DEF HashOK
    <3> QED
      BY <3>4, <3>5, <3>6
  <2> QED
    BY <2>5, <2>6
<1> QED
  BY <1>6, <1>7 DEF HashOK

LEMMA CountJoined ==
    ASSUME NEW S, NEW T, IsFiniteSet(S), IsFiniteSet(T)
    PROVE  /\ IsFiniteSet(S \cup T) /\ IsFiniteSet(T \ S) /\ Cardinality(S \cup T) = Cardinality(S) + Cardinality(T \ S)
           /\ Cardinality(T \ S) \in Nat
<1>1. IsFiniteSet(T \ S)
  BY FS_Difference
<1>2. S \cup T = S \cup (T \ S) /\ S \cap (T \ S) = {}
  OBVIOUS
<1>3. /\ IsFiniteSet(S \cup (T \ S))
      /\ Cardinality(S \cup (T \ S)) = Cardinality(S) + Cardinality(T \ S) - Cardinality(S \cap (T \ S))
  BY <1>1, FS_Union
<1>4. Cardinality(S) \in Nat /\ Cardinality(T \ S) \in Nat /\ Cardinality({}) = 0
  BY <1>1, FS_CardinalityType, FS_EmptySet
<1>5. Cardinality(S \cap (T \ S)) = 0 /\ Cardinality(S \cup T) = Cardinality(S \cup (T \ S)) /\ IsFiniteSet(S \cup T)
  BY <1>2, <1>3, <1>4
<1> QED
  BY <1>1, <1>3, <1>4, <1>5

\* A batch that starts a hash or a set afresh under a version.
LEMMA HashStarted ==
    ASSUME NEW D, DOMAIN D = {} \/ \E v : HashIs(D, v, {}), NEW w \in Nat \ {0},
           NEW vals, IsFiniteSet(DOMAIN vals), \A f \in DOMAIN vals : vals[f] # NoRec
    PROVE  HashIs(ApplyBatch(D, BothPuts(OnePut(<<FirstKey>>, <<Cardinality(DOMAIN vals), w, 0>>),
                                         HashPuts(FirstKey, w, vals)), {}), w, DOMAIN vals)
<1>1. PICK meta : meta = <<Cardinality({} \cup DOMAIN vals), w, 0>>
  OBVIOUS
<1>2. PICK P : P = BothPuts(OnePut(<<FirstKey>>, meta), HashPuts(FirstKey, w, vals))
  OBVIOUS
<1>3. HashRecs(D, w, {})
  BY HashStarts
<1>4. {} \cup DOMAIN vals = DOMAIN vals
  OBVIOUS
<1>5. HashIs(ApplyBatch(D, P, {}), w, {} \cup DOMAIN vals)
  BY <1>1, <1>2, <1>3, HashPut
<1> QED
  BY <1>1, <1>2, <1>4, <1>5

\* HMSet counts the fields that were not there.
LEMMA HMSetKept ==
    ASSUME NEW D, HashOK(D), NEW a, IsFiniteSet(HMSetFields(a.fvs)),
           \A f \in HMSetFields(a.fvs) : HMSetValue(a.fvs, f) # NoRec, NEW n \in Nat,
           NEW r, r = HMSet(DbGet(D, <<FirstKey>>), D, FirstKey, a, n)
    PROVE  HashOK(After(D, r))
<1>1. PICK m : m = DbGet(D, <<FirstKey>>)
  OBVIOUS
<1>2. PICK vals : vals = HMSetValues(a.fvs)
  OBVIOUS
<1>3. DOMAIN vals = HMSetFields(a.fvs) /\ (\A f \in DOMAIN vals : vals[f] # NoRec) /\ IsFiniteSet(DOMAIN vals)
  BY <1>2 DEF HMSetValues
<1>4. PICK first : first = UpdateVersion(0, n)
  OBVIOUS
<1>5. first \in Nat \ {0}
  BY <1>4, VersionGrows
<1>6. PICK nn : nn = Cardinality(DOMAIN vals)
  OBVIOUS
<1>7. CASE DOMAIN D = {}
  <2>1. m = NoRec
    BY <1>1, <1>7 DEF DbGet
  <2>2. PICK P : P = BothPuts(OnePut(<<FirstKey>>, <<nn, first, 0>>), HashPuts(FirstKey, first, vals))
    OBVIOUS
  <2>3. r = WriteBatch(0, P, {})
    BY <1>1, <1>2, <1>3, <1>4, <1>6, <2>1, <2>2 DEF HMSet, BaseMetaValue
  <2>4. HashIs(ApplyBatch(D, P, {}), first, DOMAIN vals)
    BY <1>3, <1>5, <1>6, <1>7, <2>2, HashStarted
  <2> QED
    BY <2>3, <2>4, BatchWritten DEF HashOK
<1>8. CASE \E v, F : HashIs(D, v, F)
  <2>1. PICK v, F : HashIs(D, v, F)
    BY <1>8
  <2>2. /\ m = <<Cardinality(F), v, 0>> /\ Cardinality(F) \in Nat /\ v \in Nat \ {0} /\ IsFiniteSet(F)
        /\ \A f : DbGet(D, BaseDataKey(FirstKey, v, f)) = NoRec <=> f \notin F
    BY <1>1, <2>1, FieldsFound DEF HashIs, HashRecs
  <2>3. m = <<Cardinality(F), v, 0>>
    BY <2>2
  <2>4. m # NoRec /\ (Shows(m, n) <=> Cardinality(F) # 0) /\ Meta(m).version = v
    BY <2>3, MetaIs
  <2>5. PICK w : w = UpdateVersion(v, n)
    OBVIOUS
  <2>6. w \in Nat \ {0}
    BY <2>2, <2>5, VersionGrows
  <2>7. CASE F = {}
    <3>1. ~Shows(m, n)
      BY <2>4, <2>7, FS_EmptySet
    <3>2. ToBase([InitialMetaValue(Meta(m), n) EXCEPT !.count = nn]) = <<nn, w, 0>>
      <4>1. PICK i : i = InitialMetaValue(Meta(m), n)
        OBVIOUS
      <4>2. i = [count |-> 0, version |-> w, timestamp |-> 0]
        BY <2>3, <2>5, <4>1, MetaIs
      <4> QED
        BY <4>1, <4>2, CountSet
    <3>3. InitialMetaValue(Meta(m), n).version = w
      BY <2>3, <2>5, MetaIs
    <3>4. PICK P : P = BothPuts(OnePut(<<FirstKey>>, <<nn, w, 0>>), HashPuts(FirstKey, w, vals))
      OBVIOUS
    <3>5. r = WriteBatch(0, P, {})
      BY <1>1, <1>2, <1>3, <1>6, <2>4, <3>1, <3>2, <3>3, <3>4 DEF HMSet
    <3>6. HashIs(ApplyBatch(D, P, {}), w, DOMAIN vals)
      BY <1>3, <1>6, <2>1, <2>6, <2>7, <3>4, HashStarted
    <3> QED
      BY <3>5, <3>6, BatchWritten DEF HashOK
  <2>8. CASE F # {}
    <3>1. Shows(m, n)
      BY <2>2, <2>4, <2>8, FS_EmptySet
    <3>2. PICK added : added = {f \in DOMAIN vals : DbGet(D, BaseDataKey(FirstKey, v, f)) = NoRec}
      OBVIOUS
    <3>3. added = DOMAIN vals \ F
      BY <2>2, <3>2
    <3>4. Cardinality(F \cup DOMAIN vals) = Cardinality(F) + Cardinality(added)
      BY <1>3, <2>2, <3>3, CountJoined
    <3>5. PICK meta : meta = <<Cardinality(F \cup DOMAIN vals), v, 0>>
      OBVIOUS
    <3>6. ToBase(ModifyCount(Meta(m), Cardinality(added))) = meta
      BY <2>3, <3>4, <3>5, MetaIs
    <3>7. PICK P : P = BothPuts(OnePut(<<FirstKey>>, meta), HashPuts(FirstKey, v, vals))
      OBVIOUS
    <3>8. r = WriteBatch(0, P, {})
      BY <1>1, <1>2, <1>3, <2>4, <3>1, <3>2, <3>6, <3>7 DEF HMSet
    <3>9. HashIs(ApplyBatch(D, P, {}), v, F \cup DOMAIN vals)
      BY <1>3, <2>1, <3>5, <3>7, HashPut, SMTT(40) DEF HashIs
    <3> QED
      BY <3>8, <3>9, BatchWritten DEF HashOK
  <2> QED
    BY <2>7, <2>8
<1> QED
  BY <1>7, <1>8 DEF HashOK

\* HDel, when the fields it names are there in its snapshot and in the
\* database alike: the meta record tells how many are left.
LEMMA HDelKept ==
    ASSUME NEW D, IsFcn(D), HashOK(D), NEW d, NEW a, NEW n, NEW m, m = DbGet(D, <<FirstKey>>),
           m # NoRec => \A f \in a.fields : BaseDataKey(FirstKey, Meta(m).version, f) \in DOMAIN d
                                         <=> BaseDataKey(FirstKey, Meta(m).version, f) \in DOMAIN D,
           NEW r, r = HDel(m, d, FirstKey, a, n)
    PROVE  \/ After(D, r) = D
           \/ \E v, F, G : /\ HashIs(D, v, F) /\ HashIs(After(D, r), v, G)
                           /\ Cardinality(G) < Cardinality(F)
<1>1. CASE ~Shows(m, n)
  <2>1. r = Return("OK", 0)
    BY <1>1 DEF HDel
  <2> QED
    BY <2>1, NothingWritten
<1>2. CASE Shows(m, n)
  <2>1. m # NoRec
    BY <1>2 DEF Shows
  <2>2. <<FirstKey>> \in DOMAIN D
    BY <2>1 DEF DbGet
  <2>3. PICK v, F : HashIs(D, v, F)
    BY <2>2 DEF HashOK
  <2>4. /\ m = <<Cardinality(F), v, 0>> /\ Cardinality(F) \in Nat /\ v \in Nat \ {0} /\ IsFiniteSet(F)
        /\ \A f : <<FirstKey, v, f>> \in DOMAIN D <=> f \in F
    BY <2>3, FieldsFound DEF HashIs, HashRecs
  <2>5. m = <<Cardinality(F), v, 0>>
    BY <2>4
  <2>6. Meta(m).version = v
    BY <2>5, MetaIs
  <2>7. PICK G : G = a.fields \cap F
    OBVIOUS
  <2>8. PICK gone : gone = {BaseDataKey(FirstKey, v, f) : f \in a.fields} \cap DOMAIN d
    OBVIOUS
  <2>9. gone = {<<FirstKey, v, f>> : f \in G}
    BY <2>1, <2>4, <2>6, <2>7, <2>8 DEF BaseDataKey
  <2>10. IsFiniteSet(G) /\ IsFiniteSet(F \ G)
    BY <2>4, <2>7, FS_Subset, FS_Difference
  <2>11. Cardinality(gone) = Cardinality(G) /\ Cardinality(G) \in Nat
    <3>1. (\A f \in G : <<FirstKey, v, f>> \in gone) /\ (\A z \in gone : \E f \in G : z = <<FirstKey, v, f>>)
      BY <2>9
    <3> QED
      BY <2>10, <3>1, FieldsCounted
  <2>12. Cardinality(F) = Cardinality(G) + Cardinality(F \ G) /\ Cardinality(F \ G) \in Nat
    <3>1. G \cup F = F
      BY <2>7
    <3> QED
      BY <2>4, <2>10, <3>1, CountJoined
  <2>13. ToBase(ModifyCount(Meta(m), -Cardinality(gone))) = <<Cardinality(F \ G), v, 0>>
    <3>1. ToBase(ModifyCount(Meta(m), -Cardinality(gone))) = <<Cardinality(F) + (-Cardinality(gone)), v, 0>>
      BY <2>5, MetaIs
    <3>2. Cardinality(F) + (-Cardinality(gone)) = Cardinality(F \ G)
      BY <2>4, <2>11, <2>12
    <3> QED
      BY <3>1, <3>2
  <2>14. PICK meta : meta = <<Cardinality(F \ G), v, 0>>
    OBVIOUS
  <2>15. r = WriteBatch(Cardinality(gone), OnePut(<<FirstKey>>, meta), gone)
    BY <1>2, <2>6, <2>8, <2>13, <2>14 DEF HDel
  <2>16. After(D, r) = ApplyBatch(D, OnePut(<<FirstKey>>, meta), gone)
    BY <2>15, BatchWritten
  <2>17. HashIs(After(D, r), v, F \ G)
    <3>1. G \subseteq F /\ (\A f \in G : <<FirstKey, v, f>> \in gone) /\ (\A z \in gone : \E f \in G : z = <<FirstKey, v, f>>)
      BY <2>7, <2>9
    <3>2. HashIs(ApplyBatch(D, OnePut(<<FirstKey>>, meta), gone), v, F \ G)
      BY <2>3, <2>14, <3>1, HashCut
    <3> QED
      BY <2>16, <3>2
  <2>18. CASE G = {}
    <3>1. gone = {} /\ F \ G = F
      BY <2>9, <2>18
    <3>2. D[<<FirstKey>>] = meta
      BY <2>3, <2>14, <3>1 DEF HashIs
    <3>3. ApplyBatch(D, OnePut(<<FirstKey>>, meta), {}) = [k \in DOMAIN D |-> D[k]]
      BY <2>2, <3>2 DEF ApplyBatch, OnePut
    <3> QED
      BY <2>16, <3>1, <3>3 DEF IsFcn
  <2>19. CASE G # {}
    <3>1. Cardinality(G) # 0
      BY <2>10, <2>19, FS_EmptySet
    <3>2. Cardinality(F \ G) < Cardinality(F)
      BY <2>11, <2>12, <3>1
    <3> QED
      BY <2>3, <2>17, <3>2
  <2> QED
    BY <2>18, <2>19
<1> QED
  BY <1>1, <1>2

\* HashDel leaves no record behind.
LEMMA HashDelKept ==
    ASSUME NEW D, IsFcn(D), HashOK(D), NEW n, NEW r, r = HashDel(DbGet(D, <<FirstKey>>), D, FirstKey, n)
    PROVE  HashOK(After(D, r))
<1>1. PICK m : m = DbGet(D, <<FirstKey>>)
  OBVIOUS
<1>2. CASE m = NoRec
  <2>1. r = WriteBatch(0, None, {})
    BY <1>1, <1>2 DEF HashDel
  <2>2. r.puts = None /\ r.dels = {}
    BY <2>1 DEF WriteBatch
  <2>3. ApplyBatch(D, None, {}) = [k \in DOMAIN D |-> D[k]]
    BY DEF ApplyBatch, None
  <2>4. After(D, r) = D
    BY <2>2, <2>3 DEF After, IsFcn
  <2> QED
    BY <2>4
<1>3. CASE m # NoRec /\ ~Shows(m, n)
  <2>1. r = NotFound(0)
    BY <1>1, <1>3 DEF HashDel
  <2> QED
    BY <2>1, NothingWritten
<1>4. CASE m # NoRec /\ Shows(m, n)
  <2>1. <<FirstKey>> \in DOMAIN D
    BY <1>1, <1>4 DEF DbGet
  <2>2. PICK v, F : HashIs(D, v, F)
    BY <2>1 DEF HashOK
  <2>3. m = <<Cardinality(F), v, 0>> /\ FieldsAt(D, FirstKey, v) = {<<FirstKey, v, f>> : f \in F}
    BY <1>1, <2>2, FieldsFound
  <2>4. Meta(m).version = v
    BY <2>3, MetaIs
  <2>5. r = WriteBatch(0, None, {<<FirstKey>>} \cup FieldsAt(D, FirstKey, v))
    BY <1>1, <1>4, <2>4 DEF HashDel
  <2>6. DOMAIN D \ {<<FirstKey>>} = FieldsAt(D, FirstKey, v)
    BY <2>2, <2>3 DEF HashIs, HashRecs
  <2>7. DOMAIN ApplyBatch(D, None, {<<FirstKey>>} \cup FieldsAt(D, FirstKey, v)) = {}
    BY <2>6 DEF ApplyBatch, None
  <2> QED
    BY <2>5, <2>7, BatchWritten DEF HashOK
<1> QED
  BY <1>2, <1>3, <1>4

LEMMA SetPutsAre ==
    ASSUME NEW v, NEW M
    PROVE  /\ SetPuts(FirstKey, v, M) = HashPuts(FirstKey, v, [x \in M |-> <<"present">>])
           /\ DOMAIN [x \in M |-> <<"present">>] = M
           /\ \A x \in M : [y \in M |-> <<"present">>][x] # NoRec
<1>1. ASSUME NEW k \in {<<FirstKey, v, x>> : x \in M} PROVE k[3] \in M
  <2>1. PICK x \in M : k = <<FirstKey, v, x>>
    OBVIOUS
  <2> QED
    BY <2>1
<1> QED
  BY <1>1 DEF SetPuts, HashPuts, BaseDataKey, NoRec

\* SAdd into a set that was never deleted: it always has members.
LEMMA SAddKept ==
    ASSUME NEW D, IsFcn(D), SetOK(D), NEW a, IsFiniteSet(a.members), a.members # {}, NEW n \in Nat,
           NEW r, r = SAdd(DbGet(D, <<FirstKey>>), D, FirstKey, a, n)
    PROVE  SetOK(After(D, r))
<1>1. PICK m : m = DbGet(D, <<FirstKey>>)
  OBVIOUS
<1>2. PICK M : M = a.members
  OBVIOUS
<1>3. CASE DOMAIN D = {}
  <2>1. m = NoRec
    BY <1>1, <1>3 DEF DbGet
  <2>2. PICK first : first = UpdateVersion(0, n)
    OBVIOUS
  <2>3. first \in Nat \ {0}
    BY <2>2, VersionGrows
  <2>4. PICK vals : vals = [x \in M |-> <<"present">>]
    OBVIOUS
  <2>5. /\ SetPuts(FirstKey, first, M) = HashPuts(FirstKey, first, vals)
        /\ DOMAIN vals = M /\ \A x \in DOMAIN vals : vals[x] # NoRec
    BY <2>4, SetPutsAre
  <2>6. PICK P : P = BothPuts(OnePut(<<FirstKey>>, <<Cardinality(M), first, 0>>), HashPuts(FirstKey, first, vals))
    OBVIOUS
  <2>7. r = WriteBatch(Cardinality(M), P, {})
    BY <1>1, <1>2, <2>1, <2>2, <2>5, <2>6 DEF SAdd, BaseMetaValue
  <2>8. HashIs(ApplyBatch(D, P, {}), first, M)
    BY <1>2, <1>3, <2>3, <2>5, <2>6, HashStarted
  <2>9. M # {} /\ After(D, r) = ApplyBatch(D, P, {})
    BY <1>2, <2>7, BatchWritten
  <2> QED
    BY <2>8, <2>9 DEF SetOK
<1>4. CASE \E v, F : HashIs(D, v, F) /\ F # {}
  <2>1. PICK v, F : HashIs(D, v, F) /\ F # {}
    BY <1>4
  <2>2. /\ m = <<Cardinality(F), v, 0>> /\ Cardinality(F) \in Nat /\ v \in Nat \ {0} /\ IsFiniteSet(F)
        /\ \A f : DbGet(D, BaseDataKey(FirstKey, v, f)) = NoRec <=> f \notin F
    BY <1>1, <2>1, FieldsFound DEF HashIs, HashRecs
  <2>3. m = <<Cardinality(F), v, 0>>
    BY <2>2
  <2>4. m # NoRec /\ Shows(m, n) /\ Meta(m).version = v
    <3>1. Cardinality(F) # 0
      BY <2>1, <2>2, FS_EmptySet
    <3> QED
      BY <2>3, <3>1, MetaIs
  <2>5. PICK added : added = {x \in M : DbGet(D, BaseDataKey(FirstKey, v, x)) = NoRec}
    OBVIOUS
  <2>6. added = M \ F
    BY <2>2, <2>5
  <2>7. CASE added = {}
    <3>1. r = Return("OK", 0)
      BY <1>1, <1>2, <2>4, <2>5, <2>7 DEF SAdd
    <3> QED
      BY <3>1, NothingWritten
  <2>8. CASE added # {}
    <3>1. PICK vals : vals = [x \in added |-> <<"present">>]
      OBVIOUS
    <3>2. /\ SetPuts(FirstKey, v, added) = HashPuts(FirstKey, v, vals)
          /\ DOMAIN vals = added /\ \A x \in DOMAIN vals : vals[x] # NoRec
      BY <3>1, SetPutsAre
    <3>3. IsFiniteSet(added)
      BY <1>2, <2>6, FS_Difference
    <3>4. Cardinality(F \cup added) = Cardinality(F) + Cardinality(added)
      <4>1. added \ F = added
        BY <2>6
      <4> QED
        BY <2>2, <3>3, <4>1, CountJoined
    <3>5. PICK meta : meta = <<Cardinality(F \cup added), v, 0>>
      OBVIOUS
    <3>6. ToBase(ModifyCount(Meta(m), Cardinality(added))) = meta
      BY <2>3, <3>4, <3>5, MetaIs
    <3>7. PICK P : P = BothPuts(OnePut(<<FirstKey>>, meta), HashPuts(FirstKey, v, vals))
      OBVIOUS
    <3>8. r = WriteBatch(Cardinality(added), P, {})
      BY <1>1, <1>2, <2>4, <2>5, <2>8, <3>2, <3>6, <3>7 DEF SAdd
    <3>9. HashIs(ApplyBatch(D, P, {}), v, F \cup added)
      BY <2>1, <3>2, <3>3, <3>5, <3>7, HashPut DEF HashIs
    <3>10. F \cup added # {}
      BY <2>1
    <3> QED
      BY <3>8, <3>9, <3>10, BatchWritten, ZenonT(40) DEF SetOK
  <2> QED
    BY <2>7, <2>8
<1> QED
  BY <1>3, <1>4 DEF SetOK

LEMMA SetDelKept ==
    ASSUME NEW D, IsFcn(D), NEW m, NEW n, NEW r, r = SetDel(m, FirstKey, n)
    PROVE  r.status = "OK" \/ After(D, r) = D
<1>1. CASE ~Shows(m, n)
  BY <1>1, NothingWritten DEF SetDel
<1>2. CASE Shows(m, n)
  BY <1>2 DEF SetDel, WriteBatch
<1> QED
  BY <1>1, <1>2

-----------------------------------------------------------------------------
(* Lists.                                                                  *)

\* The element records under the newest version are those from l + 1 to
\* l + c; older versions may have left records behind.
ListRecs(D, v, l, c) ==
    /\ v \in Nat \ {0} /\ l \in Int /\ c \in Nat
    /\ \A k \in DOMAIN D : k = <<FirstKey, 0, 0>> \/ \E w \in 1 .. v, i \in Int : k = <<FirstKey, w, i>>
    /\ \A i \in Int : <<FirstKey, v, i>> \in DOMAIN D <=> l < i /\ i <= l + c

ListIs(D, v, l, c, rt) ==
    /\ ListRecs(D, v, l, c) /\ rt \in Int
    /\ <<FirstKey, 0, 0>> \in DOMAIN D /\ D[<<FirstKey, 0, 0>>] = <<c, v, 0, l, rt>>
ListOK(D, del) ==
    \/ DOMAIN D = {} /\ ~del
    \/ \E v, l, c, rt : ListIs(D, v, l, c, rt) /\ (del => rt = l + c + 1)

\* A batch with a meta record and the elements from a to b.
ListBatch(P, v, a, b, meta) ==
    /\ \A k \in DOMAIN P : k = <<FirstKey, 0, 0>> \/ \E i \in Int : a <= i /\ i <= b /\ k = <<FirstKey, v, i>>
    /\ \A i \in Int : a <= i /\ i <= b => <<FirstKey, v, i>> \in DOMAIN P
    /\ <<FirstKey, 0, 0>> \in DOMAIN P /\ P[<<FirstKey, 0, 0>>] = meta

LEMMA ListWritten ==
    ASSUME NEW D, NEW v, NEW l, NEW c, ListRecs(D, v, l, c), NEW a \in Int, NEW b \in Int,
           NEW l2 \in Int, NEW c2 \in Nat, NEW rt \in Int,
           \A i \in Int : (l < i /\ i <= l + c) \/ (a <= i /\ i <= b) <=> l2 < i /\ i <= l2 + c2,
           NEW P, ListBatch(P, v, a, b, <<c2, v, 0, l2, rt>>)
    PROVE  ListIs(ApplyBatch(D, P, {}), v, l2, c2, rt)
<1>1. PICK E : E = ApplyBatch(D, P, {})
  OBVIOUS
<1>2. DOMAIN E = DOMAIN D \cup DOMAIN P /\ \A k \in DOMAIN P : E[k] = P[k]
  BY <1>1 DEF ApplyBatch
<1>3. /\ v \in Nat \ {0} /\ l \in Int /\ c \in Nat
      /\ \A k \in DOMAIN D : k = <<FirstKey, 0, 0>> \/ \E w \in 1 .. v, i \in Int : k = <<FirstKey, w, i>>
      /\ \A i \in Int : <<FirstKey, v, i>> \in DOMAIN D <=> l < i /\ i <= l + c
  BY DEF ListRecs
<1>4. /\ \A k \in DOMAIN P : k = <<FirstKey, 0, 0>> \/ \E i \in Int : a <= i /\ i <= b /\ k = <<FirstKey, v, i>>
      /\ \A i \in Int : a <= i /\ i <= b => <<FirstKey, v, i>> \in DOMAIN P
      /\ <<FirstKey, 0, 0>> \in DOMAIN P /\ P[<<FirstKey, 0, 0>>] = <<c2, v, 0, l2, rt>>
  BY DEF ListBatch
<1>5. <<FirstKey, 0, 0>> \in DOMAIN E /\ E[<<FirstKey, 0, 0>>] = <<c2, v, 0, l2, rt>>
  BY <1>2, <1>4
<1>6. ASSUME NEW k \in DOMAIN E
      PROVE  k = <<FirstKey, 0, 0>> \/ \E w \in 1 .. v, i \in Int : k = <<FirstKey, w, i>>
  <2>1. CASE k \in DOMAIN D
    BY <1>3, <2>1
  <2>2. CASE k \in DOMAIN P
    <3>1. v \in 1 .. v
      BY <1>3
    <3> QED
      BY <1>4, <2>2, <3>1
  <2> QED
    BY <1>2, <2>1, <2>2
<1>7. ASSUME NEW i \in Int
      PROVE  <<FirstKey, v, i>> \in DOMAIN E <=> l2 < i /\ i <= l2 + c2
  <2>1. <<FirstKey, v, i>> # <<FirstKey, 0, 0>>
    BY <1>3, KeysDiffer
  <2>2. <<FirstKey, v, i>> \in DOMAIN P <=> a <= i /\ i <= b
    BY <1>4, <2>1, KeysDiffer
  <2>3. <<FirstKey, v, i>> \in DOMAIN D <=> l < i /\ i <= l + c
    BY <1>3
  <2> QED
    BY <1>2, <2>2, <2>3
<1> QED
  BY <1>1, <1>3, <1>5, <1>6, <1>7 DEF ListIs, ListRecs

LEMMA ListPutsAre ==
    ASSUME NEW v, NEW from \in Int, NEW N \in Nat, NEW vs, DOMAIN vs = 1 .. N
    PROVE  /\ \A k \in DOMAIN ListPuts(FirstKey, v, from, vs) :
                 \E i \in Int : from <= i /\ i <= from + N - 1 /\ k = <<FirstKey, v, i>>
           /\ \A i \in Int : from <= i /\ i <= from + N - 1
                           => <<FirstKey, v, i>> \in DOMAIN ListPuts(FirstKey, v, from, vs)
<1>1. DOMAIN ListPuts(FirstKey, v, from, vs) = {<<FirstKey, v, from + i - 1>> : i \in 1 .. N}
  BY DEF ListPuts, ListsDataKey
<1>2. ASSUME NEW k \in DOMAIN ListPuts(FirstKey, v, from, vs)
      PROVE  \E i \in Int : from <= i /\ i <= from + N - 1 /\ k = <<FirstKey, v, i>>
  <2>1. PICK j \in 1 .. N : k = <<FirstKey, v, from + j - 1>>
    BY <1>1
  <2>2. from + j - 1 \in Int /\ from <= from + j - 1 /\ from + j - 1 <= from + N - 1
    OBVIOUS
  <2> QED
    BY <2>1, <2>2
<1>3. ASSUME NEW i \in Int, from <= i, i <= from + N - 1
      PROVE  <<FirstKey, v, i>> \in DOMAIN ListPuts(FirstKey, v, from, vs)
  <2>1. PICK j : j = i - from + 1
    OBVIOUS
  <2>2. j \in 1 .. N /\ i = from + j - 1
    BY <1>3, <2>1
  <2>3. <<FirstKey, v, i>> = <<FirstKey, v, from + j - 1>>
    BY <2>2
  <2> QED
    BY <1>1, <2>2, <2>3
<1> QED
  BY <1>2, <1>3

\* Under a version above all others there is no element yet.
LEMMA ListStarts ==
    ASSUME NEW D, NEW w \in Nat \ {0}, NEW x \in Int,
           DOMAIN D = {} \/ \E v, l, c, rt : ListIs(D, v, l, c, rt) /\ v < w
    PROVE  ListRecs(D, w, x, 0)
<1>1. CASE DOMAIN D = {}
  BY <1>1 DEF ListRecs
<1>2. CASE \E v, l, c, rt : ListIs(D, v, l, c, rt) /\ v < w
  <2>1. PICK v, l, c, rt : ListIs(D, v, l, c, rt) /\ v < w
    BY <1>2
  <2>2. /\ v \in Nat \ {0}
        /\ \A k \in DOMAIN D : k = <<FirstKey, 0, 0>> \/ \E u \in 1 .. v, i \in Int : k = <<FirstKey, u, i>>
    BY <2>1 DEF ListIs, ListRecs
  <2>3. ASSUME NEW k \in DOMAIN D
        PROVE  k = <<FirstKey, 0, 0>> \/ \E u \in 1 .. w, i \in Int : k = <<FirstKey, u, i>>
    <3>1. 1 .. v \subseteq 1 .. w
      BY <2>1, <2>2
    <3> QED
      BY <2>2, <3>1
  <2>4. ASSUME NEW i \in Int PROVE <<FirstKey, w, i>> \notin DOMAIN D
    <3>1. w # 0 /\ w \notin 1 .. v
      BY <2>1, <2>2
    <3> QED
      BY <2>2, <3>1, KeysDiffer
  <2>5. \A i \in Int : <<FirstKey, w, i>> \in DOMAIN D <=> x < i /\ i <= x + 0
    BY <2>4
  <2> QED
    BY <2>3, <2>5 DEF ListRecs
<1> QED
  BY <1>1, <1>2

ListFields == {"count", "version", "timestamp", "left", "right"}

\* Two records of the fields of a list are equal if they agree on each.
LEMMA ListMetaEqual ==
    ASSUME NEW x, NEW y, x = [i \in ListFields |-> x[i]], y = [i \in ListFields |-> y[i]],
           x.count = y.count, x.version = y.version, x.timestamp = y.timestamp, x.left = y.left, x.right = y.right
    PROVE  x = y
<1>1. \A i \in ListFields : x[i] = y[i]
  BY DEF ListFields
<1> QED
  BY <1>1

LEMMA ListMetaIs ==
    ASSUME NEW c, NEW v, NEW l, NEW rt, NEW m, m = <<c, v, 0, l, rt>>, NEW n
    PROVE  /\ m # NoRec /\ (ListShows(m, n) <=> c # 0)
           /\ ListMeta(m) = [count |-> c, version |-> v, timestamp |-> 0, left |-> l, right |-> rt]
           /\ InitialListMetaValue(ListMeta(m), n) = [count |-> 0, version |-> UpdateVersion(v, n), timestamp |-> 0,
                                                     left |-> InitalLeftIndex, right |-> InitalRightIndex]
<1>1. PICK e : e = ListMeta(m)
  OBVIOUS
<1>2. e = [count |-> c, version |-> v, timestamp |-> 0, left |-> l, right |-> rt] /\ m # NoRec /\ ParsedListsMetaValue(m) = e
  BY <1>1, ListParsed
<1>3. ListShows(m, n) <=> c # 0
  BY <1>2 DEF ListShows, Readable, IsStale
<1>a. PICK u : u = UpdateVersion(v, n)
  OBVIOUS
<1>b. PICK x : x = InitialMetaValue(e, n)
  OBVIOUS
<1>4. /\ x = [i \in ListFields |-> x[i]] /\ x.count = 0 /\ x.timestamp = 0 /\ x.version = u
      /\ x.left = l /\ x.right = rt
  <2>1. x = [e EXCEPT !.count = 0, !.timestamp = 0, !.version = u]
    BY <1>2, <1>a, <1>b DEF InitialMetaValue
  <2>2. DOMAIN e = ListFields /\ e.left = l /\ e.right = rt
    BY <1>2 DEF ListFields
  <2>3. x = [i \in ListFields |-> x[i]]
    BY <2>1, <2>2
  <2>4. x.count = 0 /\ x.timestamp = 0 /\ x.version = u /\ x.left = l /\ x.right = rt
    BY <2>1, <2>2 DEF ListFields
  <2> QED
    BY <2>3, <2>4
<1>5. InitialListMetaValue(e, n) = [count |-> 0, version |-> UpdateVersion(v, n), timestamp |-> 0,
                                    left |-> InitalLeftIndex, right |-> InitalRightIndex]
  <2>1. PICK y : y = [count |-> 0, version |-> u, timestamp |-> 0, left |-> InitalLeftIndex, right |-> InitalRightIndex]
    OBVIOUS
  <2>2. PICK z : z = InitialListMetaValue(e, n)
    OBVIOUS
  <2>3. /\ z = [i \in ListFields |-> z[i]] /\ z.count = 0 /\ z.timestamp = 0 /\ z.version = u
        /\ z.left = InitalLeftIndex /\ z.right = InitalRightIndex
    <3>1. z = [x EXCEPT !.left = InitalLeftIndex, !.right = InitalRightIndex]
      BY <1>b, <2>2 DEF InitialListMetaValue
    <3>2. DOMAIN x = ListFields
      BY <1>4
    <3> QED
      BY <1>4, <3>1, <3>2 DEF ListFields
  <2>4. /\ y = [i \in ListFields |-> y[i]] /\ y.count = 0 /\ y.timestamp = 0 /\ y.version = u
        /\ y.left = InitalLeftIndex /\ y.right = InitalRightIndex
    BY <2>1 DEF ListFields
  <2>5. z = y
    BY <2>3, <2>4, ListMetaEqual
  <2> QED
    BY <1>a, <2>1, <2>2, <2>5
<1> QED
  BY <1>1, <1>2, <1>3, <1>5

LEMMA ListFound ==
    ASSUME NEW D, NEW v, NEW l, NEW c, NEW rt, ListIs(D, v, l, c, rt)
    PROVE  /\ DbGet(D, ListMetaKey(FirstKey)) = <<c, v, 0, l, rt>> /\ ListMetaKey(FirstKey) = <<FirstKey, 0, 0>>
           /\ v \in Nat \ {0} /\ l \in Int /\ c \in Nat /\ rt \in Int
  BY DEF ListIs, ListRecs, DbGet, ListMetaKey, ListsDataKey

\* LPush: N elements in front.
LEMMA PushWritten ==
    ASSUME NEW D, NEW v, NEW l, NEW c, ListRecs(D, v, l, c), NEW N \in Nat, NEW vs, DOMAIN vs = 1 .. N, NEW rt \in Int,
           NEW P, P = BothPuts(OnePut(ListMetaKey(FirstKey), <<c + N, v, 0, l - N, rt>>), ListPuts(FirstKey, v, l - N + 1, vs))
    PROVE  ListIs(ApplyBatch(D, P, {}), v, l - N, c + N, rt)
<1>1. v \in Nat \ {0} /\ l \in Int /\ c \in Nat
  BY DEF ListRecs
<1>2. PICK from : from = l - N + 1
  OBVIOUS
<1>3. from \in Int /\ from + N - 1 \in Int /\ from + N - 1 = l /\ l - N \in Int /\ c + N \in Nat
  BY <1>1, <1>2
<1>4. PICK H : H = ListPuts(FirstKey, v, from, vs)
  OBVIOUS
<1>5. /\ \A k \in DOMAIN H : \E i \in Int : from <= i /\ i <= from + N - 1 /\ k = <<FirstKey, v, i>>
      /\ \A i \in Int : from <= i /\ i <= from + N - 1 => <<FirstKey, v, i>> \in DOMAIN H
  <2>1. from \in Int /\ N \in Nat /\ DOMAIN vs = 1 .. N
    BY <1>3
  <2> QED
    BY <1>4, <2>1, ListPutsAre
<1>6. PICK meta : meta = <<c + N, v, 0, l - N, rt>>
  OBVIOUS
<1>7. DOMAIN P = {<<FirstKey, 0, 0>>} \cup DOMAIN H /\ P[<<FirstKey, 0, 0>>] = meta
  BY <1>2, <1>4, <1>6 DEF BothPuts, OnePut, ListMetaKey, ListsDataKey
<1>8. ListBatch(P, v, from, l, meta)
  <2>1. \A k \in DOMAIN P : k = <<FirstKey, 0, 0>> \/ \E i \in Int : from <= i /\ i <= l /\ k = <<FirstKey, v, i>>
    BY <1>3, <1>5, <1>7
  <2>2. \A i \in Int : from <= i /\ i <= l => <<FirstKey, v, i>> \in DOMAIN P
    BY <1>3, <1>5, <1>7
  <2> QED
    BY <1>7, <2>1, <2>2 DEF ListBatch
<1>9. \A i \in Int : (l < i /\ i <= l + c) \/ (from <= i /\ i <= l) <=> l - N < i /\ i <= (l - N) + (c + N)
  BY <1>1, <1>2
<1> QED
  BY <1>1, <1>3, <1>6, <1>8, <1>9, ListWritten

LEMMA LPushKept ==
    ASSUME NEW D, NEW del \in BOOLEAN, ListOK(D, del), NEW a, Len(a.values) \in Nat, NEW n \in Nat,
           NEW r, r = LPush(DbGet(D, ListMetaKey(FirstKey)), FirstKey, a, n)
    PROVE  ListOK(After(D, r), del)
<1>1. PICK m : m = DbGet(D, ListMetaKey(FirstKey))
  OBVIOUS
<1>2. PICK N : N = Len(a.values)
  OBVIOUS
<1>3. PICK vs : vs = Reverse(a.values)
  OBVIOUS
<1>4. N \in Nat /\ DOMAIN vs = 1 .. N
  BY <1>2, <1>3 DEF Reverse
<1>5. PICK L : L = InitalLeftIndex
  OBVIOUS
<1>6. L \in Int /\ InitalRightIndex = L + 1
  BY <1>5, IndexAssumption DEF InitalRightIndex
<1>7. CASE DOMAIN D = {} /\ ~del
  <2>1. m = NoRec
    BY <1>1, <1>7 DEF DbGet
  <2>2. PICK w : w = UpdateVersion(0, n)
    OBVIOUS
  <2>3. w \in Nat \ {0}
    BY <2>2, VersionGrows
  <2>4. PICK P : P = BothPuts(OnePut(ListMetaKey(FirstKey), <<0 + N, w, 0, L - N, L - N>>), ListPuts(FirstKey, w, L - N + 1, vs))
    OBVIOUS
  <2>5. \E ret : r = WriteBatch(ret, P, {})
    <3>1. 0 + N = N
      BY <1>4
    <3> QED
      BY <1>1, <1>2, <1>3, <1>5, <2>1, <2>2, <2>4, <3>1 DEF LPush, ListsMetaValue
  <2>6. ListRecs(D, w, L, 0)
    BY <1>6, <1>7, <2>3, ListStarts
  <2>7. ListIs(ApplyBatch(D, P, {}), w, L - N, 0 + N, L - N)
    <3>1. L - N \in Int
      BY <1>4, <1>6
    <3> QED
      BY <1>4, <2>4, <2>6, <3>1, PushWritten
  <2>8. After(D, r) = ApplyBatch(D, P, {})
    BY <2>5, BatchWritten
  <2> QED
    BY <1>7, <2>7, <2>8 DEF ListOK
<1>8. CASE \E v, l, c, rt : ListIs(D, v, l, c, rt) /\ (del => rt = l + c + 1)
  <2>1. PICK v, l, c, rt : ListIs(D, v, l, c, rt) /\ (del => rt = l + c + 1)
    BY <1>8
  <2>2. v \in Nat \ {0} /\ l \in Int /\ c \in Nat /\ rt \in Int
    BY <2>1, ListFound
  <2>3. m = <<c, v, 0, l, rt>>
    BY <1>1, <2>1, ListFound
  <2>4. /\ m # NoRec /\ (ListShows(m, n) <=> c # 0)
        /\ ListMeta(m) = [count |-> c, version |-> v, timestamp |-> 0, left |-> l, right |-> rt]
    BY <2>3, ListMetaIs
  <2>5. CASE c # 0
    <3>1. PICK P : P = BothPuts(OnePut(ListMetaKey(FirstKey), <<c + N, v, 0, l - N, rt>>), ListPuts(FirstKey, v, l - N + 1, vs))
      OBVIOUS
    <3>2. PICK base : base = [count |-> c, version |-> v, timestamp |-> 0, left |-> l, right |-> rt]
      OBVIOUS
    <3>3. ToList([base EXCEPT !.left = l - N, !.count = c + N]) = <<c + N, v, 0, l - N, rt>>
      BY <3>2 DEF ToList
    <3>a. ListMeta(m) = base /\ base.left = l /\ base.count = c /\ base.version = v
      BY <2>4, <3>2
    <3>4. \E ret : r = WriteBatch(ret, P, {})
      BY <1>1, <1>2, <1>3, <2>4, <2>5, <3>1, <3>3, <3>a DEF LPush
    <3>5. ListIs(ApplyBatch(D, P, {}), v, l - N, c + N, rt)
      <4>1. ListRecs(D, v, l, c) /\ rt \in Int
        BY <2>1 DEF ListIs
      <4> QED
        BY <1>4, <3>1, <4>1, PushWritten
    <3>6. After(D, r) = ApplyBatch(D, P, {})
      BY <3>4, BatchWritten
    <3>7. del => rt = (l - N) + (c + N) + 1
      BY <1>4, <2>1, <2>2
    <3> QED
      BY <3>5, <3>6, <3>7 DEF ListOK
  <2>6. CASE c = 0
    <3>1. PICK w : w = UpdateVersion(v, n)
      OBVIOUS
    <3>2. w \in Nat \ {0} /\ v < w
      BY <2>2, <3>1, VersionGrows
    <3>3. PICK P : P = BothPuts(OnePut(ListMetaKey(FirstKey), <<0 + N, w, 0, L - N, L + 1>>), ListPuts(FirstKey, w, L - N + 1, vs))
      OBVIOUS
    <3>4. PICK base : base = [count |-> 0, version |-> w, timestamp |-> 0, left |-> L, right |-> L + 1]
      OBVIOUS
    <3>5. InitialListMetaValue(ListMeta(m), n) = base
      BY <1>5, <1>6, <2>3, <3>1, <3>4, ListMetaIs
    <3>6. ToList([base EXCEPT !.left = L - N, !.count = 0 + N]) = <<0 + N, w, 0, L - N, L + 1>>
      BY <3>4 DEF ToList
    <3>7. base.left = L /\ base.count = 0 /\ base.version = w
      BY <3>4
    <3>8. \E ret : r = WriteBatch(ret, P, {})
      BY <1>1, <1>2, <1>3, <2>4, <2>6, <3>3, <3>5, <3>6, <3>7 DEF LPush
    <3>9. ListRecs(D, w, L, 0)
      BY <1>6, <2>1, <3>2, ListStarts
    <3>10. ListIs(ApplyBatch(D, P, {}), w, L - N, 0 + N, L + 1)
      <4>1. L + 1 \in Int
        BY <1>6
      <4> QED
        BY <1>4, <3>3, <3>9, <4>1, PushWritten
    <3>11. After(D, r) = ApplyBatch(D, P, {})
      BY <3>8, BatchWritten
    <3>12. L + 1 = (L - N) + (0 + N) + 1
      BY <1>4, <1>6
    <3> QED
      BY <3>10, <3>11, <3>12 DEF ListOK
  <2> QED
    BY <2>5, <2>6
<1> QED
  BY <1>7, <1>8 DEF ListOK

LEMMA ListDelKept ==
    ASSUME NEW D, IsFcn(D), NEW del, ListOK(D, del), NEW n \in Nat,
           NEW r, r = ListDel(DbGet(D, ListMetaKey(FirstKey)), FirstKey, n)
    PROVE  IF r.status = "OK" THEN ListOK(After(D, r), TRUE) ELSE After(D, r) = D
<1>1. PICK m : m = DbGet(D, ListMetaKey(FirstKey))
  OBVIOUS
<1>2. CASE ~ListShows(m, n)
  <2>1. r = NotFound(0)
    BY <1>1, <1>2 DEF ListDel
  <2>2. After(D, r) = D
    BY <2>1, NothingWritten
  <2>3. r.status = "NotFound"
    BY <2>1 DEF NotFound, Return
  <2> QED
    BY <2>2, <2>3
<1>3. CASE ListShows(m, n)
  <2>1. ListMetaKey(FirstKey) \in DOMAIN D
    BY <1>1, <1>3 DEF ListShows, DbGet
  <2>2. PICK v, l, c, rt : ListIs(D, v, l, c, rt)
    BY <2>1 DEF ListOK
  <2>3. m = <<c, v, 0, l, rt>> /\ v \in Nat \ {0} /\ ListMetaKey(FirstKey) = <<FirstKey, 0, 0>>
    BY <1>1, <2>2, ListFound
  <2>4. PICK w : w = UpdateVersion(v, n)
    OBVIOUS
  <2>5. w \in Nat \ {0} /\ v < w
    BY <2>3, <2>4, VersionGrows
  <2>6. PICK L : L = InitalLeftIndex
    OBVIOUS
  <2>7. L \in Int /\ InitalRightIndex = L + 1 /\ L + 1 \in Int
    BY <2>6, IndexAssumption DEF InitalRightIndex
  <2>8. PICK base : base = [count |-> 0, version |-> w, timestamp |-> 0, left |-> L, right |-> L + 1]
    OBVIOUS
  <2>9. InitialListMetaValue(ListMeta(m), n) = base
    BY <2>3, <2>4, <2>6, <2>7, <2>8, ListMetaIs
  <2>10. PICK meta : meta = <<0, w, 0, L, L + 1>>
    OBVIOUS
  <2>11. ToList(base) = meta
    BY <2>8, <2>10 DEF ToList
  <2>12. PICK P : P = OnePut(<<FirstKey, 0, 0>>, meta)
    OBVIOUS
  <2>13. r = WriteBatch(0, P, {})
    BY <1>1, <1>3, <2>3, <2>9, <2>11, <2>12 DEF ListDel
  <2>14. ListRecs(D, w, L, 0)
    BY <2>2, <2>5, <2>7, ListStarts
  <2>15. ListBatch(P, w, 1, 0, meta)
    BY <2>12 DEF ListBatch, OnePut
  <2>16. ListIs(ApplyBatch(D, P, {}), w, L, 0, L + 1)
    <3>1. 1 \in Int /\ 0 \in Int /\ 0 \in Nat
      OBVIOUS
    <3>2. \A i \in Int : (L < i /\ i <= L + 0) \/ (1 <= i /\ i <= 0) <=> L < i /\ i <= L + 0
      BY <2>7
    <3> QED
      BY <2>7, <2>10, <2>14, <2>15, <3>1, <3>2, ListWritten
  <2>17. After(D, r) = ApplyBatch(D, P, {}) /\ r.status = "OK"
    BY <2>13, BatchWritten DEF WriteBatch
  <2>18. L + 1 = L + 0 + 1
    BY <2>7
  <2>19. ListOK(After(D, r), TRUE)
    BY <2>16, <2>17, <2>18 DEF ListOK
  <2> QED
    BY <2>17, <2>19
<1> QED
  BY <1>2, <1>3

\* No list has a record under the bare key.
LEMMA LPopKept ==
    ASSUME NEW D, IsFcn(D), NEW del, ListOK(D, del), NEW n, NEW r, r = LPop(D, FirstKey, n)
    PROVE  After(D, r) = D
<1>1. <<FirstKey>> \notin DOMAIN D
  <2>1. CASE DOMAIN D = {}
    BY <2>1
  <2>2. CASE \E v, l, c, rt : ListIs(D, v, l, c, rt)
    <3>1. PICK v : \A k \in DOMAIN D : k = <<FirstKey, 0, 0>> \/ \E w \in 1 .. v, i \in Int : k = <<FirstKey, w, i>>
      BY <2>2 DEF ListIs, ListRecs
    <3> QED
      BY <3>1, KeysDiffer
  <2> QED
    BY <2>1, <2>2 DEF ListOK
<1>2. r = NotFound(NoRec)
  BY <1>1 DEF LPop, DbGet
<1> QED
  BY <1>2, NothingWritten

\* The records that a seek to an index of the list reaches.
LEMMA WalkIs ==
    ASSUME NEW D, NEW v, NEW l, NEW c, ListRecs(D, v, l, c), NEW from \in Int, l < from, from <= l + c + 1
    PROVE  DOMAIN ValuesFrom(D, ListsDataKey(FirstKey, v, from), l + c + 1 - from) = 1 .. (l + c + 1 - from)
<1>1. /\ v \in Nat \ {0} /\ l \in Int /\ c \in Nat
      /\ \A k \in DOMAIN D : k = <<FirstKey, 0, 0>> \/ \E w \in 1 .. v, i \in Int : k = <<FirstKey, w, i>>
      /\ \A i \in Int : <<FirstKey, v, i>> \in DOMAIN D <=> l < i /\ i <= l + c
  BY DEF ListRecs
<1>2. FirstKey \in Int
  BY FirstKeyIs, RedisAssumption
<1>3. PICK start : start = <<FirstKey, v, from>>
  OBVIOUS
<1>4. PICK ahead : ahead = {k \in DOMAIN D : ~ ListsDataKeyLess(k, start)}
  OBVIOUS
<1>5. PICK N : N = l + c + 1 - from
  OBVIOUS
<1>6. N \in Nat
  BY <1>1, <1>5
<1>7. ASSUME NEW k \in ahead PROVE \E i \in from .. l + c : k = <<FirstKey, v, i>>
  <2>1. k \in DOMAIN D /\ ~ ListsDataKeyLess(k, start)
    BY <1>4
  <2>2. k # <<FirstKey, 0, 0>>
    BY <1>1, <1>3, <2>1 DEF ListsDataKeyLess
  <2>3. PICK w \in 1 .. v, i \in Int : k = <<FirstKey, w, i>>
    BY <1>1, <2>1, <2>2
  <2>4. ~ (w < v) /\ ~ (w = v /\ i < from)
    BY <1>3, <2>1, <2>3 DEF ListsDataKeyLess
  <2>5. w = v /\ from <= i
    BY <1>1, <2>3, <2>4
  <2>6. i <= l + c
    BY <1>1, <2>1, <2>3, <2>5
  <2> QED
    BY <1>1, <2>3, <2>5, <2>6
<1>8. ASSUME NEW i \in from .. l + c PROVE <<FirstKey, v, i>> \in ahead
  <2>1. i \in Int /\ <<FirstKey, v, i>> \in DOMAIN D
    BY <1>1
  <2>2. ~ ListsDataKeyLess(<<FirstKey, v, i>>, start)
    BY <1>1, <1>2, <1>3, <2>1 DEF ListsDataKeyLess
  <2> QED
    BY <1>4, <2>1, <2>2
<1>9. Cardinality(ahead) = N
  <2>1. PICK z : z = l + c
    OBVIOUS
  <2>2. z \in Int /\ from \in Int /\ from <= z + 1 /\ N = z - from + 1
    BY <1>1, <1>5, <2>1
  <2>3. IsFiniteSet(from .. z) /\ Cardinality(from .. z) = IF from > z THEN 0 ELSE z - from + 1
    BY <2>2, FS_Interval
  <2>4. Cardinality(from .. z) = N
    BY <2>2, <2>3
  <2>5. PICK I : I = from .. z
    OBVIOUS
  <2>6. (\A i \in I : <<FirstKey, v, i>> \in ahead) /\ (\A k \in ahead : \E i \in I : k = <<FirstKey, v, i>>)
    BY <1>7, <1>8, <2>1, <2>5
  <2>7. IsFiniteSet(I)
    BY <2>3, <2>5
  <2>8. Cardinality(ahead) = Cardinality(I)
    <3>1. Cardinality(ahead) = Cardinality(I) /\ Cardinality(I) \in Nat
      BY <2>6, <2>7, FieldsCounted, ZenonT(40)
    <3> QED
      BY <3>1
  <2> QED
    BY <2>4, <2>5, <2>8
<1>10. PICK keys : keys = SeekAndNext(D, start, ListsDataKeyLess)
  OBVIOUS
<1>11. DOMAIN keys = 1 .. N /\ Len(keys) = N
  BY <1>4, <1>6, <1>9, <1>10 DEF SeekAndNext
<1>12. Max({N, 0}) = N /\ Min({N, N}) = N
  BY <1>6 DEF Max, Min
<1> QED
  BY <1>3, <1>5, <1>10, <1>11, <1>12 DEF ValuesFrom, ListsDataKey

\* The batch of LInsert: the new element, the meta record and those moved.
LEMMA InsertBatch ==
    ASSUME NEW v \in Nat \ {0}, NEW target \in Int, NEW value, NEW meta, NEW from \in Int, NEW N \in Nat, NEW vs,
           DOMAIN vs = 1 .. N, NEW lo \in Int, NEW hi \in Int,
           \A i \in Int : lo <= i /\ i <= hi <=> i = target \/ (from <= i /\ i <= from + N - 1),
           NEW P, P = BothPuts(OnePut(ListsDataKey(FirstKey, v, target), value),
                               BothPuts(OnePut(ListMetaKey(FirstKey), meta), ListPuts(FirstKey, v, from, vs)))
    PROVE  ListBatch(P, v, lo, hi, meta)
<1>1. PICK H : H = ListPuts(FirstKey, v, from, vs)
  OBVIOUS
<1>2. /\ \A k \in DOMAIN H : \E i \in Int : from <= i /\ i <= from + N - 1 /\ k = <<FirstKey, v, i>>
      /\ \A i \in Int : from <= i /\ i <= from + N - 1 => <<FirstKey, v, i>> \in DOMAIN H
  <2>1. from \in Int /\ N \in Nat /\ DOMAIN vs = 1 .. N
    OBVIOUS
  <2> QED
    BY <1>1, <2>1, ListPutsAre
<1>3. <<FirstKey, 0, 0>> # <<FirstKey, v, target>>
  BY KeysDiffer
<1>4. /\ DOMAIN P = {<<FirstKey, v, target>>, <<FirstKey, 0, 0>>} \cup DOMAIN H
      /\ P[<<FirstKey, 0, 0>>] = meta
  BY <1>1, <1>3 DEF BothPuts, OnePut, ListsDataKey, ListMetaKey
<1>5. lo <= target /\ target <= hi
  OBVIOUS
<1>6. ASSUME NEW k \in DOMAIN P
      PROVE  k = <<FirstKey, 0, 0>> \/ \E i \in Int : lo <= i /\ i <= hi /\ k = <<FirstKey, v, i>>
  <2>1. CASE k = <<FirstKey, v, target>>
    BY <1>5, <2>1
  <2>2. CASE k \in DOMAIN H
    BY <1>2, <2>2
  <2> QED
    BY <1>4, <2>1, <2>2
<1>7. ASSUME NEW i \in Int, lo <= i, i <= hi PROVE <<FirstKey, v, i>> \in DOMAIN P
  BY <1>2, <1>4, <1>7
<1> QED
  BY <1>4, <1>6, <1>7 DEF ListBatch

LEMMA PivotFound ==
    ASSUME NEW c \in Nat, NEW hits, hits \subseteq 1 .. c, hits # {}
    PROVE  Min(hits) \in 1 .. c
<1>1. PICK i \in hits : \A j \in hits : i <= j
  <2>1. hits \in SUBSET Nat
    OBVIOUS
  <2> QED
    BY <2>1, LeastOf
<1>2. Min(hits) \in hits
  BY <1>1 DEF Min
<1> QED
  BY <1>2

\* LInsert into a list whose right index is right: the list is one longer and
\* still without a gap, whichever side moves over.
LEMMA LInsertKept ==
    ASSUME NEW D, IsFcn(D), NEW del, del = TRUE, ListOK(D, del), NEW a, a.before = TRUE \/ a.before = FALSE, NEW n,
           NEW r, r = LInsert(DbGet(D, ListMetaKey(FirstKey)), D, FirstKey, a, n)
    PROVE  ListOK(After(D, r), del)
<1>1. PICK m : m = DbGet(D, ListMetaKey(FirstKey))
  OBVIOUS
<1>2. PICK v, l, c, rt : ListIs(D, v, l, c, rt) /\ rt = l + c + 1
  BY DEF ListOK
<1>3. /\ v \in Nat \ {0} /\ l \in Int /\ c \in Nat /\ rt \in Int /\ ListRecs(D, v, l, c) /\ rt = l + c + 1
  BY <1>2, ListFound DEF ListIs
<1>4. m = <<c, v, 0, l, rt>>
  BY <1>1, <1>2, ListFound
<1>5. PICK base : base = [count |-> c, version |-> v, timestamp |-> 0, left |-> l, right |-> rt]
  OBVIOUS
<1>6. m # NoRec /\ ListMeta(m) = base
  BY <1>4, <1>5, ListMetaIs
<1>7. base.count = c /\ base.version = v /\ base.left = l /\ base.right = rt
  BY <1>5
<1>8. PICK W : W = ValuesFrom(D, ListsDataKey(FirstKey, v, l + 1), rt - (l + 1))
  OBVIOUS
<1>9. DOMAIN W = 1 .. c
  <2>1. l + 1 \in Int /\ l < l + 1 /\ l + 1 <= l + c + 1 /\ l + c + 1 - (l + 1) = c /\ rt - (l + 1) = c
    BY <1>3
  <2>2. DOMAIN ValuesFrom(D, ListsDataKey(FirstKey, v, l + 1), l + c + 1 - (l + 1)) = 1 .. (l + c + 1 - (l + 1))
    BY <1>3, <2>1, WalkIs
  <2> QED
    BY <1>8, <2>1, <2>2
<1>10. PICK hits : hits = {i \in DOMAIN W : W[i] = a.pivot /\ ~ a.blind}
  OBVIOUS
<1>11. CASE ~ListShows(m, n)
  <2>1. r = NotFound(0)
    BY <1>1, <1>11 DEF LInsert
  <2> QED
    BY <2>1, NothingWritten
<1>12. CASE ListShows(m, n) /\ hits = {}
  <2>1. r = NotFound(-1)
    BY <1>1, <1>6, <1>7, <1>8, <1>10, <1>12 DEF LInsert
  <2> QED
    BY <2>1, NothingWritten
<1>13. CASE ListShows(m, n) /\ hits # {}
  <2>1. PICK p : p = l + 1 + Min(hits) - 1
    OBVIOUS
  <2>2. p \in Int /\ l + 1 <= p /\ p <= l + c
    <3>1. Min(hits) \in 1 .. c
      BY <1>3, <1>9, <1>10, <1>13, PivotFound
    <3> QED
      BY <1>3, <2>1, <3>1
  <2>3. PICK mid : mid = l + (rt - l) \div 2
    OBVIOUS
  <2>4. PICK V : V = ValuesFrom(D, ListsDataKey(FirstKey, v, p), rt - p)
    OBVIOUS
  <2>5. DOMAIN V = 1 .. (l + c + 1 - p)
    <3>1. l < p /\ p <= l + c + 1 /\ rt - p = l + c + 1 - p
      BY <1>3, <2>2
    <3> QED
      BY <1>3, <2>2, <2>4, <3>1, WalkIs
  <2>6. PICK q : q = IF p <= mid THEN IF a.before THEN p - 1 ELSE p ELSE IF a.before THEN p ELSE p + 1
    OBVIOUS
  <2>7. PICK nodes : nodes = IF p <= mid THEN SubSeq(W, 1, p - (l + 1) + (IF a.before THEN 0 ELSE 1))
                             ELSE IF a.before THEN V ELSE Tail(V)
    OBVIOUS
  <2>8. PICK from : from = IF p <= mid THEN l ELSE q + 1
    OBVIOUS
  <2>9. PICK meta : meta = IF p <= mid THEN <<c + 1, v, 0, l - 1, rt>> ELSE <<c + 1, v, 0, l, rt + 1>>
    OBVIOUS
  <2>10. PICK P : P = BothPuts(OnePut(ListsDataKey(FirstKey, v, q), a.value),
                              BothPuts(OnePut(ListMetaKey(FirstKey), meta), ListPuts(FirstKey, v, from, nodes)))
    OBVIOUS
  <2>11. ToList(ModifyCount(IF p <= mid THEN [base EXCEPT !.left = @ - 1] ELSE [base EXCEPT !.right = @ + 1], 1)) = meta
    BY <1>5, <2>9 DEF ToList, ModifyCount
  <2>12. r = WriteBatch(c + 1, P, {})
    BY <1>1, <1>6, <1>7, <1>8, <1>10, <1>13, <2>1, <2>3, <2>4, <2>6, <2>7, <2>8, <2>10, <2>11 DEF LInsert
  <2>13. After(D, r) = ApplyBatch(D, P, {})
    BY <2>12, BatchWritten
  <2>14. CASE p <= mid
    <3>1. PICK N : N = q - l
      OBVIOUS
    <3>2. q \in Int /\ N \in Nat /\ N = p - (l + 1) + (IF a.before THEN 0 ELSE 1) /\ N <= c /\ l <= q /\ q <= l + c
      BY <1>3, <2>2, <2>6, <2>14, <3>1
    <3>3. DOMAIN nodes = 1 .. N /\ from = l
      BY <1>9, <2>7, <2>8, <2>14, <3>2
    <3>4. \A i \in Int : l <= i /\ i <= q <=> i = q \/ (l <= i /\ i <= l + N - 1)
      BY <1>3, <3>1, <3>2
    <3>5. meta = <<c + 1, v, 0, l - 1, rt>>
      BY <2>9, <2>14
    <3>6. ListBatch(P, v, l, q, meta)
      BY <1>3, <2>10, <3>2, <3>3, <3>4, InsertBatch
    <3>7. \A i \in Int : (l < i /\ i <= l + c) \/ (l <= i /\ i <= q) <=> l - 1 < i /\ i <= (l - 1) + (c + 1)
      BY <1>3, <3>2
    <3>8. l - 1 \in Int /\ c + 1 \in Nat /\ rt = (l - 1) + (c + 1) + 1
      BY <1>3
    <3>9. ListIs(ApplyBatch(D, P, {}), v, l - 1, c + 1, rt)
      BY <1>3, <3>2, <3>5, <3>6, <3>7, <3>8, ListWritten
    <3> QED
      BY <2>13, <3>8, <3>9 DEF ListOK
  <2>15. CASE ~(p <= mid)
    <3>1. PICK N : N = l + c + 1 - q
      OBVIOUS
    <3>2. q \in Int /\ N \in Nat /\ l + 1 <= q /\ q <= l + c + 1
      BY <1>3, <2>2, <2>6, <2>15, <3>1
    <3>3. DOMAIN nodes = 1 .. N /\ from = q + 1
      <4>1. PICK M : M = l + c + 1 - p
        OBVIOUS
      <4>2. M \in Nat \ {0} /\ DOMAIN V = 1 .. M
        BY <1>3, <2>2, <2>5, <4>1
      <4>3. DOMAIN Tail(V) = 1 .. M - 1
        BY <4>2
      <4>4. N = IF a.before THEN M ELSE M - 1
        BY <1>3, <2>2, <2>6, <2>15, <3>1, <4>1
      <4>5. nodes = IF a.before THEN V ELSE Tail(V)
        BY <2>7, <2>15
      <4> QED
        BY <2>8, <2>15, <4>2, <4>3, <4>4, <4>5
    <3>4. \A i \in Int : q <= i /\ i <= l + c + 1 <=> i = q \/ (q + 1 <= i /\ i <= q + 1 + N - 1)
      BY <1>3, <3>1, <3>2
    <3>5. meta = <<c + 1, v, 0, l, rt + 1>>
      BY <2>9, <2>15
    <3>6. q + 1 \in Int /\ l + c + 1 \in Int
      BY <1>3, <3>2
    <3>7. ListBatch(P, v, q, l + c + 1, meta)
      BY <1>3, <2>10, <3>2, <3>3, <3>4, <3>6, InsertBatch
    <3>8. \A i \in Int : (l < i /\ i <= l + c) \/ (q <= i /\ i <= l + c + 1) <=> l < i /\ i <= l + (c + 1)
      BY <1>3, <3>2
    <3>9. c + 1 \in Nat /\ rt + 1 \in Int /\ rt + 1 = l + (c + 1) + 1
      BY <1>3
    <3>10. ListIs(ApplyBatch(D, P, {}), v, l, c + 1, rt + 1)
      BY <1>3, <3>2, <3>5, <3>6, <3>7, <3>8, <3>9, ListWritten
    <3> QED
      BY <2>13, <3>9, <3>10 DEF ListOK
  <2> QED
    BY <2>14, <2>15
<1> QED
  BY <1>11, <1>12, <1>13

-----------------------------------------------------------------------------
(* Sorted sets.                                                            *)

ZMeta == <<FirstKey, 0, 0, 0>>
NoScores == [x \in {} |-> 0]
Merged(sc, new) == [x \in DOMAIN sc \cup DOMAIN new |-> IF x \in DOMAIN new THEN new[x] ELSE sc[x]]

\* Under the newest version every member of sc has its two records, and no
\* other has one; older versions may have left records behind.
ZRecs(D, v, sc) ==
    /\ v \in Nat \ {0} /\ IsFiniteSet(DOMAIN sc)
    /\ \A k \in DOMAIN D : \/ k = ZMeta
                           \/ \E w \in 1 .. v : \E x : k = <<FirstKey, 0, w, x>>
                           \/ \E w \in 1 .. v : \E p, x : k = <<FirstKey, w, p, x>>
    /\ \A x : <<FirstKey, 0, v, x>> \in DOMAIN D <=> x \in DOMAIN sc
    /\ \A x \in DOMAIN sc : D[<<FirstKey, 0, v, x>>] = <<sc[x]>>
    /\ \A p, x : <<FirstKey, v, p, x>> \in DOMAIN D <=> x \in DOMAIN sc /\ p = sc[x]

ZIs(D, v, ts, sc) ==
    ZRecs(D, v, sc) /\ ZMeta \in DOMAIN D /\ D[ZMeta] = <<Cardinality(DOMAIN sc), v, ts>>
ZOK(D) == DOMAIN D = {} \/ \E v, ts, sc : ZIs(D, v, ts, sc)

LEMMA ZKeysDiffer ==
    \A j, k, v, w, p, q, x, y : <<j, v, p, x>> = <<k, w, q, y>> => j = k /\ v = w /\ p = q /\ x = y
  OBVIOUS

LEMMA ScorePutsAre ==
    ASSUME NEW v \in Nat \ {0}, NEW new, NEW H, H = ScorePuts(FirstKey, v, new)
    PROVE  /\ \A k \in DOMAIN H : \E x \in DOMAIN new : k = <<FirstKey, 0, v, x>> \/ k = <<FirstKey, v, new[x], x>>
           /\ \A x \in DOMAIN new : /\ <<FirstKey, 0, v, x>> \in DOMAIN H /\ <<FirstKey, v, new[x], x>> \in DOMAIN H
                                   /\ H[<<FirstKey, 0, v, x>>] = <<new[x]>>
<1>1. PICK A : A = [k \in {<<FirstKey, 0, v, x>> : x \in DOMAIN new} |-> <<new[k[4]]>>]
  OBVIOUS
<1>2. PICK B : B = [k \in {<<FirstKey, v, new[x], x>> : x \in DOMAIN new} |-> <<"present">>]
  OBVIOUS
<1>3. H = BothPuts(A, B)
  BY <1>1, <1>2 DEF ScorePuts, ZMemberKey, ZSetsScoreKey
<1>4. /\ DOMAIN A = {<<FirstKey, 0, v, x>> : x \in DOMAIN new} /\ DOMAIN B = {<<FirstKey, v, new[x], x>> : x \in DOMAIN new}
      /\ \A x \in DOMAIN new : A[<<FirstKey, 0, v, x>>] = <<new[x]>>
  BY <1>1, <1>2
<1>5. DOMAIN H = DOMAIN A \cup DOMAIN B /\ \A k \in DOMAIN A : H[k] = A[k]
  BY <1>3 DEF BothPuts
<1>6. \A x \in DOMAIN new : <<FirstKey, 0, v, x>> \in DOMAIN A /\ <<FirstKey, v, new[x], x>> \in DOMAIN B
  BY <1>4
<1> QED
  BY <1>4, <1>5, <1>6

\* A batch with the records of new scores, which deletes the score records of
\* the members that had another one.
LEMMA ZWritten ==
    ASSUME NEW D, NEW v, NEW sc, ZRecs(D, v, sc), NEW new, IsFiniteSet(DOMAIN new), NEW H, H = ScorePuts(FirstKey, v, new),
           NEW P, DOMAIN P \subseteq DOMAIN H \cup {ZMeta}, DOMAIN H \subseteq DOMAIN P,
           \A k \in DOMAIN H : k # ZMeta => P[k] = H[k],
           NEW X, \A z \in X : \E x \in DOMAIN new : x \in DOMAIN sc /\ z = <<FirstKey, v, sc[x], x>>,
           \A x \in DOMAIN new : x \in DOMAIN sc => new[x] = sc[x] \/ <<FirstKey, v, sc[x], x>> \in X
    PROVE  ZRecs(ApplyBatch(D, P, X), v, Merged(sc, new))
<1>1. /\ v \in Nat \ {0} /\ IsFiniteSet(DOMAIN sc)
      /\ \A k \in DOMAIN D : \/ k = ZMeta
                             \/ \E w \in 1 .. v : \E x : k = <<FirstKey, 0, w, x>>
                             \/ \E w \in 1 .. v : \E p, x : k = <<FirstKey, w, p, x>>
      /\ \A x : <<FirstKey, 0, v, x>> \in DOMAIN D <=> x \in DOMAIN sc
      /\ \A x \in DOMAIN sc : D[<<FirstKey, 0, v, x>>] = <<sc[x]>>
      /\ \A p, x : <<FirstKey, v, p, x>> \in DOMAIN D <=> x \in DOMAIN sc /\ p = sc[x]
  BY DEF ZRecs
<1>2. /\ \A k \in DOMAIN H : \E x \in DOMAIN new : k = <<FirstKey, 0, v, x>> \/ k = <<FirstKey, v, new[x], x>>
      /\ \A x \in DOMAIN new : /\ <<FirstKey, 0, v, x>> \in DOMAIN H /\ <<FirstKey, v, new[x], x>> \in DOMAIN H
                              /\ H[<<FirstKey, 0, v, x>>] = <<new[x]>>
  <2>1. v \in Nat \ {0} /\ H = ScorePuts(FirstKey, v, new)
    BY <1>1
  <2> QED
    BY <2>1, ScorePutsAre
<1>3. PICK E : E = ApplyBatch(D, P, X)
  OBVIOUS
<1>4. /\ DOMAIN E = (DOMAIN D \ X) \cup DOMAIN P
      /\ \A k \in DOMAIN P : E[k] = P[k]
      /\ \A k \in DOMAIN D \ X : k \notin DOMAIN P => E[k] = D[k]
  BY <1>3 DEF ApplyBatch
<1>5. PICK mg : mg = Merged(sc, new)
  OBVIOUS
<1>6. /\ DOMAIN mg = DOMAIN sc \cup DOMAIN new
      /\ \A x \in DOMAIN mg : mg[x] = IF x \in DOMAIN new THEN new[x] ELSE sc[x]
  BY <1>5 DEF Merged
<1>7. IsFiniteSet(DOMAIN mg)
  <2>1. PICK S, T : S = DOMAIN sc /\ T = DOMAIN new
    OBVIOUS
  <2>2. IsFiniteSet(S) /\ IsFiniteSet(T)
    BY <1>1, <2>1
  <2>3. IsFiniteSet(S \cup T)
    BY <2>2, CountJoined, Zenon
  <2> QED
    BY <1>6, <2>1, <2>3
<1>8. v \in 1 .. v
  BY <1>1
<1>9. ASSUME NEW k \in DOMAIN E
      PROVE  \/ k = ZMeta
             \/ \E w \in 1 .. v : \E x : k = <<FirstKey, 0, w, x>>
             \/ \E w \in 1 .. v : \E p, x : k = <<FirstKey, w, p, x>>
  <2>1. CASE k \in DOMAIN D
    BY <1>1, <2>1
  <2>2. CASE k \in DOMAIN H
    BY <1>2, <1>8, <2>2
  <2> QED
    BY <1>4, <2>1, <2>2
<1>10. ASSUME NEW x PROVE ZMeta # <<FirstKey, 0, v, x>>
  BY <1>1, ZKeysDiffer DEF ZMeta
<1>11. ASSUME NEW p, NEW x PROVE ZMeta # <<FirstKey, v, p, x>>
  BY <1>1, ZKeysDiffer DEF ZMeta
<1>12. ASSUME NEW x
       PROVE  /\ <<FirstKey, 0, v, x>> \in DOMAIN P <=> x \in DOMAIN new
              /\ <<FirstKey, 0, v, x>> \notin X
  <2>1. \A p, y : <<FirstKey, 0, v, x>> # <<FirstKey, v, p, y>>
    BY <1>1, ZKeysDiffer
  <2>2. <<FirstKey, 0, v, x>> \in DOMAIN H <=> x \in DOMAIN new
    BY <1>2, <2>1, ZKeysDiffer
  <2> QED
    BY <1>10, <2>1, <2>2
<1>13. ASSUME NEW p, NEW x
       PROVE  <<FirstKey, v, p, x>> \in DOMAIN P <=> x \in DOMAIN new /\ p = new[x]
  <2>1. \A y : <<FirstKey, v, p, x>> # <<FirstKey, 0, v, y>>
    BY <1>1, ZKeysDiffer
  <2>2. <<FirstKey, v, p, x>> \in DOMAIN H <=> x \in DOMAIN new /\ p = new[x]
    BY <1>2, <2>1, ZKeysDiffer
  <2> QED
    BY <1>11, <2>2
<1>14. ASSUME NEW x PROVE <<FirstKey, 0, v, x>> \in DOMAIN E <=> x \in DOMAIN mg
  BY <1>1, <1>4, <1>6, <1>12
<1>15. ASSUME NEW x \in DOMAIN mg PROVE E[<<FirstKey, 0, v, x>>] = <<mg[x]>>
  <2>1. CASE x \in DOMAIN new
    <3>1. <<FirstKey, 0, v, x>> \in DOMAIN H /\ H[<<FirstKey, 0, v, x>>] = <<new[x]>>
      BY <1>2, <2>1
    <3>2. P[<<FirstKey, 0, v, x>>] = <<new[x]>> /\ <<FirstKey, 0, v, x>> \in DOMAIN P
      BY <1>10, <3>1
    <3> QED
      BY <1>4, <1>6, <2>1, <3>2
  <2>2. CASE x \notin DOMAIN new
    <3>1. x \in DOMAIN sc /\ mg[x] = sc[x]
      BY <1>6, <2>2
    <3>2. <<FirstKey, 0, v, x>> \in DOMAIN D \ X /\ <<FirstKey, 0, v, x>> \notin DOMAIN P
      BY <1>1, <1>12, <2>2, <3>1
    <3> QED
      BY <1>1, <1>4, <3>1, <3>2
  <2> QED
    BY <2>1, <2>2
<1>16. ASSUME NEW p, NEW x PROVE <<FirstKey, v, p, x>> \in DOMAIN E <=> x \in DOMAIN mg /\ p = mg[x]
  <2>1. CASE x \in DOMAIN new
    <3>1. (x \in DOMAIN sc /\ p = sc[x] /\ <<FirstKey, v, p, x>> \notin X) => p = new[x]
      BY <2>1
    <3> QED
      BY <1>1, <1>4, <1>6, <1>13, <2>1, <3>1
  <2>2. CASE x \notin DOMAIN new
    <3>1. <<FirstKey, v, p, x>> \notin X
      BY <2>2, ZKeysDiffer
    <3> QED
      BY <1>1, <1>4, <1>6, <1>13, <2>2, <3>1
  <2> QED
    BY <2>1, <2>2
<1> QED
  BY <1>1, <1>3, <1>5, <1>7, <1>9, <1>14, <1>15, <1>16 DEF ZRecs

\* Under a version above all others there is no record yet.
LEMMA ZStarts ==
    ASSUME NEW D, NEW w \in Nat \ {0}, DOMAIN D = {} \/ \E v, sc : ZRecs(D, v, sc) /\ v < w
    PROVE  ZRecs(D, w, NoScores)
<1>1. DOMAIN NoScores = {} /\ IsFiniteSet({})
  BY FS_EmptySet DEF NoScores
<1>2. CASE DOMAIN D = {}
  BY <1>1, <1>2 DEF ZRecs
<1>3. CASE \E v, sc : ZRecs(D, v, sc) /\ v < w
  <2>1. PICK v, sc : ZRecs(D, v, sc) /\ v < w
    BY <1>3
  <2>2. /\ v \in Nat \ {0}
        /\ \A k \in DOMAIN D : \/ k = ZMeta
                               \/ \E u \in 1 .. v : \E x : k = <<FirstKey, 0, u, x>>
                               \/ \E u \in 1 .. v : \E p, x : k = <<FirstKey, u, p, x>>
    BY <2>1 DEF ZRecs
  <2>3. 1 .. v \subseteq 1 .. w /\ w \notin 1 .. v /\ w # 0 /\ 0 \notin 1 .. v
    BY <2>1, <2>2
  <2>4. ASSUME NEW k \in DOMAIN D
        PROVE  \/ k = ZMeta
               \/ \E u \in 1 .. w : \E x : k = <<FirstKey, 0, u, x>>
               \/ \E u \in 1 .. w : \E p, x : k = <<FirstKey, u, p, x>>
    BY <2>2, <2>3
  <2>5. ASSUME NEW x PROVE <<FirstKey, 0, w, x>> \notin DOMAIN D
    BY <2>2, <2>3, ZKeysDiffer DEF ZMeta
  <2>6. ASSUME NEW p, NEW x PROVE <<FirstKey, w, p, x>> \notin DOMAIN D
    BY <2>2, <2>3, ZKeysDiffer DEF ZMeta
  <2> QED
    BY <1>1, <2>4, <2>5, <2>6 DEF ZRecs
<1> QED
  BY <1>2, <1>3

LEMMA ZMetaKeyIs == ZSetMetaKey(FirstKey) = ZMeta
  BY DEF ZSetMetaKey, ZSetsScoreKey, ZMeta

LEMMA ZMemberFound ==
    ASSUME NEW D, NEW v, NEW sc, ZRecs(D, v, sc), NEW x
    PROVE  DbGet(D, ZMemberKey(FirstKey, v, x)) = IF x \in DOMAIN sc THEN <<sc[x]>> ELSE NoRec
  BY DEF ZRecs, DbGet, ZMemberKey, ZSetsScoreKey

\* ZAdd: the meta record counts the new members, and the scores that change
\* lose their old record.
LEMMA ZAddWritten ==
    ASSUME NEW D, NEW v, NEW sc, ZRecs(D, v, sc), NEW score, IsFiniteSet(DOMAIN score), NEW ts,
           NEW added, added = DOMAIN score \ DOMAIN sc,
           NEW moved, moved = {x \in DOMAIN score \cap DOMAIN sc : sc[x] # score[x]},
           NEW changed, changed = [x \in added \cup moved |-> score[x]],
           NEW X, \A z \in X : \E x \in moved : z = <<FirstKey, v, sc[x], x>>,
           \A x \in moved : <<FirstKey, v, sc[x], x>> \in X,
           NEW meta, meta = <<Cardinality(DOMAIN sc) + Cardinality(added), v, ts>>,
           NEW P, P = BothPuts(OnePut(ZMeta, meta), ScorePuts(FirstKey, v, changed))
    PROVE  ZOK(ApplyBatch(D, P, X))
<1>1. PICK H : H = ScorePuts(FirstKey, v, changed)
  OBVIOUS
<1>2. DOMAIN P = {ZMeta} \cup DOMAIN H /\ P[ZMeta] = meta /\ \A k \in DOMAIN H : k # ZMeta => P[k] = H[k]
  BY <1>1 DEF BothPuts, OnePut
<1>3. DOMAIN changed = added \cup moved /\ \A x \in added \cup moved : changed[x] = score[x]
  OBVIOUS
<1>4. added \subseteq DOMAIN score /\ moved \subseteq DOMAIN score /\ moved \subseteq DOMAIN sc /\ added \cap DOMAIN sc = {}
  OBVIOUS
<1>5. IsFiniteSet(DOMAIN changed)
  <2>1. DOMAIN changed \in SUBSET DOMAIN score
    BY <1>3, <1>4
  <2> QED
    BY <2>1, FS_Subset
<1>6. \A z \in X : \E x \in DOMAIN changed : x \in DOMAIN sc /\ z = <<FirstKey, v, sc[x], x>>
  BY <1>3, <1>4
<1>7. \A x \in DOMAIN changed : x \in DOMAIN sc => changed[x] = sc[x] \/ <<FirstKey, v, sc[x], x>> \in X
  BY <1>3, <1>4
<1>8. PICK E : E = ApplyBatch(D, P, X)
  OBVIOUS
<1>9. ZRecs(E, v, Merged(sc, changed))
  <2>1. DOMAIN P \subseteq DOMAIN H \cup {ZMeta} /\ DOMAIN H \subseteq DOMAIN P /\ \A k \in DOMAIN H : k # ZMeta => P[k] = H[k]
    BY <1>2
  <2>2. ZRecs(ApplyBatch(D, P, X), v, Merged(sc, changed))
    BY <1>1, <1>5, <1>6, <1>7, <2>1, ZWritten
  <2> QED
    BY <1>8, <2>2
<1>10. ZMeta \in DOMAIN E /\ E[ZMeta] = meta
  BY <1>2, <1>8 DEF ApplyBatch
<1>11. Cardinality(DOMAIN Merged(sc, changed)) = Cardinality(DOMAIN sc) + Cardinality(added)
  <2>1. PICK S, T : S = DOMAIN sc /\ T = DOMAIN changed
    OBVIOUS
  <2>2. IsFiniteSet(S) /\ IsFiniteSet(T)
    BY <1>5, <2>1 DEF ZRecs
  <2>3. Cardinality(S \cup T) = Cardinality(S) + Cardinality(T \ S)
    BY <2>2, CountJoined
  <2>4. T \ S = added
    BY <1>3, <1>4, <2>1
  <2>5. DOMAIN Merged(sc, changed) = S \cup T
    BY <2>1 DEF Merged
  <2> QED
    BY <2>1, <2>3, <2>4, <2>5
<1>12. ZIs(E, v, ts, Merged(sc, changed))
  BY <1>9, <1>10, <1>11 DEF ZIs
<1> QED
  BY <1>8, <1>12 DEF ZOK

LEMMA ZFound ==
    ASSUME NEW D, ZOK(D), NEW m, m = DbGet(D, ZSetMetaKey(FirstKey))
    PROVE  IF m = NoRec THEN DOMAIN D = {}
           ELSE \E v, ts, sc : /\ ZIs(D, v, ts, sc) /\ ZRecs(D, v, sc) /\ v \in Nat \ {0} /\ IsFiniteSet(DOMAIN sc)
                              /\ m = <<Cardinality(DOMAIN sc), v, ts>>
<1>1. CASE DOMAIN D = {}
  <2>1. m = NoRec
    BY <1>1 DEF DbGet
  <2> QED
    BY <1>1, <2>1
<1>2. CASE \E v, ts, sc : ZIs(D, v, ts, sc)
  <2>1. PICK v, ts, sc : ZIs(D, v, ts, sc)
    BY <1>2
  <2>2. m = <<Cardinality(DOMAIN sc), v, ts>> /\ ZRecs(D, v, sc) /\ v \in Nat \ {0} /\ IsFiniteSet(DOMAIN sc)
    BY <2>1, ZMetaKeyIs DEF ZIs, ZRecs, DbGet
  <2>3. m # NoRec
    BY <2>2, BaseParsed
  <2> QED
    BY <2>1, <2>2, <2>3
<1> QED
  BY <1>1, <1>2 DEF ZOK

LEMMA ZAddKept ==
    ASSUME NEW D, ZOK(D), NEW a, IsFiniteSet(DOMAIN FirstScores(a.sms)), NEW n \in Nat,
           NEW r, r = ZAdd(DbGet(D, ZSetMetaKey(FirstKey)), D, FirstKey, a, n)
    PROVE  ZOK(After(D, r))
<1>1. PICK m : m = DbGet(D, ZSetMetaKey(FirstKey))
  OBVIOUS
<1>2. PICK score : score = FirstScores(a.sms)
  OBVIOUS
<1>3. IsFiniteSet(DOMAIN score)
  BY <1>2
<1>4. DOMAIN NoScores = {} /\ Cardinality(DOMAIN NoScores) = 0
  BY FS_EmptySet DEF NoScores
<1>5. CASE m = NoRec
  <2>1. DOMAIN D = {}
    BY <1>1, <1>5, ZFound
  <2>2. PICK first : first = UpdateVersion(0, n)
    OBVIOUS
  <2>3. ZRecs(D, first, NoScores)
    <3>1. first \in Nat \ {0}
      BY <2>2, VersionGrows
    <3> QED
      BY <2>1, <3>1, ZStarts
  <2>4. PICK added, moved : added = DOMAIN score \ DOMAIN NoScores /\ moved = {x \in DOMAIN score \cap DOMAIN NoScores : NoScores[x] # score[x]}
    OBVIOUS
  <2>5. added = DOMAIN score /\ moved = {}
    BY <1>4, <2>4
  <2>6. PICK changed : changed = [x \in added \cup moved |-> score[x]]
    OBVIOUS
  <2>7. changed = score
    <3>1. score = [x \in DOMAIN score |-> score[x]]
      BY <1>2 DEF FirstScores
    <3> QED
      BY <2>5, <2>6, <3>1
  <2>8. Cardinality(DOMAIN NoScores) + Cardinality(added) = Cardinality(DOMAIN score)
    BY <1>3, <1>4, <2>5, FS_CardinalityType
  <2>9. PICK meta : meta = <<Cardinality(DOMAIN NoScores) + Cardinality(added), first, 0>>
    OBVIOUS
  <2>10. PICK P : P = BothPuts(OnePut(ZMeta, meta), ScorePuts(FirstKey, first, changed))
    OBVIOUS
  <2>11. r = WriteBatch(Cardinality(DOMAIN score), P, {})
    BY <1>1, <1>2, <1>5, <2>2, <2>7, <2>8, <2>9, <2>10, ZMetaKeyIs DEF ZAdd, BaseMetaValue
  <2>12. ZOK(ApplyBatch(D, P, {}))
    <3>1. /\ \A z \in {} : \E x \in moved : z = <<FirstKey, first, NoScores[x], x>>
          /\ \A x \in moved : <<FirstKey, first, NoScores[x], x>> \in {}
      BY <2>5
    <3> QED
      BY <1>3, <2>3, <2>4, <2>6, <2>9, <2>10, <3>1, ZAddWritten
  <2> QED
    BY <2>11, <2>12, BatchWritten
<1>6. CASE m # NoRec
  <2>1. PICK v, ts, sc : /\ ZIs(D, v, ts, sc) /\ ZRecs(D, v, sc) /\ v \in Nat \ {0} /\ IsFiniteSet(DOMAIN sc)
                         /\ m = <<Cardinality(DOMAIN sc), v, ts>>
    BY <1>1, <1>6, ZFound
  <2>2. m = <<Cardinality(DOMAIN sc), v, ts>>
    BY <2>1
  <2>3. CASE Shows(m, n)
    <3>1. Meta(m).version = v
      BY <2>2, MetaIs
    <3>2. PICK added : added = {x \in DOMAIN score : DbGet(D, ZMemberKey(FirstKey, v, x)) = NoRec}
      OBVIOUS
    <3>3. PICK moved : moved = {x \in DOMAIN score \ added : DbGet(D, ZMemberKey(FirstKey, v, x))[1] # score[x]}
      OBVIOUS
    <3>4. \A x : DbGet(D, ZMemberKey(FirstKey, v, x)) = IF x \in DOMAIN sc THEN <<sc[x]>> ELSE NoRec
      BY <2>1, ZMemberFound
    <3>5. \A x : <<sc[x]>> # NoRec /\ <<sc[x]>>[1] = sc[x]
      BY DEF NoRec
    <3>6. added = DOMAIN score \ DOMAIN sc
      BY <3>2, <3>4, <3>5
    <3>7. moved = {x \in DOMAIN score \cap DOMAIN sc : sc[x] # score[x]}
      BY <3>3, <3>4, <3>5, <3>6
    <3>8. PICK changed : changed = [x \in added \cup moved |-> score[x]]
      OBVIOUS
    <3>9. PICK X : X = {ZSetsScoreKey(FirstKey, v, DbGet(D, ZMemberKey(FirstKey, v, x))[1], x) : x \in moved}
      OBVIOUS
    <3>10. (\A z \in X : \E x \in moved : z = <<FirstKey, v, sc[x], x>>) /\ (\A x \in moved : <<FirstKey, v, sc[x], x>> \in X)
      BY <3>4, <3>5, <3>7, <3>9 DEF ZSetsScoreKey
    <3>11. PICK meta : meta = <<Cardinality(DOMAIN sc) + Cardinality(added), v, ts>>
      OBVIOUS
    <3>12. ToBase(ModifyCount(Meta(m), Cardinality(added))) = meta
      BY <2>2, <3>11, MetaIs
    <3>13. PICK P : P = BothPuts(OnePut(ZMeta, meta), ScorePuts(FirstKey, v, changed))
      OBVIOUS
    <3>14. r = WriteBatch(Cardinality(added), P, X)
      BY <1>1, <1>2, <1>6, <2>3, <3>1, <3>2, <3>3, <3>8, <3>9, <3>12, <3>13, ZMetaKeyIs DEF ZAdd
    <3>15. ZOK(ApplyBatch(D, P, X))
      BY <1>3, <2>1, <3>6, <3>7, <3>8, <3>10, <3>11, <3>13, ZAddWritten
    <3> QED
      BY <3>14, <3>15, BatchWritten
  <2>4. CASE ~Shows(m, n)
    <3>1. PICK w : w = UpdateVersion(v, n)
      OBVIOUS
    <3>2. w \in Nat \ {0} /\ v < w
      BY <2>1, <3>1, VersionGrows
    <3>3. ZRecs(D, w, NoScores)
      BY <2>1, <3>2, ZStarts
    <3>4. PICK i : i = InitialMetaValue(Meta(m), n)
      OBVIOUS
    <3>5. i = [count |-> 0, version |-> w, timestamp |-> 0] /\ i.version = w
      BY <2>2, <3>1, <3>4, MetaIs
    <3>6. PICK added, moved : added = {x \in DOMAIN score : NoRec = NoRec} /\ moved = {x \in DOMAIN score \ added : NoRec[1] # score[x]}
      OBVIOUS
    <3>7. added = DOMAIN score \ DOMAIN NoScores /\ moved = {x \in DOMAIN score \cap DOMAIN NoScores : NoScores[x] # score[x]} /\ moved = {}
      BY <1>4, <3>6
    <3>8. PICK changed : changed = [x \in added \cup moved |-> score[x]]
      OBVIOUS
    <3>9. PICK X : X = {ZSetsScoreKey(FirstKey, w, NoRec[1], x) : x \in moved}
      OBVIOUS
    <3>10. X = {}
      BY <3>7, <3>9
    <3>11. PICK meta : meta = <<Cardinality(DOMAIN NoScores) + Cardinality(added), w, 0>>
      OBVIOUS
    <3>12. ToBase(ModifyCount(i, Cardinality(added))) = meta
      BY <1>4, <3>5, <3>11 DEF ToBase, BaseMetaValue, ModifyCount
    <3>13. PICK P : P = BothPuts(OnePut(ZMeta, meta), ScorePuts(FirstKey, w, changed))
      OBVIOUS
    <3>14. r = WriteBatch(Cardinality(added), P, X)
      BY <1>1, <1>2, <1>6, <2>4, <3>4, <3>5, <3>6, <3>8, <3>9, <3>12, <3>13, ZMetaKeyIs DEF ZAdd
    <3>15. (\A z \in X : \E x \in moved : z = <<FirstKey, w, NoScores[x], x>>) /\ (\A x \in moved : <<FirstKey, w, NoScores[x], x>> \in X)
      BY <3>7, <3>10
    <3>16. ZOK(ApplyBatch(D, P, X))
      BY <1>3, <3>3, <3>7, <3>8, <3>11, <3>13, <3>15, ZAddWritten
    <3> QED
      BY <3>14, <3>16, BatchWritten
  <2> QED
    BY <2>3, <2>4
<1> QED
  BY <1>5, <1>6

\* ZIncrby of a member that is there, and of one that is not.
LEMMA ZIncrbyKept ==
    ASSUME NEW D, ZOK(D), NEW a, NEW n \in Nat,
           NEW r, r = ZIncrby(DbGet(D, ZSetMetaKey(FirstKey)), D, FirstKey, a, n), r.status # "abort"
    PROVE  ZOK(After(D, r))
<1>1. PICK m : m = DbGet(D, ZSetMetaKey(FirstKey))
  OBVIOUS
<1>2. m # NoRec
  <2>1. m = NoRec => r = Return("abort", 0)
    BY <1>1 DEF ZIncrby
  <2>2. Return("abort", 0).status = "abort"
    BY DEF Return
  <2> QED
    BY <2>1, <2>2
<1>3. PICK v, ts, sc : /\ ZIs(D, v, ts, sc) /\ ZRecs(D, v, sc) /\ v \in Nat \ {0} /\ IsFiniteSet(DOMAIN sc)
                       /\ m = <<Cardinality(DOMAIN sc), v, ts>>
  BY <1>1, <1>2, ZFound
<1>4. PICK e : e = IF Shows(m, n) THEN Meta(m) ELSE InitialMetaValue(Meta(m), n)
  OBVIOUS
<1>5. PICK w, us, old : /\ ZRecs(D, w, old) /\ e = [count |-> Cardinality(DOMAIN old), version |-> w, timestamp |-> us]
                        /\ (DOMAIN old # {} => ZIs(D, w, us, old))
  <2>1. m = <<Cardinality(DOMAIN sc), v, ts>>
    BY <1>3
  <2>2. CASE Shows(m, n)
    <3>1. e = [count |-> Cardinality(DOMAIN sc), version |-> v, timestamp |-> ts]
      BY <1>4, <2>1, <2>2, MetaIs
    <3> QED
      BY <1>3, <3>1
  <2>3. CASE ~Shows(m, n)
    <3>1. PICK u : u = UpdateVersion(v, n)
      OBVIOUS
    <3>2. u \in Nat \ {0} /\ v < u
      BY <1>3, <3>1, VersionGrows
    <3>3. ZRecs(D, u, NoScores)
      BY <1>3, <3>2, ZStarts
    <3>4. DOMAIN NoScores = {} /\ Cardinality(DOMAIN NoScores) = 0
      BY FS_EmptySet DEF NoScores
    <3>5. e = [count |-> Cardinality(DOMAIN NoScores), version |-> u, timestamp |-> 0]
      BY <1>4, <2>1, <2>3, <3>1, <3>4, MetaIs
    <3> QED
      BY <3>3, <3>4, <3>5
  <2> QED
    BY <2>2, <2>3
<1>6. e.version = w /\ w \in Nat \ {0} /\ IsFiniteSet(DOMAIN old)
  BY <1>5 DEF ZRecs
<1>7. PICK o : o = DbGet(D, ZMemberKey(FirstKey, w, a.member))
  OBVIOUS
<1>8. o = IF a.member \in DOMAIN old THEN <<old[a.member]>> ELSE NoRec
  BY <1>5, <1>7, ZMemberFound
<1>9. PICK p : p = (IF o = NoRec THEN 0 ELSE o[1]) + a.score
  OBVIOUS
<1>10. PICK new : new = OnePut(a.member, p)
  OBVIOUS
<1>11. DOMAIN new = {a.member} /\ IsFiniteSet(DOMAIN new)
  <2>1. DOMAIN new = {a.member}
    BY <1>10 DEF OnePut
  <2>2. IsFiniteSet({a.member})
    BY FS_Singleton
  <2> QED
    BY <2>1, <2>2
<1>12. PICK H : H = ScorePuts(FirstKey, w, new)
  OBVIOUS
<1>13. CASE a.member \in DOMAIN old
  <2>1. o = <<old[a.member]>> /\ o # NoRec /\ o[1] = old[a.member]
    BY <1>8, <1>13 DEF NoRec
  <2>2. PICK X : X = {<<FirstKey, w, old[a.member], a.member>>}
    OBVIOUS
  <2>3. r = WriteBatch(p, H, X)
    BY <1>1, <1>2, <1>4, <1>6, <1>7, <1>9, <1>10, <1>12, <2>1, <2>2 DEF ZIncrby, ZSetsScoreKey
  <2>4. PICK E : E = ApplyBatch(D, H, X)
    OBVIOUS
  <2>5. ZRecs(E, w, Merged(old, new))
    <3>1. /\ DOMAIN H \subseteq DOMAIN H \cup {ZMeta} /\ DOMAIN H \subseteq DOMAIN H
          /\ \A k \in DOMAIN H : k # ZMeta => H[k] = H[k]
          /\ \A z \in X : \E x \in DOMAIN new : x \in DOMAIN old /\ z = <<FirstKey, w, old[x], x>>
          /\ \A x \in DOMAIN new : x \in DOMAIN old => new[x] = old[x] \/ <<FirstKey, w, old[x], x>> \in X
      BY <1>11, <1>13, <2>2
    <3>2. ZRecs(ApplyBatch(D, H, X), w, Merged(old, new))
      BY <1>5, <1>11, <1>12, <3>1, ZWritten
    <3> QED
      BY <2>4, <3>2
  <2>6. DOMAIN Merged(old, new) = DOMAIN old
    BY <1>11, <1>13 DEF Merged
  <2>7. ZMeta \in DOMAIN E /\ E[ZMeta] = D[ZMeta]
    <3>1. ZMeta \in DOMAIN D
      BY <1>3 DEF ZIs
    <3>2. ZMeta \notin X
      BY <1>6, <2>2, ZKeysDiffer DEF ZMeta
    <3>3. ZMeta \notin DOMAIN H
      <4>1. \A k \in DOMAIN H : \E x \in DOMAIN new : k = <<FirstKey, 0, w, x>> \/ k = <<FirstKey, w, new[x], x>>
        BY <1>6, <1>12, ScorePutsAre
      <4> QED
        BY <1>6, <4>1, ZKeysDiffer DEF ZMeta
    <3> QED
      BY <2>4, <3>1, <3>2, <3>3 DEF ApplyBatch
  <2>8. D[ZMeta] = <<Cardinality(DOMAIN old), w, us>>
    BY <1>5, <1>13 DEF ZIs
  <2>9. ZIs(E, w, us, Merged(old, new))
    BY <2>5, <2>6, <2>7, <2>8 DEF ZIs
  <2> QED
    BY <2>3, <2>4, <2>9, BatchWritten DEF ZOK
<1>14. CASE a.member \notin DOMAIN old
  <2>1. o = NoRec
    BY <1>8, <1>14
  <2>2. PICK added, moved : added = DOMAIN new \ DOMAIN old /\ moved = {x \in DOMAIN new \cap DOMAIN old : old[x] # new[x]}
    OBVIOUS
  <2>3. added = {a.member} /\ moved = {} /\ Cardinality(added) = 1
    BY <1>11, <1>14, <2>2, FS_Singleton
  <2>4. PICK changed : changed = [x \in added \cup moved |-> new[x]]
    OBVIOUS
  <2>5. changed = new
    <3>1. new = [x \in {a.member} |-> new[x]]
      BY <1>10 DEF OnePut
    <3>2. added \cup moved = {a.member}
      BY <2>3
    <3> QED
      BY <2>4, <3>1, <3>2
  <2>6. PICK meta : meta = <<Cardinality(DOMAIN old) + Cardinality(added), w, us>>
    OBVIOUS
  <2>7. ToBase(ModifyCount(e, 1)) = meta
    BY <1>5, <2>3, <2>6 DEF ToBase, BaseMetaValue, ModifyCount
  <2>8. PICK P : P = BothPuts(OnePut(ZMeta, meta), ScorePuts(FirstKey, w, changed))
    OBVIOUS
  <2>9. r = WriteBatch(p, P, {})
    BY <1>1, <1>2, <1>4, <1>6, <1>7, <1>9, <1>10, <2>1, <2>5, <2>7, <2>8, ZMetaKeyIs DEF ZIncrby
  <2>10. ZOK(ApplyBatch(D, P, {}))
    <3>1. /\ \A z \in {} : \E x \in moved : z = <<FirstKey, w, old[x], x>>
          /\ \A x \in moved : <<FirstKey, w, old[x], x>> \in {}
      BY <2>3
    <3> QED
      BY <1>5, <1>11, <2>2, <2>4, <2>6, <2>8, <3>1, ZAddWritten
  <2> QED
    BY <2>9, <2>10, BatchWritten
<1> QED
  BY <1>13, <1>14

\* A batch with the meta record alone.
LEMMA ZMetaWritten ==
    ASSUME NEW D, NEW v, NEW sc, ZRecs(D, v, sc), NEW ts, NEW meta, meta = <<Cardinality(DOMAIN sc), v, ts>>
    PROVE  ZOK(ApplyBatch(D, OnePut(ZMeta, meta), {}))
<1>1. PICK E : E = ApplyBatch(D, OnePut(ZMeta, meta), {})
  OBVIOUS
<1>2. /\ DOMAIN E = DOMAIN D \cup {ZMeta} /\ E[ZMeta] = meta
      /\ \A k \in DOMAIN D : k # ZMeta => E[k] = D[k]
  BY <1>1 DEF ApplyBatch, OnePut
<1>3. /\ v \in Nat \ {0} /\ IsFiniteSet(DOMAIN sc)
      /\ \A k \in DOMAIN D : \/ k = ZMeta
                             \/ \E w \in 1 .. v : \E x : k = <<FirstKey, 0, w, x>>
                             \/ \E w \in 1 .. v : \E p, x : k = <<FirstKey, w, p, x>>
      /\ \A x : <<FirstKey, 0, v, x>> \in DOMAIN D <=> x \in DOMAIN sc
      /\ \A x \in DOMAIN sc : D[<<FirstKey, 0, v, x>>] = <<sc[x]>>
      /\ \A p, x : <<FirstKey, v, p, x>> \in DOMAIN D <=> x \in DOMAIN sc /\ p = sc[x]
  BY DEF ZRecs
<1>4. (\A x : ZMeta # <<FirstKey, 0, v, x>>) /\ (\A p, x : ZMeta # <<FirstKey, v, p, x>>)
  BY <1>3, ZKeysDiffer DEF ZMeta
<1>5. \A k \in DOMAIN E : \/ k = ZMeta
                          \/ \E w \in 1 .. v : \E x : k = <<FirstKey, 0, w, x>>
                          \/ \E w \in 1 .. v : \E p, x : k = <<FirstKey, w, p, x>>
  BY <1>2, <1>3
<1>6. \A x : <<FirstKey, 0, v, x>> \in DOMAIN E <=> x \in DOMAIN sc
  BY <1>2, <1>3, <1>4
<1>7. \A x \in DOMAIN sc : E[<<FirstKey, 0, v, x>>] = <<sc[x]>>
  BY <1>2, <1>3, <1>4
<1>8. \A p, x : <<FirstKey, v, p, x>> \in DOMAIN E <=> x \in DOMAIN sc /\ p = sc[x]
  BY <1>2, <1>3, <1>4
<1>9. ZRecs(E, v, sc)
  BY <1>3, <1>5, <1>6, <1>7, <1>8 DEF ZRecs
<1>10. ZIs(E, v, ts, sc)
  BY <1>2, <1>9 DEF ZIs
<1> QED
  BY <1>1, <1>10 DEF ZOK

LEMMA ZRestarted ==
    ASSUME NEW D, NEW v, NEW sc, ZRecs(D, v, sc), NEW c, NEW ts, NEW m, m = <<c, v, ts>>, NEW n \in Nat
    PROVE  ZOK(ApplyBatch(D, OnePut(ZMeta, ToBase(InitialMetaValue(Meta(m), n))), {}))
<1>1. PICK w : w = UpdateVersion(v, n)
  OBVIOUS
<1>2. w \in Nat \ {0} /\ v < w
  BY <1>1, VersionGrows DEF ZRecs
<1>3. ZRecs(D, w, NoScores)
  BY <1>2, ZStarts
<1>4. PICK meta : meta = ToBase(InitialMetaValue(Meta(m), n))
  OBVIOUS
<1>5. meta = <<0, w, 0>>
  BY <1>1, <1>4, MetaIs
<1>6. Cardinality(DOMAIN NoScores) = 0
  BY FS_EmptySet DEF NoScores
<1>7. meta = <<Cardinality(DOMAIN NoScores), w, 0>>
  BY <1>5, <1>6
<1> QED
  BY <1>3, <1>4, <1>7, ZMetaWritten

LEMMA ZSetDelKept ==
    ASSUME NEW D, IsFcn(D), ZOK(D), NEW n \in Nat, NEW r, r = ZSetDel(DbGet(D, ZSetMetaKey(FirstKey)), FirstKey, n)
    PROVE  ZOK(After(D, r))
<1>1. PICK m : m = DbGet(D, ZSetMetaKey(FirstKey))
  OBVIOUS
<1>2. CASE ~Shows(m, n)
  <2>1. r = NotFound(0)
    BY <1>1, <1>2 DEF ZSetDel
  <2> QED
    BY <2>1, NothingWritten
<1>3. CASE Shows(m, n)
  <2>1. m # NoRec
    BY <1>3 DEF Shows
  <2>2. PICK v, ts, sc : ZRecs(D, v, sc) /\ m = <<Cardinality(DOMAIN sc), v, ts>>
    BY <1>1, <2>1, ZFound
  <2>3. r = WriteBatch(0, OnePut(ZMeta, ToBase(InitialMetaValue(Meta(m), n))), {})
    BY <1>1, <1>3, ZMetaKeyIs DEF ZSetDel
  <2>4. ZOK(ApplyBatch(D, OnePut(ZMeta, ToBase(InitialMetaValue(Meta(m), n))), {}))
    BY <2>2, ZRestarted
  <2> QED
    BY <2>3, <2>4, BatchWritten
<1> QED
  BY <1>2, <1>3

LEMMA ZSetExpireKept ==
    ASSUME NEW D, IsFcn(D), ZOK(D), NEW a, NEW n \in Nat, NEW r, r = ZSetExpire(DbGet(D, ZSetMetaKey(FirstKey)), FirstKey, a, n)
    PROVE  ZOK(After(D, r))
<1>1. PICK m : m = DbGet(D, ZSetMetaKey(FirstKey))
  OBVIOUS
<1>2. CASE ~Shows(m, n)
  <2>1. r = NotFound(0)
    BY <1>1, <1>2 DEF ZSetExpire
  <2> QED
    BY <2>1, NothingWritten
<1>3. CASE Shows(m, n)
  <2>1. m # NoRec
    BY <1>3 DEF Shows
  <2>2. PICK v, ts, sc : ZRecs(D, v, sc) /\ m = <<Cardinality(DOMAIN sc), v, ts>>
    BY <1>1, <2>1, ZFound
  <2>3. CASE a.ttl > 0
    <3>1. PICK us : us = RelativeTimestamp(a.ttl, n)
      OBVIOUS
    <3>2. PICK meta : meta = <<Cardinality(DOMAIN sc), v, us>>
      OBVIOUS
    <3>3. Meta(m) = [count |-> Cardinality(DOMAIN sc), version |-> v, timestamp |-> ts]
      BY <2>2, MetaIs
    <3>4. ToBase([Meta(m) EXCEPT !.timestamp = us]) = meta
      BY <3>2, <3>3 DEF ToBase, BaseMetaValue
    <3>5. r = WriteBatch(0, OnePut(ZMeta, meta), {})
      BY <1>1, <1>3, <2>3, <3>1, <3>4, ZMetaKeyIs DEF ZSetExpire
    <3>6. ZOK(ApplyBatch(D, OnePut(ZMeta, meta), {}))
      BY <2>2, <3>2, ZMetaWritten
    <3> QED
      BY <3>5, <3>6, BatchWritten
  <2>4. CASE ~(a.ttl > 0)
    <3>1. r = WriteBatch(0, OnePut(ZMeta, ToBase(InitialMetaValue(Meta(m), n))), {})
      BY <1>1, <1>3, <2>4, ZMetaKeyIs DEF ZSetExpire
    <3>2. ZOK(ApplyBatch(D, OnePut(ZMeta, ToBase(InitialMetaValue(Meta(m), n))), {}))
      BY <2>2, ZRestarted
    <3> QED
      BY <3>1, <3>2, BatchWritten
  <2> QED
    BY <2>3, <2>4
<1> QED
  BY <1>2, <1>3
-----------------------------------------------------------------------------
(* The commands of the clients.                                            *)

HashOps == {"HSet", "HMSet", "HDel", "HashDel", "HashExpire"}
SetOps == {"SAdd", "SetDel", "SetExpire"}
ListOps == {"LPush", "LPop", "LInsert", "ListDel", "ListExpire"}
ZSetOps == {"ZAdd", "ZIncrby", "ZSetDel", "ZSetExpire"}

LEMMA TypesAre ==
    ASSUME NEW op
    PROVE  /\ op \in HashOps => TypeOf(op) = "hash" /\ \A k : MetaKey(op, k) = <<k>>
           /\ op \in SetOps => TypeOf(op) = "set" /\ \A k : MetaKey(op, k) = <<k>>
           /\ op \in ListOps => TypeOf(op) = "list" /\ \A k : MetaKey(op, k) = ListMetaKey(k)
           /\ op \in ZSetOps => TypeOf(op) = "zset" /\ \A k : MetaKey(op, k) = ZSetMetaKey(k)
           /\ op \notin HashOps \cup SetOps \cup ListOps \cup ZSetOps => TypeOf(op) = "strings"
           /\ TypeOf(op) \in Types
<1>1. CASE op \in HashOps
  BY <1>1 DEF HashOps, SetOps, ListOps, ZSetOps, TypeOf, MetaKey, Types
<1>2. CASE op \in SetOps
  BY <1>2 DEF HashOps, SetOps, ListOps, ZSetOps, TypeOf, MetaKey, Types
<1>3. CASE op \in ListOps
  BY <1>3 DEF HashOps, SetOps, ListOps, ZSetOps, TypeOf, MetaKey, Types
<1>4. CASE op \in ZSetOps
  BY <1>4 DEF HashOps, SetOps, ListOps, ZSetOps, TypeOf, MetaKey, Types
<1>5. CASE op \notin HashOps \cup SetOps \cup ListOps \cup ZSetOps
  BY <1>5 DEF HashOps, SetOps, ListOps, ZSetOps, TypeOf, Types
<1> QED
  BY <1>1, <1>2, <1>3, <1>4, <1>5

\* What a client gives with a command.
ArgsOK(op, a) ==
    /\ op = "HSet" => a.value # NoRec
    /\ op = "HMSet" => /\ IsFiniteSet(HMSetFields(a.fvs))
                       /\ \A f \in HMSetFields(a.fvs) : HMSetValue(a.fvs, f) # NoRec
    /\ op = "SAdd" => IsFiniteSet(a.members) /\ a.members # {}
    /\ op = "LPush" => Len(a.values) \in Nat
    /\ op = "LInsert" => a.before \in BOOLEAN
    /\ op = "ZAdd" => IsFiniteSet(DOMAIN FirstScores(a.sms))

\* Which client gives it: only those of hashes and strings have a command
\* without a lock.
Asked(op, a, k) ==
    /\ ArgsOK(op, a)
    /\ op \notin {"MSet", "MSetnx"}
    /\ op = "HDel" => k = "hash"
    /\ op = "Setrange" => k = "strings"
    /\ k = "hash" => op \in {"HSet", "HMSet", "HDel", "HashDel"}
    /\ k = "strings" => TypeOf(op) = "strings"

LEMMA SmallSets ==
    /\ \A x : IsFiniteSet({x})
    /\ \A x, y : IsFiniteSet({x, y})
<1>1. \A x : IsFiniteSet({x})
  BY FS_Singleton
<1>2. ASSUME NEW x, NEW y PROVE IsFiniteSet({x, y})
  <2>1. {x, y} = {x} \cup {y}
    OBVIOUS
  <2>2. IsFiniteSet({x})
    BY <1>1
  <2>3. IsFiniteSet({x} \cup {y})
    BY <2>2, FS_AddElement
  <2> QED
    BY <2>1, <2>3
<1> QED
  BY <1>1, <1>2

LEMMA ScoresFinite ==
    ASSUME NEW sms, NEW n \in Nat, DOMAIN sms = 1 .. n
    PROVE  IsFiniteSet(DOMAIN FirstScores(sms))
<1>1. DOMAIN FirstScores(sms) = {sms[i].member : i \in 1 .. n}
  BY DEF FirstScores
<1>2. IsFiniteSet(1 .. n)
  BY FS_Interval
<1>3. PICK f : f = [i \in 1 .. n |-> sms[i].member]
  OBVIOUS
<1>4. {sms[i].member : i \in 1 .. n} = {f[i] : i \in 1 .. n}
  BY <1>3
<1>5. f \in Surjection(1 .. n, {f[i] : i \in 1 .. n})
  BY <1>3 DEF Surjection
<1>6. IsFiniteSet({f[i] : i \in 1 .. n})
  BY <1>2, <1>5, FS_Surjection
<1> QED
  BY <1>1, <1>4, <1>6

LEMMA StringsAsked ==
    ASSUME NEW c \in StringCalls
    PROVE  Asked(c[1], c[2], "strings")
<1>1. c[1] \in {"Setxx", "Setnx", "Setvx", "Set", "GetSet", "Append", "Delvx", "Del", "Persist", "Expireat",
                "SetBit", "Setrange", "Expire", "Incrby", "Decrby", "Incrbyfloat"}
  BY DEF StringCalls
<1>2. TypeOf(c[1]) = "strings"
  BY <1>1 DEF TypeOf
<1>3. ArgsOK(c[1], c[2])
  BY <1>1 DEF ArgsOK
<1> QED
  BY <1>1, <1>2, <1>3 DEF Asked

LEMMA HashesAsked ==
    ASSUME NEW c \in HashCalls
    PROVE  Asked(c[1], c[2], "hash")
<1>1. /\ c[1] \in {"HSet", "HMSet", "HDel", "HashDel"}
      /\ c[1] = "HSet" => \E f \in {1, 2}, v \in {<<"v">>, <<"w">>} : c[2] = [field |-> f, value |-> v]
      /\ c[1] = "HMSet" => c[2] = [fvs |-> <<[field |-> 1, value |-> <<"v">>], [field |-> 2, value |-> <<"v">>],
                                             [field |-> 1, value |-> <<"w">>]>>]
  BY DEF HashCalls
<1>2. c[1] = "HSet" => c[2].value # NoRec
  BY <1>1 DEF NoRec
<1>3. ASSUME c[1] = "HMSet"
      PROVE  /\ IsFiniteSet(HMSetFields(c[2].fvs))
             /\ \A f \in HMSetFields(c[2].fvs) : HMSetValue(c[2].fvs, f) # NoRec
  <2>1. PICK fvs : fvs = <<[field |-> 1, value |-> <<"v">>], [field |-> 2, value |-> <<"v">>],
                           [field |-> 1, value |-> <<"w">>]>>
    OBVIOUS
  <2>2. c[2].fvs = fvs
    BY <1>1, <1>3, <2>1
  <2>3. /\ DOMAIN fvs = 1 .. 3 /\ fvs[1].field = 1 /\ fvs[2].field = 2 /\ fvs[3].field = 1
        /\ fvs[1].value = <<"v">> /\ fvs[2].value = <<"v">> /\ fvs[3].value = <<"w">>
    BY <2>1
  <2>4. \A i \in DOMAIN fvs : fvs[i].field \in {1, 2} /\ fvs[i].value # NoRec
    <3>1. \A i \in DOMAIN fvs : i = 1 \/ i = 2 \/ i = 3
      BY <2>3
    <3> QED
      BY <2>3, <3>1 DEF NoRec
  <2>5. HMSetFields(fvs) = {1, 2}
    <3>1. 1 \in DOMAIN fvs /\ 2 \in DOMAIN fvs
      BY <2>3
    <3>2. \A f : f \in HMSetFields(fvs) <=> \E i \in DOMAIN fvs : f = fvs[i].field
      BY DEF HMSetFields
    <3> QED
      BY <2>3, <2>4, <3>1, <3>2
  <2>6. ASSUME NEW f \in {1, 2} PROVE HMSetValue(fvs, f) # NoRec
    <3>1. PICK S : S = {i \in DOMAIN fvs : fvs[i].field = f}
      OBVIOUS
    <3>2. S \in SUBSET (1 .. 3) /\ S # {}
      <4>1. 1 \in DOMAIN fvs /\ 2 \in DOMAIN fvs
        BY <2>3
      <4> QED
        BY <2>3, <3>1, <4>1
    <3>3. \E x \in S : \A y \in S : x >= y
      <4>1. CASE 3 \in S
        BY <3>2, <4>1
      <4>2. CASE 3 \notin S /\ 2 \in S
        BY <3>2, <4>2
      <4>3. CASE 3 \notin S /\ 2 \notin S
        <5>0. \A x \in 1 .. 3 : x = 1 \/ x = 2 \/ x = 3
          OBVIOUS
        <5>1. \A x \in S : x = 1
          BY <3>2, <4>3, <5>0
        <5>2. 1 \in S
          BY <3>2, <5>1
        <5>3. \A y \in S : 1 >= y
          BY <5>1
        <5> QED
          BY <5>2, <5>3
      <4> QED
        BY <4>1, <4>2, <4>3
    <3>4. Max(S) \in S
      BY <3>3 DEF Max
    <3>5. Max(S) \in DOMAIN fvs
      BY <3>1, <3>4
    <3> QED
      BY <2>4, <3>1, <3>5 DEF HMSetValue
  <2>7. IsFiniteSet({1, 2})
    BY SmallSets
  <2> QED
    BY <2>2, <2>5, <2>6, <2>7
<1>4. ArgsOK(c[1], c[2])
  BY <1>1, <1>2, <1>3 DEF ArgsOK
<1> QED
  BY <1>1, <1>4 DEF Asked

LEMMA SetsAsked ==
    ASSUME NEW c \in SetCalls, NEW k, k \notin {"hash", "strings"}
    PROVE  Asked(c[1], c[2], k)
<1>0. PICK M : M = {{1}, {2}, {1, 2}}
  OBVIOUS
<1>1. (\E ms \in M : c = <<"SAdd", [members |-> ms]>>) \/ c = <<"SetDel", <<>>>>
  BY <1>0 DEF SetCalls
<1>2. ASSUME NEW ms \in M PROVE IsFiniteSet(ms) /\ ms # {}
  <2>1. ms = {1} \/ ms = {2} \/ ms = {1, 2}
    BY <1>0
  <2>2. CASE ms = {1}
    BY <2>2, SmallSets
  <2>3. CASE ms = {2}
    BY <2>3, SmallSets
  <2>4. CASE ms = {1, 2}
    BY <2>4, SmallSets
  <2> QED
    BY <2>1, <2>2, <2>3, <2>4
<1>3. c[1] = "SAdd" => IsFiniteSet(c[2].members) /\ c[2].members # {}
  BY <1>1, <1>2
<1>4. c[1] \in {"SAdd", "SetDel"}
  BY <1>1
<1> QED
  BY <1>3, <1>4 DEF Asked, ArgsOK

LEMMA ListsAsked ==
    ASSUME NEW c \in ListCalls, NEW k, k \notin {"hash", "strings"}
    PROVE  Asked(c[1], c[2], k)
<1>1. /\ c[1] \in {"LPush", "LInsert", "LPop", "ListDel"}
      /\ c[1] = "LPush" => \E vs \in {<<<<1>>>>, <<<<2>>, <<3>>>>} : c[2] = [values |-> vs]
      /\ c[1] = "LInsert" => \E p \in {1, 2}, b \in BOOLEAN, x \in BOOLEAN :
                                c[2] = [pivot |-> <<p>>, value |-> <<4>>, before |-> b, blind |-> x]
  BY DEF ListCalls
<1>2. c[1] = "LPush" => Len(c[2].values) \in Nat
  BY <1>1
<1>3. ASSUME c[1] = "LInsert" PROVE c[2].before \in BOOLEAN
  <2>1. PICK p, b, x : c[2] = [pivot |-> <<p>>, value |-> <<4>>, before |-> b, blind |-> x] /\ b \in BOOLEAN
    BY <1>1, <1>3
  <2> QED
    BY <2>1
<1> QED
  BY <1>1, <1>2, <1>3 DEF Asked, ArgsOK

LEMMA ZSetsAsked ==
    ASSUME NEW c \in ZSetCalls, NEW k, k \notin {"hash", "strings"}
    PROVE  Asked(c[1], c[2], k)
<1>1. /\ c[1] \in {"ZAdd", "ZIncrby", "ZSetExpire", "ZSetDel"}
      /\ c[1] = "ZAdd" => \E s \in {<<[member |-> 1, score |-> 2]>>,
                                    <<[member |-> 1, score |-> -1], [member |-> 2, score |-> 0]>>,
                                    <<[member |-> 2, score |-> 2], [member |-> 2, score |-> 1]>>} : c[2] = [sms |-> s]
  BY DEF ZSetCalls
<1>2. ASSUME c[1] = "ZAdd" PROVE IsFiniteSet(DOMAIN FirstScores(c[2].sms))
  <2>1. PICK s : /\ c[2] = [sms |-> s]
                 /\ \/ s = <<[member |-> 1, score |-> 2]>>
                    \/ s = <<[member |-> 1, score |-> -1], [member |-> 2, score |-> 0]>>
                    \/ s = <<[member |-> 2, score |-> 2], [member |-> 2, score |-> 1]>>
    BY <1>1, <1>2
  <2>2. c[2].sms = s
    BY <2>1
  <2>3. DOMAIN s = 1 .. 1 \/ DOMAIN s = 1 .. 2
    BY <2>1
  <2> QED
    BY <2>2, <2>3, ScoresFinite
<1> QED
  BY <1>1, <1>2 DEF Asked, ArgsOK

LEMMA FacadeAsked ==
    ASSUME NEW c \in FacadeCalls, NEW k, k \notin {"hash", "strings"}
    PROVE  Asked(c[1], c[2], k)
<1>1. /\ c[1] \in {"Set", "HSet", "SAdd", "LPush", "ZAdd"}
      /\ c[1] = "HSet" => c[2] = [field |-> 1, value |-> <<"v">>]
      /\ c[1] = "SAdd" => c[2] = [members |-> {1}]
      /\ c[1] = "LPush" => c[2] = [values |-> <<<<1>>>>]
      /\ c[1] = "ZAdd" => c[2] = [sms |-> <<[member |-> 1, score |-> 2]>>]
  BY DEF FacadeCalls
<1>2. c[1] = "HSet" => c[2].value # NoRec
  BY <1>1 DEF NoRec
<1>3. ASSUME c[1] = "SAdd" PROVE IsFiniteSet(c[2].members) /\ c[2].members # {}
  <2>1. c[2].members = {1}
    BY <1>1, <1>3
  <2>2. IsFiniteSet({1})
    BY SmallSets
  <2> QED
    BY <2>1, <2>2
<1>4. c[1] = "LPush" => Len(c[2].values) \in Nat
  BY <1>1
<1>5. ASSUME c[1] = "ZAdd" PROVE IsFiniteSet(DOMAIN FirstScores(c[2].sms))
  <2>1. DOMAIN c[2].sms = 1 .. 1
    BY <1>1, <1>5
  <2> QED
    BY <2>1, ScoresFinite
<1> QED
  BY <1>1, <1>2, <1>3, <1>4, <1>5 DEF Asked, ArgsOK

LEMMA CallsAsked ==
    ASSUME NEW k, NEW c \in CallsOf(k)
    PROVE  Asked(c[1], c[2], k)
<1>1. CASE k = "strings"
  BY <1>1, StringsAsked DEF CallsOf
<1>2. CASE k = "hash"
  BY <1>2, HashesAsked DEF CallsOf
<1>3. CASE k = "set"
  BY <1>3, SetsAsked DEF CallsOf
<1>4. CASE k = "list"
  BY <1>4, ListsAsked DEF CallsOf
<1>5. CASE k = "zset"
  BY <1>5, ZSetsAsked DEF CallsOf
<1>6. CASE k \notin {"strings", "hash", "set", "list", "zset"}
  BY <1>6, FacadeAsked DEF CallsOf
<1> QED
  BY <1>1, <1>2, <1>3, <1>4, <1>5, <1>6
-----------------------------------------------------------------------------
(* Every record of a collection is one of its key.                         *)

Rooted(D) == \A k \in DOMAIN D : k[1] = FirstKey

LEMMA RootedAre ==
    /\ Rooted(None)
    /\ \A m : Rooted(OnePut(<<FirstKey>>, m))
    /\ \A v, i, m : Rooted(OnePut(ListsDataKey(FirstKey, v, i), m))
    /\ \A m : Rooted(OnePut(ListMetaKey(FirstKey), m))
    /\ \A P, Q : Rooted(P) /\ Rooted(Q) => Rooted(BothPuts(P, Q))
    /\ \A v, vals : Rooted(HashPuts(FirstKey, v, vals))
    /\ \A v, members : Rooted(SetPuts(FirstKey, v, members))
    /\ \A v, from, vals : Rooted(ListPuts(FirstKey, v, from, vals))
<1>1. Rooted(None)
  BY DEF Rooted, None
<1>2. \A m : Rooted(OnePut(<<FirstKey>>, m))
  BY DEF Rooted, OnePut
<1>3. \A v, i, m : Rooted(OnePut(ListsDataKey(FirstKey, v, i), m))
  BY DEF Rooted, OnePut, ListsDataKey
<1>4. \A m : Rooted(OnePut(ListMetaKey(FirstKey), m))
  BY <1>3 DEF ListMetaKey
<1>5. \A P, Q : Rooted(P) /\ Rooted(Q) => Rooted(BothPuts(P, Q))
  BY DEF Rooted, BothPuts
<1>6. \A v, vals : Rooted(HashPuts(FirstKey, v, vals))
  BY DEF Rooted, HashPuts, BaseDataKey
<1>7. \A v, members : Rooted(SetPuts(FirstKey, v, members))
  BY DEF Rooted, SetPuts, BaseDataKey
<1>8. \A v, from, vals : Rooted(ListPuts(FirstKey, v, from, vals))
  BY DEF Rooted, ListPuts, ListsDataKey
<1> QED
  BY <1>1, <1>2, <1>3, <1>4, <1>5, <1>6, <1>7, <1>8

LEMMA RootedAfter ==
    ASSUME NEW D, Rooted(D), NEW r, Rooted(r.puts)
    PROVE  Rooted(After(D, r))
  BY DEF Rooted, After, ApplyBatch

LEMMA HSetRooted == \A m, d, a, n : Rooted(HSet(m, d, FirstKey, a, n).puts)
  BY RootedAre DEF HSet, WriteBatch, Return
LEMMA HMSetRooted == \A m, d, a, n : Rooted(HMSet(m, d, FirstKey, a, n).puts)
  BY RootedAre DEF HMSet, WriteBatch, Return
LEMMA HDelRooted == \A m, d, a, n : Rooted(HDel(m, d, FirstKey, a, n).puts)
  BY RootedAre DEF HDel, WriteBatch, Return
LEMMA HashDelRooted == \A m, d, n : Rooted(HashDel(m, d, FirstKey, n).puts)
  BY RootedAre DEF HashDel, WriteBatch, Return, NotFound
LEMMA SAddRooted == \A m, d, a, n : Rooted(SAdd(m, d, FirstKey, a, n).puts)
  BY RootedAre DEF SAdd, WriteBatch, Return
LEMMA SetDelRooted == \A m, n : Rooted(SetDel(m, FirstKey, n).puts)
  BY RootedAre DEF SetDel, WriteBatch, Return, NotFound
LEMMA LPushRooted == \A m, a, n : Rooted(LPush(m, FirstKey, a, n).puts)
  BY RootedAre DEF LPush, WriteBatch
LEMMA LPopRooted == \A d, n : Rooted(LPop(d, FirstKey, n).puts)
  BY RootedAre DEF LPop, WriteBatch, Return, NotFound
LEMMA LInsertRooted == \A m, d, a, n : Rooted(LInsert(m, d, FirstKey, a, n).puts)
  BY RootedAre DEF LInsert, WriteBatch, Return, NotFound
LEMMA ListDelRooted == \A m, n : Rooted(ListDel(m, FirstKey, n).puts)
  BY RootedAre DEF ListDel, WriteBatch, Return, NotFound

\* The commands of one type.
LEMMA OutcomesAre ==
    ASSUME NEW c
    PROVE  /\ c.op = "HSet" => Outcome(c, FirstKey) = HSet(c.m, c.d, FirstKey, c.a, now)
           /\ c.op = "HMSet" => Outcome(c, FirstKey) = HMSet(c.m, c.d, FirstKey, c.a, now)
           /\ c.op = "HDel" => Outcome(c, FirstKey) = HDel(c.m, c.d, FirstKey, c.a, now)
           /\ c.op = "HashDel" => Outcome(c, FirstKey) = HashDel(c.m, c.d, FirstKey, now)
           /\ c.op = "SAdd" => Outcome(c, FirstKey) = SAdd(c.m, c.d, FirstKey, c.a, now)
           /\ c.op = "SetDel" => Outcome(c, FirstKey) = SetDel(c.m, FirstKey, now)
           /\ c.op = "LPush" => Outcome(c, FirstKey) = LPush(c.m, FirstKey, c.a, now)
           /\ c.op = "LPop" => Outcome(c, FirstKey) = LPop(db["list"], FirstKey, now)
           /\ c.op = "LInsert" => Outcome(c, FirstKey) = LInsert(c.m, c.d, FirstKey, c.a, now)
           /\ c.op = "ListDel" => Outcome(c, FirstKey) = ListDel(c.m, FirstKey, now)
           /\ c.op = "ZAdd" => Outcome(c, FirstKey) = ZAdd(c.m, c.d, FirstKey, c.a, now)
           /\ c.op = "ZIncrby" => Outcome(c, FirstKey) = ZIncrby(c.m, c.d, FirstKey, c.a, now)
           /\ c.op = "ZSetDel" => Outcome(c, FirstKey) = ZSetDel(c.m, FirstKey, now)
           /\ c.op = "ZSetExpire" => Outcome(c, FirstKey) = ZSetExpire(c.m, FirstKey, c.a, now)
           /\ c.op \in {"HashExpire", "SetExpire", "ListExpire"} => Outcome(c, FirstKey) = Return("OK", 0)
  BY DEF Outcome

LEMMA OutcomeRooted ==
    ASSUME NEW c, c.op \in HashOps \cup SetOps \cup ListOps
    PROVE  Rooted(Outcome(c, FirstKey).puts)
<1>1. CASE c.op \in HashOps
  <2>1. CASE c.op = "HashExpire"
    BY <2>1, OutcomesAre, RootedAre DEF Return
  <2> QED
    BY <1>1, <2>1, OutcomesAre, HSetRooted, HMSetRooted, HDelRooted, HashDelRooted DEF HashOps
<1>2. CASE c.op \in SetOps
  <2>1. CASE c.op = "SetExpire"
    BY <2>1, OutcomesAre, RootedAre DEF Return
  <2> QED
    BY <1>2, <2>1, OutcomesAre, SAddRooted, SetDelRooted DEF SetOps
<1>3. CASE c.op \in ListOps
  <2>1. CASE c.op = "ListExpire"
    BY <2>1, OutcomesAre, RootedAre DEF Return
  <2> QED
    BY <1>3, <2>1, OutcomesAre, LPushRooted, LPopRooted, LInsertRooted, ListDelRooted DEF ListOps
<1> QED
  BY <1>1, <1>2, <1>3

-----------------------------------------------------------------------------
(* The invariant of the collections.                                       *)

\* HDel, without a lock, took fields away after m was read.
Fallen(m, D) ==
    \E v : \E i, j \in Nat : /\ m = <<i, v, 0>> /\ <<FirstKey>> \in DOMAIN D
                             /\ D[<<FirstKey>>] = <<j, v, 0>> /\ j < i

\* What a command read behind its lock is current, unless a command without
\* one wrote; then the meta record of a hash shows it.
ReadOK(c, k, base, sp) ==
    k # "mset" /\ Locked(c.op) /\ c.pc \in {"data", "write"} =>
       /\ ~c.dirty /\ c.pc = "write" /\ ReadsElements(c.op) => c.d = base[TypeOf(c.op)]
       /\ k = "hash" /\ ~sp =>
             \/ c.m = DbGet(base["hash"], <<FirstKey>>) /\ (c.pc = "write" => c.d = base["hash"])
             \/ Fallen(c.m, base["hash"])

ThreadData(c, k, base, sp) ==
    /\ c.dirty => k \in {"hash", "strings"}
    /\ k # "mset" /\ c.pc # "idle" => Asked(c.op, c.a, k)
    /\ ReadOK(c, k, base, sp)

BaseData(base, sp, del) ==
    /\ \A T \in Types \ {"strings"} : IsFcn(base[T])
    /\ Rooted(base["hash"]) /\ Rooted(base["set"]) /\ Rooted(base["list"])
    /\ ~sp => HashOK(base["hash"])
    /\ <<"set", FirstKey>> \notin del => SetOK(base["set"])
    /\ ~sp => ListOK(base["list"], <<"list", FirstKey>> \in del)
    /\ ZOK(base["zset"])

DataInv ==
    /\ now \in Nat /\ spoiled \in [Keys -> BOOLEAN] /\ DOMAIN db = Types
    /\ \A t \in Threads : ThreadData(th[t], kind, db, spoiled[FirstKey])
    /\ BaseData(db, spoiled[FirstKey], deleted)

LEMMA InitData == Init => DataInv
<1> SUFFICES ASSUME Init PROVE DataInv
  OBVIOUS
<1>1. /\ db = [t \in Types |-> None] /\ now = 1 /\ th = [t \in Threads |-> Idle]
      /\ spoiled = [k \in Keys |-> FALSE] /\ deleted = {}
  BY DEF Init
<1>2. FirstKey \in Keys
  BY FirstKeyIs
<1>3. DOMAIN None = {} /\ IsFcn(None) /\ Rooted(None)
  BY DEF None, IsFcn, Rooted
<1>4. HashOK(None) /\ SetOK(None) /\ ListOK(None, FALSE) /\ ZOK(None)
  BY <1>3 DEF HashOK, SetOK, ListOK, ZOK
<1>5. \A T \in Types : db[T] = None
  BY <1>1
<1>6. db["hash"] = None /\ db["set"] = None /\ db["list"] = None /\ db["zset"] = None
  BY <1>5 DEF Types
<1>7. BaseData(db, spoiled[FirstKey], deleted)
  <2>1. (<<"list", FirstKey>> \in deleted) = FALSE
    BY <1>1
  <2> QED
    BY <1>3, <1>4, <1>5, <1>6, <2>1 DEF BaseData
<1>8. \A t \in Threads : ThreadData(th[t], kind, db, spoiled[FirstKey])
  <2>1. Idle.pc = "idle" /\ Idle.dirty = FALSE
    BY DEF Idle
  <2> QED
    BY <1>1, <2>1 DEF ThreadData, ReadOK
<1> QED
  BY <1>1, <1>7, <1>8 DEF DataInv

\* A step that changes one thread only.
LEMMA OneThreadData ==
    ASSUME DataInv, NEW t \in Threads, NEW e, \A u \in Threads : th'[u] = IF u = t THEN e ELSE th[u],
           kind' = kind, db' = db, now' = now, spoiled' = spoiled, deleted' = deleted,
           ThreadData(e, kind, db, spoiled[FirstKey])
    PROVE  DataInv'
<1>1. \A u \in Threads : ThreadData(th'[u], kind', db', spoiled'[FirstKey])
  BY DEF DataInv
<1> QED
  BY <1>1 DEF DataInv

LEMMA CallData ==
    ASSUME LockInv, DataInv, NEW t \in Threads, NEW op, NEW ks, NEW a, Call(t, op, ks, a),
           kind # "mset" => Asked(op, a, kind)
    PROVE  DataInv'
<1>1. PICK pc : pc = IF op = "MSetnx" THEN "probe" ELSE IF Locked(op) THEN "lock" ELSE "meta"
  OBVIOUS
<1>2. PICK e : e = [Idle EXCEPT !.op = op, !.keys = ks, !.a = a, !.pc = pc]
  OBVIOUS
<1>3. DOMAIN th = Threads
  BY DEF LockInv
<1>4. /\ \A u \in Threads : th'[u] = IF u = t THEN e ELSE th[u]
      /\ kind' = kind /\ db' = db /\ now' = now /\ spoiled' = spoiled /\ deleted' = deleted
  BY <1>1, <1>2, <1>3 DEF Call
<1>5. e.dirty = FALSE /\ e.op = op /\ e.a = a /\ e.pc = pc
  BY <1>2 DEF Idle
<1>6. pc \notin {"data", "write"}
  BY <1>1
<1>7. ThreadData(e, kind, db, spoiled[FirstKey])
  BY <1>5, <1>6 DEF ThreadData, ReadOK
<1> QED
  BY <1>4, <1>7, OneThreadData

LEMMA ProbeData ==
    ASSUME LockInv, DataInv, NEW t \in Threads, Probe(t)
    PROVE  DataInv'
<1>1. PICK c : c = th[t]
  OBVIOUS
<1>2. PICK e : e = th'[t]
  OBVIOUS
<1>3. DOMAIN th = Threads /\ DOMAIN c = Fields
  BY <1>1 DEF LockInv, ThreadOK, CallOK
<1>4. /\ \A u \in Threads : th'[u] = IF u = t THEN e ELSE th[u]
      /\ kind' = kind /\ db' = db /\ now' = now /\ spoiled' = spoiled /\ deleted' = deleted /\ c.pc = "probe"
      /\ e = Idle \/ e = [c EXCEPT !.pc = "lock", !.next = 1] \/ e = [c EXCEPT !.next = c.next + 1]
  BY <1>1, <1>2, <1>3 DEF Probe
<1>5. ThreadData(c, kind, db, spoiled[FirstKey])
  BY <1>1 DEF DataInv
<1>6. ThreadData(e, kind, db, spoiled[FirstKey])
  <2>1. CASE e = Idle
    <3>1. e.pc = "idle" /\ e.dirty = FALSE
      BY <2>1 DEF Idle
    <3> QED
      BY <3>1 DEF ThreadData, ReadOK
  <2>2. CASE e # Idle
    <3>1. e.dirty = c.dirty /\ e.op = c.op /\ e.a = c.a /\ e.pc \in {"lock", "probe"}
      BY <1>3, <1>4, <2>2 DEF Fields
    <3> QED
      BY <1>4, <1>5, <3>1 DEF ThreadData, ReadOK
  <2> QED
    BY <2>1, <2>2
<1> QED
  BY <1>4, <1>6, OneThreadData

LEMMA LockData ==
    ASSUME LockInv, DataInv, NEW t \in Threads, Lock(t)
    PROVE  DataInv'
<1>1. PICK c : c = th[t]
  OBVIOUS
<1>2. PICK e : e = th'[t]
  OBVIOUS
<1>3. DOMAIN th = Threads /\ ThreadOK(t, c, held, stripe, kind, db)
  BY <1>1 DEF LockInv
<1>4. PICK pc : pc = IF c.op \in {"MSet", "MSetnx"} THEN "write" ELSE "meta"
  OBVIOUS
<1>5. /\ \A u \in Threads : th'[u] = IF u = t THEN e ELSE th[u]
      /\ kind' = kind /\ db' = db /\ now' = now /\ spoiled' = spoiled /\ deleted' = deleted /\ c.pc = "lock"
      /\ e = [c EXCEPT !.next = c.next + 1] \/ e = [c EXCEPT !.pc = pc]
  BY <1>1, <1>2, <1>3, <1>4 DEF Lock
<1>6. ThreadData(c, kind, db, spoiled[FirstKey])
  BY <1>1 DEF DataInv
<1>7. DOMAIN c = Fields
  BY <1>3 DEF ThreadOK, CallOK
<1>8. e.dirty = c.dirty /\ e.op = c.op /\ e.a = c.a /\ e.pc \in {"lock", pc}
  BY <1>5, <1>7 DEF Fields
<1>9. kind # "mset" => Asked(c.op, c.a, kind)
  BY <1>5, <1>6 DEF ThreadData
<1>10. kind # "mset" => e.pc \notin {"data", "write"}
  <2>1. ASSUME kind # "mset" PROVE e.pc \notin {"data", "write"}
    <3>1. c.op \notin {"MSet", "MSetnx"}
      BY <1>9, <2>1 DEF Asked
    <3> QED
      BY <1>4, <1>8, <3>1
  <2> QED
    BY <2>1
<1>11. ReadOK(e, kind, db, spoiled[FirstKey])
  BY <1>10 DEF ReadOK
<1>12. ThreadData(e, kind, db, spoiled[FirstKey])
  BY <1>6, <1>8, <1>9, <1>11 DEF ThreadData
<1> QED
  BY <1>5, <1>12, OneThreadData

LEMMA ReadMetaData ==
    ASSUME LockInv, DataInv, NEW t \in Threads, ReadMeta(t)
    PROVE  DataInv'
<1>1. PICK c : c = th[t]
  OBVIOUS
<1>2. PICK pc : pc = IF ReadsElements(c.op) THEN "data" ELSE "write"
  OBVIOUS
<1>3. PICK d : d = IF c.op = "HDel" THEN db["hash"] ELSE None
  OBVIOUS
<1>4. PICK e : e = [c EXCEPT !.m = Current(c.op, c.keys[1]), !.d = d, !.pc = pc]
  OBVIOUS
<1>5. DOMAIN th = Threads /\ ThreadOK(t, c, held, stripe, kind, db)
  BY <1>1 DEF LockInv
<1>6. CallOK(c, stripe, kind)
  BY <1>5 DEF ThreadOK
<1>7. DOMAIN c = Fields
  BY <1>6 DEF CallOK
<1>8. /\ th' = [th EXCEPT ![t] = e] /\ c.pc = "meta"
      /\ kind' = kind /\ db' = db /\ now' = now /\ spoiled' = spoiled /\ deleted' = deleted
  BY <1>1, <1>2, <1>3, <1>4, <1>5 DEF ReadMeta
<1>9. \A u \in Threads : th'[u] = IF u = t THEN e ELSE th[u]
  BY <1>5, <1>8
<1>10. /\ e.pc = pc /\ e.dirty = c.dirty /\ e.op = c.op /\ e.a = c.a /\ e.m = Current(c.op, c.keys[1])
  BY <1>4, <1>7 DEF Fields
<1>11. ThreadData(c, kind, db, spoiled[FirstKey])
  BY <1>1 DEF DataInv
<1>12. ASSUME kind # "mset", Locked(e.op), e.pc \in {"data", "write"}
       PROVE  /\ ~e.dirty /\ e.pc = "write" /\ ReadsElements(e.op) => e.d = db[TypeOf(e.op)]
              /\ kind = "hash" => e.m = DbGet(db["hash"], <<FirstKey>>) /\ e.pc # "write"
  <2>1. e.pc = "write" => ~ReadsElements(e.op)
    BY <1>2, <1>10
  <2>2. Asked(c.op, c.a, kind) /\ c.keys = <<FirstKey>>
    BY <1>6, <1>8, <1>11, <1>12 DEF ThreadData, CallOK
  <2>3. ASSUME kind = "hash" PROVE e.m = DbGet(db["hash"], <<FirstKey>>) /\ e.pc # "write"
    <3>1. c.op \in {"HSet", "HMSet", "HashDel"}
      BY <1>10, <1>12, <2>2, <2>3 DEF Asked, Locked
    <3>2. ReadsElements(e.op)
      BY <1>10, <3>1 DEF ReadsElements
    <3>3. TypeOf(c.op) = "hash" /\ MetaKey(c.op, FirstKey) = <<FirstKey>>
      BY <3>1, TypesAre DEF HashOps
    <3>4. e.m = DbGet(db["hash"], <<FirstKey>>)
      BY <1>10, <2>2, <3>3 DEF Current
    <3> QED
      BY <2>1, <3>2, <3>4
  <2> QED
    BY <2>1, <2>3
<1>13. ReadOK(e, kind, db, spoiled[FirstKey])
  BY <1>12 DEF ReadOK
<1>14. ThreadData(e, kind, db, spoiled[FirstKey])
  BY <1>8, <1>10, <1>11, <1>13 DEF ThreadData
<1> QED
  BY <1>8, <1>9, <1>14, OneThreadData

LEMMA ReadElementsData ==
    ASSUME LockInv, DataInv, NEW t \in Threads, ReadElements(t)
    PROVE  DataInv'
<1>1. PICK c : c = th[t]
  OBVIOUS
<1>2. PICK e : e = [c EXCEPT !.d = db[TypeOf(c.op)], !.pc = "write"]
  OBVIOUS
<1>3. DOMAIN th = Threads /\ ThreadOK(t, c, held, stripe, kind, db)
  BY <1>1 DEF LockInv
<1>4. DOMAIN c = Fields
  BY <1>3 DEF ThreadOK, CallOK
<1>5. /\ th' = [th EXCEPT ![t] = e] /\ c.pc = "data"
      /\ kind' = kind /\ db' = db /\ now' = now /\ spoiled' = spoiled /\ deleted' = deleted
  BY <1>1, <1>2, <1>3 DEF ReadElements
<1>6. \A u \in Threads : th'[u] = IF u = t THEN e ELSE th[u]
  BY <1>3, <1>5
<1>7. /\ e.pc = "write" /\ e.dirty = c.dirty /\ e.op = c.op /\ e.a = c.a /\ e.m = c.m /\ e.d = db[TypeOf(c.op)]
  BY <1>2, <1>4 DEF Fields
<1>8. ThreadData(c, kind, db, spoiled[FirstKey])
  BY <1>1 DEF DataInv
<1>9. ASSUME kind = "hash", Locked(c.op) PROVE e.d = db["hash"]
  <2>1. Asked(c.op, c.a, kind)
    BY <1>5, <1>8, <1>9 DEF ThreadData
  <2>2. c.op \in HashOps
    BY <1>9, <2>1 DEF Asked, HashOps
  <2> QED
    BY <1>7, <2>2, TypesAre
<1>10. ReadOK(c, kind, db, spoiled[FirstKey])
  BY <1>8 DEF ThreadData
<1>11. ReadOK(e, kind, db, spoiled[FirstKey])
  BY <1>5, <1>7, <1>9, <1>10 DEF ReadOK
<1>12. ThreadData(e, kind, db, spoiled[FirstKey])
  BY <1>5, <1>7, <1>8, <1>11 DEF ThreadData
<1> QED
  BY <1>5, <1>6, <1>12, OneThreadData

\* One database is written.
LEMMA OneBase ==
    ASSUME NEW base, DOMAIN base = Types, NEW sp \in BOOLEAN, NEW spn \in BOOLEAN, NEW del, NEW deln,
           BaseData(base, sp, del), NEW T \in Types, NEW E, NEW next, next = [base EXCEPT ![T] = E],
           sp => spn, <<"set", FirstKey>> \in del => <<"set", FirstKey>> \in deln,
           T # "list" => (<<"list", FirstKey>> \in del <=> <<"list", FirstKey>> \in deln),
           T # "strings" => IsFcn(E),
           T \in {"hash", "set", "list"} => Rooted(E),
           T = "hash" /\ ~spn => HashOK(E),
           T = "set" /\ <<"set", FirstKey>> \notin deln => SetOK(E),
           T = "list" /\ ~spn => ListOK(E, <<"list", FirstKey>> \in deln),
           T = "zset" => ZOK(E)
    PROVE  BaseData(next, spn, deln)
<1>1. \A U \in Types : next[U] = IF U = T THEN E ELSE base[U]
  OBVIOUS
<1>2. "hash" \in Types /\ "set" \in Types /\ "list" \in Types /\ "zset" \in Types
  BY DEF Types
<1>3. /\ next["hash"] = IF T = "hash" THEN E ELSE base["hash"]
      /\ next["set"] = IF T = "set" THEN E ELSE base["set"]
      /\ next["list"] = IF T = "list" THEN E ELSE base["list"]
      /\ next["zset"] = IF T = "zset" THEN E ELSE base["zset"]
  BY <1>1, <1>2
<1>4. \A U \in Types \ {"strings"} : IsFcn(next[U])
  BY <1>1 DEF BaseData
<1>5. Rooted(next["hash"]) /\ Rooted(next["set"]) /\ Rooted(next["list"])
  BY <1>3 DEF BaseData
<1>6. ~spn => HashOK(next["hash"])
  BY <1>3 DEF BaseData
<1>7. <<"set", FirstKey>> \notin deln => SetOK(next["set"])
  BY <1>3 DEF BaseData
<1>8. ~spn => ListOK(next["list"], <<"list", FirstKey>> \in deln)
  <2>1. CASE T = "list"
    BY <1>3, <2>1
  <2>2. CASE T # "list"
    <3>1. (<<"list", FirstKey>> \in del) = (<<"list", FirstKey>> \in deln)
      BY <2>2
    <3> QED
      BY <1>3, <2>2, <3>1 DEF BaseData
  <2> QED
    BY <2>1, <2>2
<1>9. ZOK(next["zset"])
  BY <1>3 DEF BaseData
<1> QED
  BY <1>4, <1>5, <1>6, <1>7, <1>8, <1>9 DEF BaseData

\* Behind its lock a command that is not outrun by HDel works on what is there.
LEMMA ReadCurrent ==
    ASSUME LockInv, DataInv, kind # "mset", NEW t \in Threads, NEW c, c = th[t], c.pc = "write", Locked(c.op),
           kind = "hash" => ~spoiled[FirstKey] /\ c.m = DbGet(db["hash"], <<FirstKey>>),
           TypeOf(c.op) # "strings"
    PROVE  /\ c.m = DbGet(db[TypeOf(c.op)], MetaKey(c.op, FirstKey))
           /\ ReadsElements(c.op) => c.d = db[TypeOf(c.op)]
<1>1. CallOK(c, stripe, kind) /\ LockKept(t, c, held, stripe, kind, db)
  BY DEF LockInv, ThreadOK
<1>2. ThreadData(c, kind, db, spoiled[FirstKey])
  BY DEF DataInv
<1>3. c.keys = <<FirstKey>> /\ Asked(c.op, c.a, kind) /\ ReadOK(c, kind, db, spoiled[FirstKey])
  BY <1>1, <1>2 DEF CallOK, ThreadData
<1>4. CASE kind = "hash"
  <2>1. c.op \in HashOps
    BY <1>3, <1>4 DEF Asked, HashOps
  <2>2. TypeOf(c.op) = "hash" /\ MetaKey(c.op, FirstKey) = <<FirstKey>>
    BY <2>1, TypesAre
  <2>3. c.m = DbGet(db["hash"], <<FirstKey>>) /\ ~spoiled[FirstKey]
    BY <1>4
  <2>4. ~Fallen(c.m, db["hash"])
    <3>1. SUFFICES ASSUME NEW v, NEW i \in Nat, NEW j \in Nat, c.m = <<i, v, 0>>, <<FirstKey>> \in DOMAIN db["hash"],
                          db["hash"][<<FirstKey>>] = <<j, v, 0>>, j < i
                   PROVE  FALSE
      BY DEF Fallen
    <3>2. c.m = <<j, v, 0>>
      BY <2>3, <3>1 DEF DbGet
    <3>3. c.m[1] = i /\ c.m[1] = j
      BY <3>1, <3>2
    <3> QED
      BY <3>1, <3>3
  <2>5. c.d = db["hash"]
    BY <1>3, <1>4, <2>3, <2>4 DEF ReadOK
  <2> QED
    BY <2>2, <2>3, <2>5
<1>5. CASE kind # "hash"
  <2>1. ~c.dirty
    <3>1. kind # "strings"
      BY <1>3 DEF Asked
    <3> QED
      BY <1>2, <1>5, <3>1 DEF ThreadData
  <2>2. c.op \notin {"MSet", "MSetnx"}
    BY <1>3 DEF Asked
  <2>3. c.m = CurrentIn(db, c.op, c.keys[1])
    BY <1>1, <2>1, <2>2 DEF LockKept, Behind
  <2>4. c.keys[1] = FirstKey
    BY <1>3
  <2>5. ReadsElements(c.op) => c.d = db[TypeOf(c.op)]
    BY <1>3, <2>1 DEF ReadOK
  <2> QED
    BY <2>3, <2>4, <2>5 DEF CurrentIn
<1> QED
  BY <1>4, <1>5

LEMMA HDelWritten ==
    ASSUME NEW c, c.op = "HDel", NEW D, D = db["hash"], IsFcn(D), HashOK(D), c.m = DbGet(D, <<FirstKey>>),
           ~Outdated(c, FirstKey), NEW r, r = Outcome(c, FirstKey)
    PROVE  \/ After(D, r) = D
           \/ \E v, F, G : /\ HashIs(D, v, F) /\ HashIs(After(D, r), v, G)
                           /\ Cardinality(G) < Cardinality(F)
<1>1. r = HDel(c.m, c.d, FirstKey, c.a, now)
  BY OutcomesAre
<1>2. PICK m, d, a : m = c.m /\ d = c.d /\ a = c.a
  OBVIOUS
<1>3. m # NoRec => \A f \in a.fields : BaseDataKey(FirstKey, Meta(m).version, f) \in DOMAIN d
                                    <=> BaseDataKey(FirstKey, Meta(m).version, f) \in DOMAIN D
  BY <1>2 DEF Outdated
<1>4. r = HDel(m, d, FirstKey, a, now) /\ m = DbGet(D, <<FirstKey>>)
  BY <1>1, <1>2
<1> QED
  BY <1>3, <1>4, HDelKept

LEMMA HashWritten ==
    ASSUME DataInv, NEW c, c.op \in HashOps, ArgsOK(c.op, c.a), NEW D, D = db["hash"], IsFcn(D), HashOK(D),
           c.m = DbGet(D, <<FirstKey>>), ReadsElements(c.op) => c.d = D,
           ~Outdated(c, FirstKey), NEW r, r = Outcome(c, FirstKey)
    PROVE  HashOK(After(D, r))
<1>1. now \in Nat
  BY DEF DataInv
<1>2. CASE c.op = "HSet"
  <2>1. c.d = D /\ c.a.value # NoRec
    BY <1>2 DEF ReadsElements, ArgsOK
  <2>2. r = HSet(DbGet(D, <<FirstKey>>), D, FirstKey, c.a, now)
    BY <1>2, <2>1, OutcomesAre
  <2> QED
    BY <1>1, <2>1, <2>2, HSetKept
<1>3. CASE c.op = "HMSet"
  <2>1. /\ c.d = D /\ IsFiniteSet(HMSetFields(c.a.fvs))
        /\ \A f \in HMSetFields(c.a.fvs) : HMSetValue(c.a.fvs, f) # NoRec
    BY <1>3 DEF ReadsElements, ArgsOK
  <2>2. r = HMSet(DbGet(D, <<FirstKey>>), D, FirstKey, c.a, now)
    BY <1>3, <2>1, OutcomesAre
  <2> QED
    BY <1>1, <2>1, <2>2, HMSetKept
<1>4. CASE c.op = "HDel"
  <2>1. After(D, r) = D \/ \E v, F, G : HashIs(D, v, F) /\ HashIs(After(D, r), v, G) /\ Cardinality(G) < Cardinality(F)
    BY <1>4, HDelWritten
  <2>2. CASE After(D, r) = D
    BY <2>2
  <2>3. CASE \E v, G : HashIs(After(D, r), v, G)
    BY <2>3 DEF HashOK
  <2> QED
    BY <2>1, <2>2, <2>3
<1>5. CASE c.op = "HashDel"
  <2>1. c.d = D
    BY <1>5 DEF ReadsElements
  <2>2. r = HashDel(DbGet(D, <<FirstKey>>), D, FirstKey, now)
    BY <1>5, <2>1, OutcomesAre
  <2> QED
    BY <2>2, HashDelKept
<1>6. CASE c.op = "HashExpire"
  <2>1. r = Return("OK", 0)
    BY <1>6, OutcomesAre
  <2> QED
    BY <2>1, NothingWritten
<1> QED
  BY <1>2, <1>3, <1>4, <1>5, <1>6 DEF HashOps

LEMMA SetWritten ==
    ASSUME DataInv, NEW c, c.op \in SetOps, ArgsOK(c.op, c.a), NEW D, D = db["set"], IsFcn(D), SetOK(D),
           c.m = DbGet(D, <<FirstKey>>), ReadsElements(c.op) => c.d = D, NEW r, r = Outcome(c, FirstKey),
           c.op = "SetDel" => r.status # "OK"
    PROVE  SetOK(After(D, r))
<1>1. now \in Nat
  BY DEF DataInv
<1>2. CASE c.op = "SAdd"
  <2>1. c.d = D /\ IsFiniteSet(c.a.members) /\ c.a.members # {}
    BY <1>2 DEF ReadsElements, ArgsOK
  <2>2. r = SAdd(DbGet(D, <<FirstKey>>), D, FirstKey, c.a, now)
    BY <1>2, <2>1, OutcomesAre
  <2> QED
    BY <1>1, <2>1, <2>2, SAddKept
<1>3. CASE c.op = "SetDel"
  <2>1. r = SetDel(c.m, FirstKey, now)
    BY <1>3, OutcomesAre
  <2> QED
    BY <1>3, <2>1, SetDelKept
<1>4. CASE c.op = "SetExpire"
  <2>1. r = Return("OK", 0)
    BY <1>4, OutcomesAre
  <2> QED
    BY <2>1, NothingWritten
<1> QED
  BY <1>2, <1>3, <1>4 DEF SetOps

LEMMA InsertRefused ==
    ASSUME NEW D, IsFcn(D), NEW m, NEW d, NEW a, NEW n, NEW r, r = LInsert(m, d, FirstKey, a, n), r.status # "OK"
    PROVE  After(D, r) = D
<1>1. r = NotFound(0) \/ r = NotFound(-1)
  <2>1. \A ret, P, X : WriteBatch(ret, P, X).status = "OK"
    BY DEF WriteBatch
  <2> QED
    BY <2>1 DEF LInsert
<1> QED
  BY <1>1, NothingWritten DEF NotFound

\* del, dln: whether the list was deleted, before and after.
LEMMA ListWrittenBy ==
    ASSUME DataInv, NEW c, c.op \in ListOps, ArgsOK(c.op, c.a), NEW D, D = db["list"], IsFcn(D),
           NEW del \in BOOLEAN, NEW dln \in BOOLEAN, ListOK(D, del),
           c.m = DbGet(D, ListMetaKey(FirstKey)), ReadsElements(c.op) => c.d = D, NEW r, r = Outcome(c, FirstKey),
           dln <=> del \/ (c.op = "ListDel" /\ r.status = "OK"),
           c.op = "LInsert" /\ r.status = "OK" => del
    PROVE  ListOK(After(D, r), dln)
<1>1. now \in Nat
  BY DEF DataInv
<1>2. CASE c.op = "LPush"
  <2>1. r = LPush(DbGet(D, ListMetaKey(FirstKey)), FirstKey, c.a, now) /\ dln = del /\ Len(c.a.values) \in Nat
    BY <1>2, OutcomesAre DEF ArgsOK
  <2> QED
    BY <1>1, <2>1, LPushKept
<1>3. CASE c.op = "LPop"
  <2>1. r = LPop(D, FirstKey, now) /\ dln = del
    BY <1>3, OutcomesAre
  <2> QED
    BY <2>1, LPopKept
<1>4. CASE c.op = "LInsert"
  <2>1. dln = del /\ c.d = D /\ c.a.before \in BOOLEAN
    BY <1>4 DEF ReadsElements, ArgsOK
  <2>2. r = LInsert(DbGet(D, ListMetaKey(FirstKey)), D, FirstKey, c.a, now)
    BY <1>4, <2>1, OutcomesAre
  <2>3. CASE r.status = "OK"
    <3>1. del = TRUE /\ dln = del
      BY <1>4, <2>1, <2>3
    <3>2. ListOK(D, del)
      BY <3>1
    <3>3. ListOK(After(D, r), del)
      <4>1. PICK a, n : a = c.a /\ n = now
        OBVIOUS
      <4>2. r = LInsert(DbGet(D, ListMetaKey(FirstKey)), D, FirstKey, a, n) /\ IsFcn(D)
        BY <2>1, <2>2, <4>1
      <4>3. a.before = TRUE \/ a.before = FALSE
        BY <2>1, <4>1
      <4> QED
        BY <3>1, <3>2, <4>2, <4>3, LInsertKept
    <3> QED
      BY <3>1, <3>3
  <2>4. CASE r.status # "OK"
    BY <2>1, <2>2, <2>4, InsertRefused
  <2> QED
    BY <2>3, <2>4
<1>5. CASE c.op = "ListDel"
  <2>1. r = ListDel(DbGet(D, ListMetaKey(FirstKey)), FirstKey, now)
    BY <1>5, OutcomesAre
  <2>2. IF r.status = "OK" THEN ListOK(After(D, r), TRUE) ELSE After(D, r) = D
    BY <1>1, <2>1, ListDelKept
  <2>3. r.status = "OK" => dln = TRUE
    BY <1>5
  <2>4. r.status # "OK" => dln = del
    BY <1>5
  <2> QED
    BY <2>2, <2>3, <2>4
<1>6. CASE c.op = "ListExpire"
  <2>1. r = Return("OK", 0) /\ dln = del
    BY <1>6, OutcomesAre
  <2> QED
    BY <2>1, NothingWritten
<1> QED
  BY <1>2, <1>3, <1>4, <1>5, <1>6 DEF ListOps

LEMMA ZSetWritten ==
    ASSUME DataInv, NEW c, c.op \in ZSetOps, ArgsOK(c.op, c.a), NEW D, D = db["zset"], IsFcn(D), ZOK(D),
           c.m = DbGet(D, ZSetMetaKey(FirstKey)), ReadsElements(c.op) => c.d = D, NEW r, r = Outcome(c, FirstKey),
           r.status # "abort"
    PROVE  ZOK(After(D, r))
<1>1. now \in Nat
  BY DEF DataInv
<1>2. CASE c.op = "ZAdd"
  <2>1. c.d = D /\ IsFiniteSet(DOMAIN FirstScores(c.a.sms))
    BY <1>2 DEF ReadsElements, ArgsOK
  <2>2. r = ZAdd(DbGet(D, ZSetMetaKey(FirstKey)), D, FirstKey, c.a, now)
    BY <1>2, <2>1, OutcomesAre
  <2> QED
    BY <1>1, <2>1, <2>2, ZAddKept
<1>3. CASE c.op = "ZIncrby"
  <2>1. c.d = D
    BY <1>3 DEF ReadsElements
  <2>2. r = ZIncrby(DbGet(D, ZSetMetaKey(FirstKey)), D, FirstKey, c.a, now)
    BY <1>3, <2>1, OutcomesAre
  <2> QED
    BY <1>1, <2>2, ZIncrbyKept
<1>4. CASE c.op = "ZSetDel"
  <2>1. r = ZSetDel(DbGet(D, ZSetMetaKey(FirstKey)), FirstKey, now)
    BY <1>4, OutcomesAre
  <2> QED
    BY <1>1, <2>1, ZSetDelKept
<1>5. CASE c.op = "ZSetExpire"
  <2>1. r = ZSetExpire(DbGet(D, ZSetMetaKey(FirstKey)), FirstKey, c.a, now)
    BY <1>5, OutcomesAre
  <2> QED
    BY <1>1, <2>1, ZSetExpireKept
<1> QED
  BY <1>2, <1>3, <1>4, <1>5 DEF ZSetOps

\* The records a command leaves.
LEMMA FinishBase ==
    ASSUME LockInv, DataInv, kind # "mset", NEW t \in Threads, NEW c, c = th[t], c.pc = "write",
           NEW r, r = Result(c), FinishWith(t, c, r)
    PROVE  BaseData(db', spoiled'[FirstKey], deleted')
<1>1. /\ spoiled \in [Keys -> BOOLEAN] /\ DOMAIN db = Types /\ BaseData(db, spoiled[FirstKey], deleted)
      /\ ThreadData(c, kind, db, spoiled[FirstKey]) /\ now \in Nat
  BY DEF DataInv
<1>2. c.keys = <<FirstKey>> /\ c.keys[1] = FirstKey
  BY DEF LockInv, ThreadOK, CallOK
<1>3. Asked(c.op, c.a, kind)
  BY <1>1 DEF ThreadData
<1>4. ArgsOK(c.op, c.a) /\ c.op \notin {"MSet", "MSetnx"}
  BY <1>3 DEF Asked
<1>5. FirstKey \in Keys
  BY FirstKeyIs
<1>6. PICK T : T = TypeOf(c.op)
  OBVIOUS
<1>7. PICK E : E = After(db[T], r)
  OBVIOUS
<1>8. /\ db' = [db EXCEPT ![T] = E]
      /\ spoiled' = [spoiled EXCEPT ![FirstKey] = @ \/ (\/ c.op \notin {"MSet", "MSetnx"} /\ c.m # Current(c.op, FirstKey)
                                                        \/ Outdated(c, FirstKey))
                                                    \/ (c.op = "LInsert" /\ r.status = "OK" /\ <<T, FirstKey>> \notin deleted)]
      /\ deleted' = IF c.op \in {"SetDel", "ListDel"} /\ r.status = "OK" THEN deleted \cup {<<T, FirstKey>>} ELSE deleted
      /\ r.status # "abort"
  BY <1>2, <1>6, <1>7 DEF FinishWith, After
<1>9. PICK sp, spn : sp = spoiled[FirstKey] /\ spn = spoiled'[FirstKey]
  OBVIOUS
<1>10. /\ sp \in BOOLEAN /\ spn \in BOOLEAN /\ (sp => spn)
       /\ ~spn => c.m = Current(c.op, FirstKey) /\ ~Outdated(c, FirstKey)
       /\ ~spn /\ c.op = "LInsert" /\ r.status = "OK" => <<T, FirstKey>> \in deleted
  BY <1>1, <1>4, <1>5, <1>8, <1>9
<1>11. T \in Types
  BY <1>6, TypesAre
<1>12. T # "strings" => r = Outcome(c, FirstKey)
  BY <1>2, <1>4, <1>6 DEF Result
<1>13. IsFcn(E)
  BY <1>7, BatchFcn
<1>14. /\ T = "hash" => c.op \in HashOps
       /\ T = "set" => c.op \in SetOps
       /\ T = "list" => c.op \in ListOps
       /\ T = "zset" => c.op \in ZSetOps
  BY <1>6, TypesAre
<1>15. T \in {"hash", "set", "list"} => Rooted(E)
  <2>1. ASSUME T \in {"hash", "set", "list"} PROVE Rooted(E)
    <3>1. Rooted(db[T])
      BY <1>1, <2>1 DEF BaseData
    <3>2. Rooted(r.puts)
      BY <1>12, <1>14, <2>1, OutcomeRooted
    <3> QED
      BY <1>7, <3>1, <3>2, RootedAfter
  <2> QED
    BY <2>1
<1>16. /\ <<"set", FirstKey>> \in deleted => <<"set", FirstKey>> \in deleted'
       /\ T = "set" /\ <<"set", FirstKey>> \notin deleted' => /\ <<"set", FirstKey>> \notin deleted
                                                              /\ c.op = "SetDel" => r.status # "OK"
       /\ T # "list" => (<<"list", FirstKey>> \in deleted <=> <<"list", FirstKey>> \in deleted')
       /\ T = "list" => (<<"list", FirstKey>> \in deleted'
                           <=> <<"list", FirstKey>> \in deleted \/ (c.op = "ListDel" /\ r.status = "OK"))
  BY <1>8, <1>14 DEF SetOps, ListOps
<1>17. Locked(c.op) <=> c.op \notin {"HDel", "Setrange"}
  BY DEF Locked
<1>18. T = "hash" /\ ~spn => HashOK(E)
  <2>1. SUFFICES ASSUME T = "hash", ~spn PROVE HashOK(E)
    OBVIOUS
  <2>2. c.op \in HashOps /\ ~sp
    BY <1>10, <1>14, <2>1
  <2>3. Current(c.op, FirstKey) = DbGet(db["hash"], <<FirstKey>>)
    BY <2>2, TypesAre DEF Current
  <2>4. c.m = DbGet(db["hash"], <<FirstKey>>) /\ ~Outdated(c, FirstKey)
    BY <1>10, <2>1, <2>3
  <2>5. ReadsElements(c.op) => c.d = db["hash"]
    <3>1. SUFFICES ASSUME ReadsElements(c.op) PROVE c.d = db["hash"]
      OBVIOUS
    <3>2. Locked(c.op)
      BY <1>17, <3>1 DEF ReadsElements
    <3>3. TypeOf(c.op) = "hash"
      BY <1>6, <2>1
    <3>4. ~spoiled[FirstKey]
      BY <1>9, <2>2
    <3> QED
      BY <2>4, <3>1, <3>2, <3>3, <3>4, ReadCurrent
  <2>6. IsFcn(db["hash"]) /\ HashOK(db["hash"])
    <3>1. "hash" \in Types \ {"strings"}
      BY DEF Types
    <3> QED
      BY <1>1, <1>9, <2>2, <3>1 DEF BaseData
  <2>7. r = Outcome(c, FirstKey)
    BY <1>12, <2>1
  <2>8. HashOK(After(db["hash"], r))
    BY <1>4, <2>2, <2>4, <2>5, <2>6, <2>7, HashWritten
  <2> QED
    BY <1>7, <2>1, <2>8
<1>19. ASSUME T \in {"set", "list", "zset"}
       PROVE  /\ c.m = DbGet(db[T], MetaKey(c.op, FirstKey)) /\ (ReadsElements(c.op) => c.d = db[T])
              /\ IsFcn(db[T])
  <2>1. Locked(c.op) /\ kind # "hash"
    <3>1. c.op \notin HashOps /\ c.op # "Setrange"
      <4>1. c.op \in SetOps \cup ListOps \cup ZSetOps
        BY <1>14, <1>19
      <4> QED
        BY <4>1 DEF HashOps, SetOps, ListOps, ZSetOps
    <3> QED
      BY <1>3, <1>17, <3>1 DEF Asked, HashOps
  <2>2. TypeOf(c.op) # "strings"
    BY <1>6, <1>19
  <2>3. /\ c.m = DbGet(db[TypeOf(c.op)], MetaKey(c.op, FirstKey))
        /\ ReadsElements(c.op) => c.d = db[TypeOf(c.op)]
    BY <2>1, <2>2, ReadCurrent
  <2>4. T \in Types \ {"strings"}
    BY <1>11, <1>19
  <2> QED
    BY <1>1, <1>6, <2>3, <2>4 DEF BaseData
<1>20. T = "set" /\ <<"set", FirstKey>> \notin deleted' => SetOK(E)
  <2>1. SUFFICES ASSUME T = "set", <<"set", FirstKey>> \notin deleted' PROVE SetOK(E)
    OBVIOUS
  <2>2. c.op \in SetOps /\ r = Outcome(c, FirstKey)
    BY <1>12, <1>14, <2>1
  <2>3. c.m = DbGet(db["set"], <<FirstKey>>) /\ (ReadsElements(c.op) => c.d = db["set"]) /\ IsFcn(db["set"])
    BY <1>19, <2>1, <2>2, TypesAre
  <2>4. (c.op = "SetDel" => r.status # "OK") /\ SetOK(db["set"])
    BY <1>1, <1>16, <2>1 DEF BaseData
  <2>5. SetOK(After(db["set"], r))
    BY <1>4, <2>2, <2>3, <2>4, SetWritten
  <2> QED
    BY <1>7, <2>1, <2>5
<1>21. T = "list" /\ ~spn => ListOK(E, <<"list", FirstKey>> \in deleted')
  <2>1. SUFFICES ASSUME T = "list", ~spn PROVE ListOK(E, <<"list", FirstKey>> \in deleted')
    OBVIOUS
  <2>2. c.op \in ListOps /\ r = Outcome(c, FirstKey) /\ ~sp
    BY <1>10, <1>12, <1>14, <2>1
  <2>3. c.m = DbGet(db["list"], ListMetaKey(FirstKey)) /\ (ReadsElements(c.op) => c.d = db["list"]) /\ IsFcn(db["list"])
    BY <1>19, <2>1, <2>2, TypesAre
  <2>4. PICK del, dln : del = (<<"list", FirstKey>> \in deleted) /\ dln = (<<"list", FirstKey>> \in deleted')
    OBVIOUS
  <2>5. del \in BOOLEAN /\ dln \in BOOLEAN
    BY <2>4
  <2>6. dln <=> del \/ (c.op = "ListDel" /\ r.status = "OK")
    BY <1>16, <2>1, <2>4
  <2>7. c.op = "LInsert" /\ r.status = "OK" => del
    BY <1>10, <2>1, <2>4
  <2>8. ListOK(db["list"], del)
    BY <1>1, <1>9, <2>2, <2>4 DEF BaseData
  <2>9. ListOK(After(db["list"], r), dln)
    BY <1>4, <2>2, <2>3, <2>5, <2>6, <2>7, <2>8, ListWrittenBy
  <2> QED
    BY <1>7, <2>1, <2>4, <2>9
<1>22. T = "zset" => ZOK(E)
  <2>1. SUFFICES ASSUME T = "zset" PROVE ZOK(E)
    OBVIOUS
  <2>2. c.op \in ZSetOps /\ r = Outcome(c, FirstKey) /\ r.status # "abort"
    BY <1>8, <1>12, <1>14, <2>1
  <2>3. c.m = DbGet(db["zset"], ZSetMetaKey(FirstKey)) /\ (ReadsElements(c.op) => c.d = db["zset"]) /\ IsFcn(db["zset"])
    BY <1>19, <2>1, <2>2, TypesAre
  <2>4. ZOK(db["zset"])
    BY <1>1 DEF BaseData
  <2>5. ZOK(After(db["zset"], r))
    BY <1>4, <2>2, <2>3, <2>4, ZSetWritten
  <2> QED
    BY <1>7, <2>1, <2>5
<1>23. PICK base, next, del, deln : base = db /\ next = db' /\ del = deleted /\ deln = deleted'
  OBVIOUS
<1>24. BaseData(next, spn, deln)
  <2>1. DOMAIN base = Types /\ BaseData(base, sp, del) /\ next = [base EXCEPT ![T] = E]
    BY <1>1, <1>8, <1>9, <1>23
  <2>2. /\ (<<"set", FirstKey>> \in del => <<"set", FirstKey>> \in deln)
        /\ (T # "list" => (<<"list", FirstKey>> \in del <=> <<"list", FirstKey>> \in deln))
        /\ (T = "set" /\ <<"set", FirstKey>> \notin deln => SetOK(E))
        /\ (T = "list" /\ ~spn => ListOK(E, <<"list", FirstKey>> \in deln))
    BY <1>16, <1>20, <1>21, <1>23
  <2> QED
    BY <1>10, <1>11, <1>13, <1>15, <1>18, <1>22, <2>1, <2>2, OneBase
<1> QED
  BY <1>9, <1>23, <1>24

\* A command that waits behind its lock while HDel writes.
LEMMA ReaderOutrun ==
    ASSUME NEW D, NEW E, E = D \/ \E v, F, G : /\ HashIs(D, v, F) /\ HashIs(E, v, G) /\ Cardinality(G) < Cardinality(F),
           NEW m, NEW d, NEW wrote, \/ m = DbGet(D, <<FirstKey>>) /\ (wrote => d = D)
                                    \/ Fallen(m, D)
    PROVE  \/ m = DbGet(E, <<FirstKey>>) /\ (wrote => d = E)
           \/ Fallen(m, E)
<1>1. CASE E = D
  BY <1>1
<1>2. ASSUME NEW v, NEW F, NEW G, HashIs(D, v, F), HashIs(E, v, G), Cardinality(G) < Cardinality(F)
      PROVE  Fallen(m, E)
  <2>1. /\ <<FirstKey>> \in DOMAIN D /\ D[<<FirstKey>>] = <<Cardinality(F), v, 0>> /\ IsFiniteSet(F)
        /\ <<FirstKey>> \in DOMAIN E /\ E[<<FirstKey>>] = <<Cardinality(G), v, 0>> /\ IsFiniteSet(G)
    BY <1>2 DEF HashIs, HashRecs
  <2>2. Cardinality(F) \in Nat /\ Cardinality(G) \in Nat
    BY <2>1, FS_CardinalityType
  <2>3. CASE m = DbGet(D, <<FirstKey>>)
    <3>1. m = <<Cardinality(F), v, 0>>
      BY <2>1, <2>3 DEF DbGet
    <3> QED
      BY <1>2, <2>1, <2>2, <3>1 DEF Fallen
  <2>4. CASE Fallen(m, D)
    <3>0. PICK w : \E i, j \in Nat : m = <<i, w, 0>> /\ D[<<FirstKey>>] = <<j, w, 0>> /\ j < i
      BY <2>4 DEF Fallen
    <3>1. PICK i \in Nat, j \in Nat : m = <<i, w, 0>> /\ D[<<FirstKey>>] = <<j, w, 0>> /\ j < i
      BY <3>0
    <3>2. w = v /\ j = Cardinality(F)
      BY <2>1, <3>1
    <3>3. Cardinality(G) < i
      BY <1>2, <2>2, <3>1, <3>2
    <3> QED
      BY <2>1, <2>2, <3>1, <3>2, <3>3 DEF Fallen
  <2> QED
    BY <2>3, <2>4
<1> QED
  BY <1>1, <1>2

LEMMA FinishData ==
    ASSUME LockInv, DataInv, NEW t \in Threads, Finish(t)
    PROVE  DataInv'
<1>1. PICK c : c = th[t]
  OBVIOUS
<1>2. PICK r : r = Result(c)
  OBVIOUS
<1>3. c.pc = "write" /\ FinishWith(t, c, r)
  BY <1>1, <1>2 DEF Finish
<1>4. PICK T, key : T = TypeOf(c.op) /\ key = c.keys[1]
  OBVIOUS
<1>5. PICK b : b \in BOOLEAN /\ spoiled' = [spoiled EXCEPT ![key] = @ \/ b]
                /\ b = (\/ (\/ c.op \notin {"MSet", "MSetnx"} /\ c.m # Current(c.op, key)
                            \/ Outdated(c, key))
                        \/ (c.op = "LInsert" /\ r.status = "OK" /\ <<T, key>> \notin deleted))
  BY <1>3, <1>4 DEF FinishWith
<1>6. /\ db' = [db EXCEPT ![T] = After(db[T], r)] /\ kind' = kind /\ now' = now
      /\ th' = [u \in Threads |-> IF u = t THEN Idle ELSE [th[u] EXCEPT !.dirty = th[u].dirty \/ ~ Locked(c.op)]]
      /\ deleted' = IF c.op \in {"SetDel", "ListDel"} /\ r.status = "OK" THEN deleted \cup {<<T, key>>} ELSE deleted
  BY <1>3, <1>4 DEF FinishWith, After
<1>7. /\ now \in Nat /\ spoiled \in [Keys -> BOOLEAN] /\ DOMAIN db = Types
      /\ BaseData(db, spoiled[FirstKey], deleted)
      /\ \A u \in Threads : ThreadData(th[u], kind, db, spoiled[FirstKey])
  BY DEF DataInv
<1>8. /\ \A u \in Threads : ThreadOK(u, th[u], held, stripe, kind, db)
  BY DEF LockInv
<1>9. c.keys \in Vectors /\ IF kind = "mset" THEN c.op \in {"MSet", "MSetnx"} ELSE c.keys = <<FirstKey>>
  BY <1>1, <1>3, <1>8 DEF ThreadOK, CallOK
<1>10. spoiled' \in [Keys -> BOOLEAN] /\ DOMAIN db' = Types
  BY <1>5, <1>6, <1>7
<1>11. BaseData(db', spoiled'[FirstKey], deleted')
  <2>1. CASE kind # "mset"
    BY <1>1, <1>2, <1>3, <2>1, FinishBase
  <2>2. CASE kind = "mset"
    <3>1. c.op \in {"MSet", "MSetnx"}
      BY <1>9, <2>2
    <3>2. T = "strings" /\ T \in Types
      BY <1>4, <3>1 DEF TypeOf, Types
    <3>3. /\ c.op \notin {"SetDel", "ListDel"} /\ deleted' = deleted
      BY <1>6, <3>1
    <3>4. PICK sp, spn : sp = spoiled[FirstKey] /\ spn = spoiled'[FirstKey]
      OBVIOUS
    <3>5. sp \in BOOLEAN /\ spn \in BOOLEAN /\ (sp => spn)
      BY <1>5, <1>7, <1>10, <3>4, FirstKeyIs
    <3>6. PICK base, next, del : base = db /\ next = db' /\ del = deleted
      OBVIOUS
    <3>7. DOMAIN base = Types /\ BaseData(base, sp, del) /\ next = [base EXCEPT ![T] = After(db[T], r)]
      BY <1>6, <1>7, <3>4, <3>6
    <3>8. BaseData(next, spn, del)
      <4>1. PICK E : E = After(db[T], r)
        OBVIOUS
      <4>2. T \in Types /\ T \notin {"hash", "set", "list", "zset"} /\ next = [base EXCEPT ![T] = E]
        BY <3>2, <3>7, <4>1
      <4>3. \A U \in Types \ {"strings"} : next[U] = base[U]
        BY <3>2, <3>7, <4>2
      <4>4. next["hash"] = base["hash"] /\ next["set"] = base["set"] /\ next["list"] = base["list"] /\ next["zset"] = base["zset"]
        BY <4>3 DEF Types
      <4> QED
        BY <3>5, <3>7, <4>3, <4>4 DEF BaseData
    <3> QED
      BY <3>3, <3>4, <3>6, <3>8
  <2> QED
    BY <2>1, <2>2
<1>12. ASSUME NEW u \in Threads PROVE ThreadData(th'[u], kind, db', spoiled'[FirstKey])
  <2>1. CASE u = t
    <3>1. th'[u] = Idle /\ Idle.pc = "idle" /\ Idle.dirty = FALSE
      BY <1>6, <2>1 DEF Idle
    <3> QED
      BY <3>1 DEF ThreadData, ReadOK
  <2>2. CASE u # t
    <3>1. PICK x : x = th[u]
      OBVIOUS
    <3>2. PICK f : f = (x.dirty \/ ~ Locked(c.op))
      OBVIOUS
    <3>3. PICK e : e = [x EXCEPT !.dirty = f]
      OBVIOUS
    <3>4. th'[u] = e
      BY <1>6, <2>2, <3>1, <3>2, <3>3
    <3>5. DOMAIN x = Fields /\ ThreadData(x, kind, db, spoiled[FirstKey])
      BY <1>7, <1>8, <3>1 DEF ThreadOK, CallOK
    <3>6. e.dirty = f /\ e.pc = x.pc /\ e.op = x.op /\ e.a = x.a /\ e.m = x.m /\ e.d = x.d
      BY <3>3, <3>5 DEF Fields
    <3>7. kind # "mset" => Asked(c.op, c.a, kind)
      BY <1>1, <1>3, <1>7 DEF ThreadData
    <3>8. f => kind \in {"hash", "strings"}
      <4>1. ~Locked(c.op) => kind \in {"hash", "strings"}
        <5>1. ~Locked(c.op) => c.op \in {"HDel", "Setrange"}
          BY DEF Locked
        <5>2. kind # "mset" \/ c.op \in {"MSet", "MSetnx"}
          BY <1>9
        <5> QED
          BY <3>7, <5>1, <5>2 DEF Asked
      <4> QED
        BY <3>2, <3>5, <4>1 DEF ThreadData
    <3>9. ASSUME kind # "mset", Locked(e.op), e.pc \in {"data", "write"}
          PROVE  /\ f
                 /\ kind = "hash" /\ ~spoiled'[FirstKey] =>
                       \/ e.m = DbGet(db'["hash"], <<FirstKey>>) /\ (e.pc = "write" => e.d = db'["hash"])
                       \/ Fallen(e.m, db'["hash"])
      <4>1. ~Locked(c.op)
        <5>1. SUFFICES ASSUME Locked(c.op) PROVE FALSE
          OBVIOUS
        <5>2. th[t].pc \in Behind /\ Locked(th[t].op) /\ th[u].pc \in Behind /\ Locked(th[u].op)
          BY <1>1, <1>3, <3>1, <3>6, <3>9, <5>1 DEF Behind
        <5> QED
          BY <2>2, <3>9, <5>2, OneBehind
      <4>2. f
        BY <3>2, <4>1
      <4>3. ASSUME kind = "hash", ~spoiled'[FirstKey]
            PROVE  \/ e.m = DbGet(db'["hash"], <<FirstKey>>) /\ (e.pc = "write" => e.d = db'["hash"])
                   \/ Fallen(e.m, db'["hash"])
        <5>1. c.op = "HDel"
          BY <3>7, <3>9, <4>1, <4>3 DEF Asked, Locked
        <5>2. T = "hash" /\ key = FirstKey /\ MetaKey(c.op, FirstKey) = <<FirstKey>>
          BY <1>4, <1>9, <3>9, <5>1, TypesAre DEF HashOps
        <5>3. ~b /\ ~spoiled[FirstKey]
          BY <1>5, <1>7, <4>3, <5>2, FirstKeyIs
        <5>4. c.m = DbGet(db["hash"], <<FirstKey>>) /\ ~Outdated(c, FirstKey)
          BY <1>4, <1>5, <5>1, <5>2, <5>3 DEF Current
        <5>5. IsFcn(db["hash"]) /\ HashOK(db["hash"]) /\ "hash" \in Types
          <6>1. "hash" \in Types \ {"strings"}
            BY DEF Types
          <6> QED
            BY <1>7, <5>3, <6>1 DEF BaseData
        <5>6. r = Outcome(c, FirstKey)
          BY <1>2, <1>4, <5>1, <5>2 DEF Result
        <5>7. PICK D, E : D = db["hash"] /\ E = db'["hash"]
          OBVIOUS
        <5>8. E = After(D, r)
          BY <1>6, <1>7, <5>2, <5>5, <5>7
        <5>9. E = D \/ \E v, F, G : /\ HashIs(D, v, F) /\ HashIs(E, v, G) /\ Cardinality(G) < Cardinality(F)
          BY <5>1, <5>4, <5>5, <5>6, <5>7, <5>8, HDelWritten
        <5>10. \/ x.m = DbGet(D, <<FirstKey>>) /\ (x.pc = "write" => x.d = D)
               \/ Fallen(x.m, D)
          BY <3>5, <3>6, <3>9, <4>3, <5>3, <5>7 DEF ThreadData, ReadOK
        <5>11. PICK wrote : wrote = (x.pc = "write")
          OBVIOUS
        <5>12. \/ x.m = DbGet(D, <<FirstKey>>) /\ (wrote => x.d = D)
               \/ Fallen(x.m, D)
          BY <5>10, <5>11
        <5>13. \/ x.m = DbGet(E, <<FirstKey>>) /\ (wrote => x.d = E)
               \/ Fallen(x.m, E)
          BY <5>9, <5>12, ReaderOutrun
        <5> QED
          BY <3>6, <5>7, <5>11, <5>13
      <4> QED
        BY <4>2, <4>3
    <3>10. ReadOK(e, kind, db', spoiled'[FirstKey])
      BY <3>6, <3>9 DEF ReadOK
    <3>11. ThreadData(e, kind, db', spoiled'[FirstKey])
      BY <3>5, <3>6, <3>8, <3>10 DEF ThreadData
    <3> QED
      BY <3>4, <3>11
  <2> QED
    BY <2>1, <2>2
<1> QED
  BY <1>6, <1>7, <1>10, <1>11, <1>12 DEF DataInv

LEMMA SubIs ==
    ASSUME NEW op, NEW a, NEW c, c = Sub(op, FirstKey, a)
    PROVE  /\ c.op = op /\ c.a = a /\ c.keys[1] = FirstKey /\ c.d = db[TypeOf(op)]
           /\ c.m = DbGet(db[TypeOf(op)], MetaKey(op, FirstKey))
  BY DEF Sub, Idle, Current

LEMMA ZStatus ==
    ASSUME NEW c, c.op \in {"ZSetDel", "ZSetExpire"}
    PROVE  Outcome(c, FirstKey).status # "abort"
<1>1. CASE c.op = "ZSetDel"
  BY <1>1, OutcomesAre DEF ZSetDel, WriteBatch, NotFound, Return
<1>2. CASE c.op = "ZSetExpire"
  <2>1. \A ret, P, X : WriteBatch(ret, P, X).status = "OK"
    BY DEF WriteBatch
  <2>2. NotFound(0).status = "NotFound"
    BY DEF NotFound, Return
  <2>3. PICK m, a, n, r : m = c.m /\ a = c.a /\ n = now /\ r = ZSetExpire(m, FirstKey, a, n)
    OBVIOUS
  <2>4. r.status = "OK" \/ r.status = "NotFound"
    BY <2>1, <2>2, <2>3 DEF ZSetExpire
  <2>5. Outcome(c, FirstKey) = r
    BY <1>2, <2>3, OutcomesAre
  <2> QED
    BY <2>4, <2>5
<1> QED
  BY <1>1, <1>2

\* RedisDB::Del and RedisDB::Expire: a command of every type.
LEMMA KeyCommandData ==
    ASSUME LockInv, DataInv, NEW s \in {"Del", "Expire"}, NEW h \in {"HashDel", "HashExpire"},
           NEW e \in {"SetDel", "SetExpire"}, NEW l \in {"ListDel", "ListExpire"},
           NEW z \in {"ZSetDel", "ZSetExpire"}, NEW ops, ops = {s, h, e, l, z}, NEW a, KeyCommand(ops, FirstKey, a)
    PROVE  DataInv'
<1>1. PICK R : R = [op \in ops |-> Result(Sub(op, FirstKey, a))]
  OBVIOUS
<1>2. KeyCommandWith(ops, FirstKey, a, R)
  BY <1>1 DEF KeyCommand
<1>3. /\ \A t \in Threads : th[t].pc = "idle"
      /\ db' = [T \in Types |-> ApplyBatch(db[T], R[CHOOSE op \in ops : TypeOf(op) = T].puts,
                                                  R[CHOOSE op \in ops : TypeOf(op) = T].dels)]
      /\ deleted' = deleted \cup {<<TypeOf(op), FirstKey>> :
                                     op \in {x \in ops \cap {"SetDel", "ListDel"} : R[x].status = "OK"}}
      /\ kind' = kind /\ now' = now /\ th' = th /\ spoiled' = spoiled
  BY <1>2 DEF KeyCommandWith
<1>4. h \in HashOps /\ e \in SetOps /\ l \in ListOps /\ z \in ZSetOps /\ s \notin HashOps \cup SetOps \cup ListOps \cup ZSetOps
  BY DEF HashOps, SetOps, ListOps, ZSetOps
<1>5. /\ TypeOf(s) = "strings" /\ TypeOf(h) = "hash" /\ TypeOf(e) = "set" /\ TypeOf(l) = "list" /\ TypeOf(z) = "zset"
      /\ MetaKey(h, FirstKey) = <<FirstKey>> /\ MetaKey(e, FirstKey) = <<FirstKey>>
      /\ MetaKey(l, FirstKey) = ListMetaKey(FirstKey) /\ MetaKey(z, FirstKey) = ZSetMetaKey(FirstKey)
  BY <1>4, TypesAre
<1>6. /\ \A op \in ops : op \in {s, h, e, l, z}
      /\ h \in ops /\ e \in ops /\ l \in ops /\ z \in ops
  OBVIOUS
<1>7. /\ (CHOOSE op \in ops : TypeOf(op) = "hash") = h /\ (CHOOSE op \in ops : TypeOf(op) = "set") = e
      /\ (CHOOSE op \in ops : TypeOf(op) = "list") = l /\ (CHOOSE op \in ops : TypeOf(op) = "zset") = z
  BY <1>5, <1>6
<1>8. "hash" \in Types /\ "set" \in Types /\ "list" \in Types /\ "zset" \in Types
  BY DEF Types
<1>9. /\ db'["hash"] = After(db["hash"], R[h]) /\ db'["set"] = After(db["set"], R[e])
      /\ db'["list"] = After(db["list"], R[l]) /\ db'["zset"] = After(db["zset"], R[z])
  BY <1>3, <1>7, <1>8 DEF After
<1>10. PICK ch, ce, cl, cz : /\ ch = Sub(h, FirstKey, a) /\ ce = Sub(e, FirstKey, a)
                             /\ cl = Sub(l, FirstKey, a) /\ cz = Sub(z, FirstKey, a)
  OBVIOUS
<1>11. /\ ch.op = h /\ ch.a = a /\ ch.keys[1] = FirstKey /\ ch.d = db["hash"] /\ ch.m = DbGet(db["hash"], <<FirstKey>>)
       /\ ce.op = e /\ ce.a = a /\ ce.keys[1] = FirstKey /\ ce.d = db["set"] /\ ce.m = DbGet(db["set"], <<FirstKey>>)
       /\ cl.op = l /\ cl.a = a /\ cl.keys[1] = FirstKey /\ cl.d = db["list"]
       /\ cl.m = DbGet(db["list"], ListMetaKey(FirstKey))
       /\ cz.op = z /\ cz.a = a /\ cz.keys[1] = FirstKey /\ cz.d = db["zset"]
       /\ cz.m = DbGet(db["zset"], ZSetMetaKey(FirstKey))
  BY <1>5, <1>10, SubIs
<1>12. ASSUME NEW c, c.keys[1] = FirstKey, TypeOf(c.op) # "strings", c.op \notin {"MSet", "MSetnx"}
       PROVE  Result(c) = Outcome(c, FirstKey)
  BY <1>12 DEF Result
<1>13. /\ R[h] = Result(ch) /\ R[e] = Result(ce) /\ R[l] = Result(cl) /\ R[z] = Result(cz)
  BY <1>1, <1>6, <1>10
<1>14. /\ R[h] = Outcome(ch, FirstKey) /\ R[e] = Outcome(ce, FirstKey)
       /\ R[l] = Outcome(cl, FirstKey) /\ R[z] = Outcome(cz, FirstKey)
  BY <1>5, <1>11, <1>12, <1>13
<1>15. ArgsOK(h, a) /\ ArgsOK(e, a) /\ ArgsOK(l, a) /\ ArgsOK(z, a)
  BY DEF ArgsOK
<1>16. /\ now \in Nat /\ spoiled \in [Keys -> BOOLEAN] /\ DOMAIN db = Types
       /\ BaseData(db, spoiled[FirstKey], deleted)
       /\ \A t \in Threads : ThreadData(th[t], kind, db, spoiled[FirstKey])
  BY DEF DataInv
<1>17. IsFcn(db["hash"]) /\ IsFcn(db["set"]) /\ IsFcn(db["list"]) /\ IsFcn(db["zset"])
  <2>1. "hash" \in Types \ {"strings"} /\ "set" \in Types \ {"strings"} /\ "list" \in Types \ {"strings"} /\ "zset" \in Types \ {"strings"}
    BY DEF Types
  <2> QED
    BY <1>16, <2>1 DEF BaseData
<1>18. Rooted(db'["hash"]) /\ Rooted(db'["set"]) /\ Rooted(db'["list"])
  <2>1. Rooted(db["hash"]) /\ Rooted(db["set"]) /\ Rooted(db["list"])
    BY <1>16 DEF BaseData
  <2>2. Rooted(R[h].puts) /\ Rooted(R[e].puts) /\ Rooted(R[l].puts)
    BY <1>4, <1>11, <1>14, OutcomeRooted
  <2> QED
    BY <1>9, <2>1, <2>2, RootedAfter
<1>19. \A T \in Types \ {"strings"} : IsFcn(db'[T])
  <2>1. \A T \in Types \ {"strings"} : T = "hash" \/ T = "set" \/ T = "list" \/ T = "zset"
    BY DEF Types
  <2> QED
    BY <1>9, <2>1, BatchFcn
<1>20. ~spoiled[FirstKey] => HashOK(db'["hash"])
  <2>1. SUFFICES ASSUME ~spoiled[FirstKey] PROVE HashOK(db'["hash"])
    OBVIOUS
  <2>2. HashOK(db["hash"])
    BY <1>16, <2>1 DEF BaseData
  <2>3. ~Outdated(ch, FirstKey)
    BY <1>11 DEF Outdated
  <2>4. PICK D, r : D = db["hash"] /\ r = R[h]
    OBVIOUS
  <2>5. /\ ch.op \in HashOps /\ ArgsOK(ch.op, ch.a) /\ IsFcn(D) /\ HashOK(D) /\ ch.m = DbGet(D, <<FirstKey>>)
        /\ ch.d = D /\ r = Outcome(ch, FirstKey)
    BY <1>4, <1>11, <1>14, <1>15, <1>17, <2>2, <2>4
  <2>6. HashOK(After(D, r))
    BY <2>3, <2>4, <2>5, HashWritten
  <2> QED
    BY <1>9, <2>4, <2>6
<1>21. /\ e = "SetDel" /\ R[e].status = "OK" => <<"set", FirstKey>> \in deleted'
       /\ <<"set", FirstKey>> \in deleted => <<"set", FirstKey>> \in deleted'
       /\ <<"list", FirstKey>> \in deleted' <=> <<"list", FirstKey>> \in deleted \/ (l = "ListDel" /\ R[l].status = "OK")
  <2>1. \A y : y \in deleted' <=> y \in deleted \/ \E x \in ops : /\ x \in {"SetDel", "ListDel"} /\ R[x].status = "OK"
                                                                 /\ y = <<TypeOf(x), FirstKey>>
    BY <1>3
  <2>2. <<"list", FirstKey>> \in deleted' => <<"list", FirstKey>> \in deleted \/ (l = "ListDel" /\ R[l].status = "OK")
    <3>1. SUFFICES ASSUME NEW x \in ops, x \in {"SetDel", "ListDel"}, R[x].status = "OK",
                          <<"list", FirstKey>> = <<TypeOf(x), FirstKey>>
                   PROVE  l = "ListDel" /\ R[l].status = "OK"
      BY <2>1
    <3>2. TypeOf(x) = "list"
      BY <3>1
    <3>3. x = l
      BY <1>5, <1>6, <3>2
    <3>4. x # "SetDel"
      BY <3>2 DEF TypeOf
    <3> QED
      BY <3>1, <3>3, <3>4
  <2>3. e = "SetDel" /\ R[e].status = "OK" => <<"set", FirstKey>> \in deleted'
    BY <1>5, <1>6, <2>1
  <2>4. l = "ListDel" /\ R[l].status = "OK" => <<"list", FirstKey>> \in deleted'
    BY <1>5, <1>6, <2>1
  <2> QED
    BY <2>1, <2>2, <2>3, <2>4
<1>22. <<"set", FirstKey>> \notin deleted' => SetOK(db'["set"])
  <2>1. SUFFICES ASSUME <<"set", FirstKey>> \notin deleted' PROVE SetOK(db'["set"])
    OBVIOUS
  <2>2. PICK D, r : D = db["set"] /\ r = R[e]
    OBVIOUS
  <2>3. SetOK(D)
    BY <1>16, <1>21, <2>1, <2>2 DEF BaseData
  <2>4. ce.op = "SetDel" => r.status # "OK"
    BY <1>11, <1>21, <2>1, <2>2
  <2>5. /\ ce.op \in SetOps /\ ArgsOK(ce.op, ce.a) /\ IsFcn(D) /\ ce.m = DbGet(D, <<FirstKey>>)
        /\ ce.d = D /\ r = Outcome(ce, FirstKey)
    BY <1>4, <1>11, <1>14, <1>15, <1>17, <2>2
  <2>6. SetOK(After(D, r))
    BY <2>2, <2>3, <2>4, <2>5, SetWritten
  <2> QED
    BY <1>9, <2>2, <2>6
<1>23. ~spoiled[FirstKey] => ListOK(db'["list"], <<"list", FirstKey>> \in deleted')
  <2>1. SUFFICES ASSUME ~spoiled[FirstKey] PROVE ListOK(db'["list"], <<"list", FirstKey>> \in deleted')
    OBVIOUS
  <2>2. PICK D, r : D = db["list"] /\ r = R[l]
    OBVIOUS
  <2>3. PICK del, dln : del = (<<"list", FirstKey>> \in deleted) /\ dln = (<<"list", FirstKey>> \in deleted')
    OBVIOUS
  <2>4. del \in BOOLEAN /\ dln \in BOOLEAN
    BY <2>3
  <2>5. dln <=> del \/ (cl.op = "ListDel" /\ r.status = "OK")
    BY <1>11, <1>21, <2>2, <2>3
  <2>6. ListOK(D, del)
    BY <1>16, <2>1, <2>2, <2>3 DEF BaseData
  <2>7. /\ cl.op \in ListOps /\ ArgsOK(cl.op, cl.a) /\ IsFcn(D) /\ cl.m = DbGet(D, ListMetaKey(FirstKey))
        /\ cl.d = D /\ r = Outcome(cl, FirstKey) /\ cl.op # "LInsert"
    BY <1>4, <1>11, <1>14, <1>15, <1>17, <2>2
  <2>8. ListOK(After(D, r), dln)
    BY <2>2, <2>4, <2>5, <2>6, <2>7, ListWrittenBy
  <2> QED
    BY <1>9, <2>2, <2>3, <2>8
<1>24. ZOK(db'["zset"])
  <2>1. PICK D, r : D = db["zset"] /\ r = R[z]
    OBVIOUS
  <2>2. ZOK(D)
    BY <1>16, <2>1 DEF BaseData
  <2>3. /\ cz.op \in ZSetOps /\ ArgsOK(cz.op, cz.a) /\ IsFcn(D) /\ cz.m = DbGet(D, ZSetMetaKey(FirstKey))
        /\ cz.d = D /\ r = Outcome(cz, FirstKey)
    BY <1>4, <1>11, <1>14, <1>15, <1>17, <2>1
  <2>4. r.status # "abort"
    BY <1>11, <2>3, ZStatus
  <2>5. ZOK(After(D, r))
    BY <2>1, <2>2, <2>3, <2>4, ZSetWritten
  <2> QED
    BY <1>9, <2>1, <2>5
<1>25. BaseData(db', spoiled[FirstKey], deleted')
  BY <1>18, <1>19, <1>20, <1>22, <1>23, <1>24 DEF BaseData
<1>26. \A t \in Threads : ThreadData(th[t], kind, db', spoiled[FirstKey])
  BY <1>3, <1>16 DEF ThreadData, ReadOK
<1>27. DOMAIN db' = Types
  BY <1>3
<1> QED
  BY <1>3, <1>16, <1>25, <1>26, <1>27 DEF DataInv

LEMMA ClientData ==
    ASSUME LockInv, DataInv, NEW t \in Threads, Client(t)
    PROVE  DataInv'
<1>1. CASE kind # "mset" /\ \E c \in CallsOf(kind) : Call(t, c[1], <<FirstKey>>, c[2])
  <2>1. PICK c \in CallsOf(kind) : Call(t, c[1], <<FirstKey>>, c[2])
    BY <1>1
  <2>2. Asked(c[1], c[2], kind)
    BY CallsAsked
  <2> QED
    BY <2>1, <2>2, CallData
<1>2. CASE kind = "mset" /\ \E op \in {"MSet", "MSetnx"}, ks \in KeyVectors : Call(t, op, ks, [v |-> One])
  BY <1>2, CallData
<1> QED
  BY <1>1, <1>2 DEF Client

LEMMA NextData == LockInv /\ DataInv /\ [Next]_vars => DataInv'
<1> SUFFICES ASSUME LockInv, DataInv, [Next]_vars PROVE DataInv'
  OBVIOUS
<1>1. ASSUME NEW t \in Threads, Client(t) PROVE DataInv'
  BY <1>1, ClientData
<1>2. ASSUME NEW t \in Threads, Probe(t) PROVE DataInv'
  BY <1>2, ProbeData
<1>3. ASSUME NEW t \in Threads, Lock(t) PROVE DataInv'
  BY <1>3, LockData
<1>4. ASSUME NEW t \in Threads, ReadMeta(t) PROVE DataInv'
  BY <1>4, ReadMetaData
<1>5. ASSUME NEW t \in Threads, ReadElements(t) PROVE DataInv'
  BY <1>5, ReadElementsData
<1>6. ASSUME NEW t \in Threads, Finish(t) PROVE DataInv'
  BY <1>6, FinishData
<1>7. ASSUME RedisDel(FirstKey) \/ \E n \in {0, 1} : RedisExpire(FirstKey, n) PROVE DataInv'
  <2>1. ASSUME RedisDel(FirstKey) PROVE DataInv'
    <3>1. PICK ops : ops = {"Del", "HashDel", "SetDel", "ListDel", "ZSetDel"}
      OBVIOUS
    <3>2. KeyCommand(ops, FirstKey, <<>>)
      BY <2>1, <3>1 DEF RedisDel
    <3> QED
      BY <3>1, <3>2, KeyCommandData
  <2>2. ASSUME NEW n, RedisExpire(FirstKey, n) PROVE DataInv'
    <3>1. PICK ops : ops = {"Expire", "HashExpire", "SetExpire", "ListExpire", "ZSetExpire"}
      OBVIOUS
    <3>2. KeyCommand(ops, FirstKey, [ttl |-> n])
      BY <2>2, <3>1 DEF RedisExpire
    <3> QED
      BY <3>1, <3>2, KeyCommandData
  <2> QED
    BY <1>7, <2>1, <2>2
<1>8. CASE Tick
  <2>1. now' = now + 1 /\ kind' = kind /\ db' = db /\ th' = th /\ spoiled' = spoiled /\ deleted' = deleted
    BY <1>8 DEF Tick
  <2> QED
    BY <2>1 DEF DataInv
<1>9. CASE UNCHANGED vars
  BY <1>9 DEF vars, DataInv
<1> QED
  BY <1>1, <1>2, <1>3, <1>4, <1>5, <1>6, <1>7, <1>8, <1>9 DEF Next

-----------------------------------------------------------------------------
(* The invariant says what CollectionsExact says.                          *)

LEMMA OtherKeysNothing ==
    ASSUME NEW D, Rooted(D), NEW k, k # FirstKey
    PROVE  DbGet(D, <<k>>) = NoRec /\ DbGet(D, ListMetaKey(k)) = NoRec /\ DbGet(D, ZSetMetaKey(k)) = NoRec
<1>1. <<k>>[1] = k /\ ListMetaKey(k)[1] = k /\ ZSetMetaKey(k)[1] = k
  BY DEF ListMetaKey, ListsDataKey, ZSetMetaKey, ZSetsScoreKey
<1>2. <<k>> \notin DOMAIN D /\ ListMetaKey(k) \notin DOMAIN D /\ ZSetMetaKey(k) \notin DOMAIN D
  BY <1>1 DEF Rooted
<1> QED
  BY <1>2 DEF DbGet

LEMMA ZRooted ==
    ASSUME NEW D, ZOK(D)
    PROVE  Rooted(D)
<1>1. CASE DOMAIN D = {}
  BY <1>1 DEF Rooted
<1>2. ASSUME NEW v, NEW ts, NEW sc, ZIs(D, v, ts, sc) PROVE Rooted(D)
  <2>1. \A k \in DOMAIN D : \/ k = ZMeta
                            \/ \E w \in 1 .. v : \E x : k = <<FirstKey, 0, w, x>>
                            \/ \E w \in 1 .. v : \E p, x : k = <<FirstKey, w, p, x>>
    BY <1>2 DEF ZIs, ZRecs
  <2>2. ASSUME NEW k \in DOMAIN D PROVE k[1] = FirstKey
    <3>1. CASE k = ZMeta
      BY <3>1 DEF ZMeta
    <3>2. CASE k # ZMeta
      <4>1. \E w, p, x : k = <<FirstKey, w, p, x>>
        BY <2>1, <3>2
      <4> QED
        BY <4>1
    <3> QED
      BY <3>1, <3>2
  <2> QED
    BY <2>2 DEF Rooted
<1> QED
  BY <1>1, <1>2 DEF ZOK

LEMMA HashCounted ==
    ASSUME NEW D, HashOK(D), NEW m, m = DbGet(D, <<FirstKey>>), m # NoRec
    PROVE  Meta(m).count = Cardinality(FieldsAt(D, FirstKey, Meta(m).version))
<1>1. DOMAIN D # {}
  BY DEF DbGet
<1>2. PICK v, F : HashIs(D, v, F)
  BY <1>1 DEF HashOK
<1>3. m = <<Cardinality(F), v, 0>> /\ Cardinality(FieldsAt(D, FirstKey, v)) = Cardinality(F)
  BY <1>2, FieldsFound
<1>4. Meta(m) = [count |-> Cardinality(F), version |-> v, timestamp |-> 0]
  BY <1>3, BaseParsed
<1>5. Meta(m).count = Cardinality(F) /\ Meta(m).version = v
  BY <1>4
<1> QED
  BY <1>3, <1>5

LEMMA ListCounted ==
    ASSUME NEW D, NEW del \in BOOLEAN, ListOK(D, del), NEW rec, rec = DbGet(D, ListMetaKey(FirstKey)), rec # NoRec,
           NEW m, m = ListMeta(rec)
    PROVE  /\ {k[3] : k \in FieldsAt(D, FirstKey, m.version)} = (m.left + 1) .. (m.left + m.count)
           /\ del = TRUE => m.right = m.left + m.count + 1
<1>1. DOMAIN D # {}
  BY DEF DbGet
<1>2. PICK v, l, c, rt : ListIs(D, v, l, c, rt) /\ (del => rt = l + c + 1)
  BY <1>1 DEF ListOK
<1>3. /\ v \in Nat \ {0} /\ l \in Int /\ c \in Nat /\ rt \in Int
      /\ \A k \in DOMAIN D : k = <<FirstKey, 0, 0>> \/ \E w \in 1 .. v, i \in Int : k = <<FirstKey, w, i>>
      /\ \A i \in Int : <<FirstKey, v, i>> \in DOMAIN D <=> l < i /\ i <= l + c
      /\ <<FirstKey, 0, 0>> \in DOMAIN D /\ D[<<FirstKey, 0, 0>>] = <<c, v, 0, l, rt>>
  BY <1>2 DEF ListIs, ListRecs
<1>4. rec = <<c, v, 0, l, rt>>
  BY <1>3 DEF DbGet, ListMetaKey, ListsDataKey
<1>5. m.count = c /\ m.version = v /\ m.left = l /\ m.right = rt
  <2>1. m = [count |-> c, version |-> v, timestamp |-> 0, left |-> l, right |-> rt]
    BY <1>4, ListParsed
  <2> QED
    BY <2>1
<1>0. PICK I : I = {k[3] : k \in FieldsAt(D, FirstKey, m.version)}
  OBVIOUS
<1>6. ASSUME NEW i PROVE i \in I <=> i \in (l + 1) .. (l + c)
  <2>1. ASSUME i \in I PROVE i \in (l + 1) .. (l + c)
    <3>1. PICK k \in DOMAIN D : k[1] = FirstKey /\ k[2] = v /\ i = k[3]
      BY <1>0, <1>5, <2>1 DEF FieldsAt
    <3>2. k # <<FirstKey, 0, 0>>
      BY <1>3, <3>1
    <3>3. PICK w \in 1 .. v, j \in Int : k = <<FirstKey, w, j>>
      BY <1>3, <3>2
    <3>4. w = v /\ i = j
      BY <3>1, <3>3
    <3>5. l < j /\ j <= l + c
      BY <1>3, <3>1, <3>3, <3>4
    <3> QED
      BY <1>3, <3>4, <3>5
  <2>2. ASSUME i \in (l + 1) .. (l + c) PROVE i \in I
    <3>1. i \in Int /\ l < i /\ i <= l + c
      BY <1>3, <2>2
    <3>2. <<FirstKey, v, i>> \in DOMAIN D
      BY <1>3, <3>1
    <3>3. <<FirstKey, v, i>> \in FieldsAt(D, FirstKey, v)
      BY <3>2 DEF FieldsAt
    <3>4. <<FirstKey, v, i>>[3] = i
      OBVIOUS
    <3> QED
      BY <1>0, <1>5, <3>3, <3>4
  <2> QED
    BY <2>1, <2>2
<1>7. I = (l + 1) .. (l + c)
  BY <1>6
<1> QED
  BY <1>0, <1>2, <1>5, <1>7

LEMMA ZCounted ==
    ASSUME NEW D, ZOK(D), NEW m, m = DbGet(D, ZSetMetaKey(FirstKey)), m # NoRec,
           NEW S, S = {r \in DOMAIN D : r[1] = FirstKey /\ r[2] = Meta(m).version},
           NEW M, M = {r \in DOMAIN D : r[1] = FirstKey /\ r[2] = 0 /\ r[3] = Meta(m).version}
    PROVE  /\ Meta(m).count = Cardinality(S)
           /\ {<<r[4], D[r][1]>> : r \in M} = {<<r[4], r[3]>> : r \in S}
<1>1. DOMAIN D # {}
  BY DEF DbGet
<1>2. PICK v, ts, sc : ZIs(D, v, ts, sc)
  BY <1>1 DEF ZOK
<1>3. /\ v \in Nat \ {0} /\ IsFiniteSet(DOMAIN sc)
      /\ \A k \in DOMAIN D : \/ k = ZMeta
                             \/ \E w \in 1 .. v : \E x : k = <<FirstKey, 0, w, x>>
                             \/ \E w \in 1 .. v : \E p, x : k = <<FirstKey, w, p, x>>
      /\ \A x : <<FirstKey, 0, v, x>> \in DOMAIN D <=> x \in DOMAIN sc
      /\ \A x \in DOMAIN sc : D[<<FirstKey, 0, v, x>>] = <<sc[x]>>
      /\ \A p, x : <<FirstKey, v, p, x>> \in DOMAIN D <=> x \in DOMAIN sc /\ p = sc[x]
      /\ ZMeta \in DOMAIN D /\ D[ZMeta] = <<Cardinality(DOMAIN sc), v, ts>>
  BY <1>2 DEF ZIs, ZRecs
<1>4. m = <<Cardinality(DOMAIN sc), v, ts>>
  BY <1>3, ZMetaKeyIs DEF DbGet
<1>5. Meta(m).count = Cardinality(DOMAIN sc) /\ Meta(m).version = v
  <2>1. Meta(m) = [count |-> Cardinality(DOMAIN sc), version |-> v, timestamp |-> ts]
    BY <1>4, BaseParsed
  <2> QED
    BY <2>1
<1>6. ASSUME NEW r \in S PROVE \E x \in DOMAIN sc : r = <<FirstKey, v, sc[x], x>>
  <2>1. r \in DOMAIN D /\ r[2] = v
    BY <1>5
  <2>2. r # ZMeta
    BY <1>3, <2>1 DEF ZMeta
  <2>3. ~\E w \in 1 .. v : \E x : r = <<FirstKey, 0, w, x>>
    BY <1>3, <2>1
  <2>4. PICK w, p, x : r = <<FirstKey, w, p, x>>
    BY <1>3, <2>1, <2>2, <2>3
  <2>5. w = v
    BY <2>1, <2>4
  <2> QED
    BY <1>3, <2>1, <2>4, <2>5
<1>7. \A x \in DOMAIN sc : <<FirstKey, v, sc[x], x>> \in S
  BY <1>3, <1>5
<1>8. ASSUME NEW r \in M PROVE \E x \in DOMAIN sc : r = <<FirstKey, 0, v, x>>
  <2>1. r \in DOMAIN D /\ r[2] = 0 /\ r[3] = v
    BY <1>5
  <2>2. r # ZMeta
    BY <1>3, <2>1 DEF ZMeta
  <2>3. ~\E w \in 1 .. v : \E p, x : r = <<FirstKey, w, p, x>>
    BY <1>3, <2>1
  <2>4. PICK w, x : r = <<FirstKey, 0, w, x>>
    BY <1>3, <2>1, <2>2, <2>3
  <2>5. w = v
    BY <2>1, <2>4
  <2> QED
    BY <1>3, <2>1, <2>4, <2>5
<1>9. \A x \in DOMAIN sc : <<FirstKey, 0, v, x>> \in M
  BY <1>3, <1>5
<1>10. Cardinality(S) = Cardinality(DOMAIN sc)
  <2>1. PICK b : b = [x \in DOMAIN sc |-> <<FirstKey, v, sc[x], x>>]
    OBVIOUS
  <2>2. b \in [DOMAIN sc -> S] /\ \A x \in DOMAIN sc : b[x] = <<FirstKey, v, sc[x], x>>
    BY <1>7, <2>1
  <2>3. \A x, y \in DOMAIN sc : b[x] = b[y] => x = y
    BY <2>2, ZKeysDiffer
  <2>4. \A r \in S : \E x \in DOMAIN sc : b[x] = r
    BY <1>6, <2>2
  <2>5. b \in Bijection(DOMAIN sc, S)
    BY <2>2, <2>3, <2>4 DEF Bijection, Injection, Surjection, IsInjective
  <2>6. ExistsBijection(DOMAIN sc, S)
    BY <2>5 DEF ExistsBijection
  <2> QED
    BY <1>3, <2>6, FS_Bijection
<1>11. PICK A, B : A = {<<r[4], D[r][1]>> : r \in M} /\ B = {<<r[4], r[3]>> : r \in S}
  OBVIOUS
<1>12. ASSUME NEW y PROVE y \in A <=> \E x \in DOMAIN sc : y = <<x, sc[x]>>
  <2>1. ASSUME NEW x \in DOMAIN sc, NEW r, r = <<FirstKey, 0, v, x>> PROVE <<r[4], D[r][1]>> = <<x, sc[x]>>
    BY <1>3, <2>1
  <2>2. ASSUME y \in A PROVE \E x \in DOMAIN sc : y = <<x, sc[x]>>
    <3>1. PICK r \in M : y = <<r[4], D[r][1]>>
      BY <1>11, <2>2
    <3>2. PICK x \in DOMAIN sc : r = <<FirstKey, 0, v, x>>
      BY <1>8
    <3> QED
      BY <2>1, <3>1, <3>2
  <2>3. ASSUME NEW x \in DOMAIN sc, y = <<x, sc[x]>> PROVE y \in A
    <3>1. PICK r : r = <<FirstKey, 0, v, x>>
      OBVIOUS
    <3>2. r \in M /\ y = <<r[4], D[r][1]>>
      BY <1>9, <2>1, <2>3, <3>1
    <3> QED
      BY <1>11, <3>2
  <2> QED
    BY <2>2, <2>3
<1>13. ASSUME NEW y PROVE y \in B <=> \E x \in DOMAIN sc : y = <<x, sc[x]>>
  <2>1. ASSUME NEW x \in DOMAIN sc, NEW r, r = <<FirstKey, v, sc[x], x>> PROVE <<r[4], r[3]>> = <<x, sc[x]>>
    BY <2>1
  <2>2. ASSUME y \in B PROVE \E x \in DOMAIN sc : y = <<x, sc[x]>>
    <3>1. PICK r \in S : y = <<r[4], r[3]>>
      BY <1>11, <2>2
    <3>2. PICK x \in DOMAIN sc : r = <<FirstKey, v, sc[x], x>>
      BY <1>6
    <3> QED
      BY <2>1, <3>1, <3>2
  <2>3. ASSUME NEW x \in DOMAIN sc, y = <<x, sc[x]>> PROVE y \in B
    <3>1. PICK r : r = <<FirstKey, v, sc[x], x>>
      OBVIOUS
    <3>2. r \in S /\ y = <<r[4], r[3]>>
      BY <1>7, <2>1, <2>3, <3>1
    <3> QED
      BY <1>11, <3>2
  <2> QED
    BY <2>2, <2>3
<1>14. A = B
  BY <1>12, <1>13
<1> QED
  BY <1>5, <1>10, <1>11, <1>14

LEMMA DataHolds == DataInv => CollectionsExact
<1> SUFFICES ASSUME DataInv PROVE CollectionsExact
  OBVIOUS
<1>1. BaseData(db, spoiled[FirstKey], deleted)
  BY DEF DataInv
<1>2. /\ Rooted(db["hash"]) /\ Rooted(db["set"]) /\ Rooted(db["list"]) /\ ZOK(db["zset"])
      /\ ~spoiled[FirstKey] => HashOK(db["hash"]) /\ ListOK(db["list"], <<"list", FirstKey>> \in deleted)
      /\ <<"set", FirstKey>> \notin deleted => SetOK(db["set"])
  BY <1>1 DEF BaseData
<1>3. Rooted(db["zset"])
  BY <1>2, ZRooted
<1>4. ASSUME NEW k \in Keys, k # FirstKey
      PROVE  HashMeta(k) = NoRec /\ SetMeta(k) = NoRec /\ ListRec(k) = NoRec /\ ZSetRec(k) = NoRec
  BY <1>2, <1>3, <1>4, OtherKeysNothing DEF HashMeta, SetMeta, ListRec, ZSetRec
<1>5. ASSUME ~spoiled[FirstKey], HashMeta(FirstKey) # NoRec
      PROVE  Meta(HashMeta(FirstKey)).count
               = Cardinality(FieldsAt(db["hash"], FirstKey, Meta(HashMeta(FirstKey)).version))
  <2>1. PICK D, m : D = db["hash"] /\ m = HashMeta(FirstKey)
    OBVIOUS
  <2>2. HashOK(D) /\ m = DbGet(D, <<FirstKey>>) /\ m # NoRec
    BY <1>2, <1>5, <2>1 DEF HashMeta
  <2> QED
    BY <2>1, <2>2, HashCounted
<1>6. ASSUME SetMeta(FirstKey) # NoRec, <<"set", FirstKey>> \notin deleted
      PROVE  Meta(SetMeta(FirstKey)).count
               = Cardinality(FieldsAt(db["set"], FirstKey, Meta(SetMeta(FirstKey)).version))
  <2>1. PICK D, m : D = db["set"] /\ m = SetMeta(FirstKey)
    OBVIOUS
  <2>2. SetOK(D) /\ m = DbGet(D, <<FirstKey>>) /\ m # NoRec
    BY <1>2, <1>6, <2>1 DEF SetMeta
  <2>3. HashOK(D)
    BY <2>2 DEF SetOK, HashOK
  <2> QED
    BY <2>1, <2>2, <2>3, HashCounted
<1>7. ASSUME ~spoiled[FirstKey], ListRec(FirstKey) # NoRec, NEW m, m = ListMeta(ListRec(FirstKey))
      PROVE  /\ ListIndexes(FirstKey) = (m.left + 1) .. (m.left + m.count)
             /\ <<"list", FirstKey>> \in deleted => m.right = m.left + m.count + 1
  <2>1. PICK D, rec, del : D = db["list"] /\ rec = ListRec(FirstKey) /\ del = (<<"list", FirstKey>> \in deleted)
    OBVIOUS
  <2>2. /\ del \in BOOLEAN /\ ListOK(D, del) /\ rec = DbGet(D, ListMetaKey(FirstKey)) /\ rec # NoRec /\ m = ListMeta(rec)
    BY <1>2, <1>7, <2>1 DEF ListRec
  <2>3. /\ {k[3] : k \in FieldsAt(D, FirstKey, m.version)} = (m.left + 1) .. (m.left + m.count)
        /\ del = TRUE => m.right = m.left + m.count + 1
    BY <2>2, ListCounted
  <2>4. ListIndexes(FirstKey) = {k[3] : k \in FieldsAt(D, FirstKey, m.version)}
    BY <1>7, <2>1 DEF ListIndexes
  <2> QED
    BY <2>1, <2>3, <2>4
<1>8. ASSUME ZSetRec(FirstKey) # NoRec
      PROVE  /\ Meta(ZSetRec(FirstKey)).count = Cardinality(ScoreRecords(FirstKey))
             /\ {<<r[4], db["zset"][r][1]>> : r \in MemberRecords(FirstKey)}
                  = {<<r[4], r[3]>> : r \in ScoreRecords(FirstKey)}
  <2>1. PICK D, m, S, M : D = db["zset"] /\ m = ZSetRec(FirstKey) /\ S = ScoreRecords(FirstKey) /\ M = MemberRecords(FirstKey)
    OBVIOUS
  <2>2. /\ ZOK(D) /\ m = DbGet(D, ZSetMetaKey(FirstKey)) /\ m # NoRec
        /\ S = {r \in DOMAIN D : r[1] = FirstKey /\ r[2] = Meta(m).version}
        /\ M = {r \in DOMAIN D : r[1] = FirstKey /\ r[2] = 0 /\ r[3] = Meta(m).version}
    BY <1>2, <1>8, <2>1 DEF ZSetRec, ScoreRecords, MemberRecords
  <2>3. Meta(m).count = Cardinality(S) /\ {<<r[4], D[r][1]>> : r \in M} = {<<r[4], r[3]>> : r \in S}
    BY <2>2, ZCounted
  <2> QED
    BY <2>1, <2>3
<1>9. CountExact
  <2>1. ASSUME NEW k \in Keys, ~spoiled[k]
        PROVE  /\ HashMeta(k) # NoRec =>
                     Meta(HashMeta(k)).count = Cardinality(FieldsAt(db["hash"], k, Meta(HashMeta(k)).version))
               /\ SetMeta(k) # NoRec /\ <<"set", k>> \notin deleted =>
                     Meta(SetMeta(k)).count = Cardinality(FieldsAt(db["set"], k, Meta(SetMeta(k)).version))
               /\ ListRec(k) # NoRec =>
                     /\ ListIndexes(k) = (ListMeta(ListRec(k)).left + 1)
                                           .. (ListMeta(ListRec(k)).left + ListMeta(ListRec(k)).count)
                     /\ <<"list", k>> \in deleted =>
                          ListMeta(ListRec(k)).right = ListMeta(ListRec(k)).left + ListMeta(ListRec(k)).count + 1
               /\ ZSetRec(k) # NoRec => Meta(ZSetRec(k)).count = Cardinality(ScoreRecords(k))
    <3>1. CASE k # FirstKey
      BY <1>4, <3>1
    <3>2. CASE k = FirstKey
      BY <1>5, <1>6, <1>7, <1>8, <2>1, <3>2
    <3> QED
      BY <3>1, <3>2
  <2> QED
    BY <2>1 DEF CountExact
<1>10. ZIndexesAgree
  <2>1. ASSUME NEW k \in Keys, ZSetRec(k) # NoRec
        PROVE  {<<r[4], db["zset"][r][1]>> : r \in MemberRecords(k)} = {<<r[4], r[3]>> : r \in ScoreRecords(k)}
    <3>1. k = FirstKey
      BY <1>4, <2>1
    <3> QED
      BY <1>8, <2>1, <3>1
  <2> QED
    BY <2>1 DEF ZIndexesAgree
<1> QED
  BY <1>9, <1>10 DEF CollectionsExact

-----------------------------------------------------------------------------
\* DataInv, with LockInv, is an inductive invariant of the collections, for
\* every set of threads, keys and stripes and every bound: a command writes on
\* what it read, and each command leaves the records of its collection whole
\* (HSet, HMSet, HDel, Del of RedisHash, SAdd of RedisSet, LPush, LInsert, Del
\* of RedisList, ZAdd, ZIncrby, Expire, Del of RedisZset).
THEOREM CollectionsInvariant == Spec => [](LockInv /\ DataInv)
<1>1. Init => LockInv /\ DataInv
  BY InitLocks, InitData
<1>2. (LockInv /\ DataInv) /\ [Next]_vars => (LockInv /\ DataInv)'
  BY NextLocks, NextData
<1> QED
  BY <1>1, <1>2, PTL DEF Spec

\* Meta records and element records agree over any sequence of commands: the
\* count is the number of elements, the indexes of a list have no gap, the two
\* indexes of a sorted set name the same scores (redishash.cc, redisset.cc,
\* redislist.cc, rediszset.cc).
THEOREM CollectionsExactCorrect == Spec => []CollectionsExact
<1>1. Spec => [](LockInv /\ DataInv)
  BY CollectionsInvariant
<1>2. LockInv /\ DataInv => CollectionsExact
  BY DataHolds
<1> QED
  BY <1>1, <1>2, PTL
=============================================================================
