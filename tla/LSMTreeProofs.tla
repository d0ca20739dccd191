---------------------------- MODULE LSMTreeProofs ----------------------------
(***************************************************************************)
(* Where the entries of the database are, for any number of keys, levels,  *)
(* writes and readers.  The files of a level other than 0 have ranges of   *)
(* user keys that lie apart, and a compaction has inputs whose ranges      *)
(* leave no gap, so that nothing flushed meanwhile can fall between them.  *)
(***************************************************************************)
EXTENDS LSMTree, WellFoundedInduction, FiniteSetTheorems, TLAPS

-----------------------------------------------------------------------------
(* Numbers.                                                                *)

LessThan == {ss \in Nat \X Nat : ss[1] < ss[2]}

LEMMA LeastOf ==
    ASSUME NEW S \in SUBSET Nat, S # {}
    PROVE  \E n \in S : \A m \in S : n <= m
<1>1. IsWellFoundedOn(LessThan, Nat)
  BY NatLessThanWellFounded, Zenon DEF OpToRel, LessThan
<1>2. PICK n \in S : \A m \in S : ~(<<m, n>> \in LessThan)
  BY <1>1, WFMin
<1>3. ASSUME NEW m \in S PROVE n <= m
  <2>1. <<m, n>> \in Nat \X Nat /\ ~(<<m, n>> \in LessThan)
    BY <1>2
  <2> QED
    BY <2>1 DEF LessThan
<1> QED
  BY <1>3

LEMMA GreatestOf ==
    ASSUME NEW S \in SUBSET Nat, S # {}, NEW b \in Nat, \A m \in S : m <= b
    PROVE  \E n \in S : \A m \in S : m <= n
<1>1. PICK D \in SUBSET Nat : D = {d \in Nat : b - d \in S}
  OBVIOUS
<1>2. D # {}
  <2>1. PICK m \in S : m \in Nat /\ m <= b
    OBVIOUS
  <2>2. b - m \in Nat /\ b - (b - m) = m
    BY <2>1
  <2> QED
    BY <1>1, <2>1, <2>2
<1>3. PICK d \in D : \A x \in D : d <= x
  BY <1>2, LeastOf
<1>4. d \in Nat /\ b - d \in S
  BY <1>1, <1>3
<1>5. ASSUME NEW m \in S PROVE m <= b - d
  <2>1. m \in Nat /\ m <= b
    OBVIOUS
  <2>2. b - m \in Nat /\ b - (b - m) = m
    BY <2>1
  <2>3. b - m \in D
    BY <1>1, <2>2
  <2>4. d <= b - m
    BY <1>3, <2>3
  <2> QED
    BY <1>4, <2>1, <2>2, <2>4
<1> QED
  BY <1>4, <1>5

\* A finite set of numbers has a largest one.
LEMMA LargestOf ==
    ASSUME NEW S \in SUBSET Nat, S # {}, IsFiniteSet(S)
    PROVE  \E n \in S : \A m \in S : m <= n
<1>1. SUFFICES ASSUME ~ \E n \in S : \A m \in S : m <= n PROVE FALSE
  OBVIOUS
<1>2. PICK Bad : Bad = {T \in SUBSET S : T # {} /\ ~ \E n \in T : \A m \in T : m <= n}
  OBVIOUS
<1>3. PICK C : C = {c \in Nat : \E T \in Bad : c = Cardinality(T)}
  OBVIOUS
<1>4. \A T \in SUBSET S : IsFiniteSet(T) /\ Cardinality(T) \in Nat
  BY FS_Subset, FS_CardinalityType
<1>5. S \in Bad
  BY <1>1, <1>2
<1>6. C \in SUBSET Nat /\ C # {}
  BY <1>3, <1>4, <1>5
<1>7. PICK c \in C : \A x \in C : c <= x
  BY <1>6, LeastOf
<1>8. PICK T \in Bad : c = Cardinality(T)
  BY <1>3, <1>7
<1>9. T \in SUBSET S /\ T # {} /\ ~ \E n \in T : \A m \in T : m <= n
  BY <1>2, <1>8
<1>10. PICK x \in T : x \in Nat
  BY <1>9
<1>11. PICK U : U = T \ {x}
  OBVIOUS
<1>12. U \in SUBSET S /\ Cardinality(U) \in Nat /\ Cardinality(U) = Cardinality(T) - 1 /\ Cardinality(T) \in Nat
  BY <1>4, <1>9, <1>10, <1>11, FS_RemoveElement
<1>13. U # {}
  <2>1. ASSUME U = {} PROVE FALSE
    <3>1. \A m \in T : m = x
      BY <1>11, <2>1
    <3>2. \A m \in T : m <= x
      BY <1>10, <3>1
    <3> QED
      BY <1>9, <1>10, <3>2
  <2> QED
    BY <2>1
<1>14. U \notin Bad
  <2>1. ASSUME U \in Bad PROVE FALSE
    <3>1. Cardinality(U) \in C
      BY <1>3, <1>12, <2>1
    <3>2. c <= Cardinality(U)
      BY <1>7, <3>1
    <3> QED
      BY <1>8, <1>12, <3>2
  <2> QED
    BY <2>1
<1>15. PICK n \in U : \A m \in U : m <= n
  BY <1>2, <1>12, <1>13, <1>14
<1>16. n \in Nat /\ n \in T
  BY <1>11, <1>12, <1>15
<1>17. CASE x <= n
  <2>1. \A m \in T : m <= n
    BY <1>11, <1>15, <1>17
  <2> QED
    BY <1>9, <1>16, <2>1
<1>18. CASE ~(x <= n)
  <2>1. n <= x
    BY <1>10, <1>16, <1>18
  <2>2. ASSUME NEW m \in T PROVE m <= x
    <3>1. CASE m = x
      BY <1>10, <3>1
    <3>2. CASE m # x
      <4>1. m \in U /\ m \in Nat /\ m <= n
        BY <1>9, <1>11, <1>15, <3>2
      <4> QED
        BY <1>10, <1>16, <2>1, <4>1
    <3> QED
      BY <3>1, <3>2
  <2> QED
    BY <1>9, <1>10, <2>2
<1> QED
  BY <1>17, <1>18

LEMMA MaxIs ==
    ASSUME NEW S \in SUBSET Nat, NEW n \in S, \A m \in S : m <= n
    PROVE  Max(S) \in S /\ \A m \in S : m <= Max(S)
<1>1. \E x \in S : \A y \in S : x >= y
  OBVIOUS
<1>2. Max(S) \in S /\ \A y \in S : Max(S) >= y
  BY <1>1 DEF Max
<1> QED
  BY <1>2

LEMMA MinIs ==
    ASSUME NEW S \in SUBSET Nat, S # {}
    PROVE  Min(S) \in S /\ \A m \in S : Min(S) <= m
<1>1. \E x \in S : \A y \in S : x <= y
  BY LeastOf
<1> QED
  BY <1>1 DEF Min

-----------------------------------------------------------------------------
(* Entries.                                                                *)

Entry == [key : Key, seq : 1 .. MaxSequence, del : BOOLEAN]

LEMMA EntryIs ==
    /\ \A e \in Entry : e.key \in Key /\ e.key \in Nat /\ e.key # 0 /\ e.seq \in Nat /\ e.seq <= MaxSequence /\ e.seq # 0
    /\ MaxSequence \in Nat /\ None \notin Entry
<1>1. Key \subseteq Nat /\ 0 \notin Key /\ MaxSequence \in Nat
  BY ConstantsAssumption
<1>2. ASSUME NEW e \in Entry
      PROVE  e.key \in Key /\ e.key \in Nat /\ e.key # 0 /\ e.seq \in Nat /\ e.seq <= MaxSequence /\ e.seq # 0
  <2>1. e.key \in Key /\ e.seq \in 1 .. MaxSequence
    BY DEF Entry
  <2>2. e.key \in Nat /\ e.key # 0
    BY <1>1, <2>1, Zenon
  <2>3. e.seq \in Nat /\ e.seq <= MaxSequence /\ e.seq # 0
    BY <1>1, <2>1
  <2> QED
    BY <2>1, <2>2, <2>3
<1>3. None \notin Entry
  <2>1. None.key = 0
    BY DEF None
  <2> QED
    BY <1>2, <2>1
<1> QED
  BY <1>1, <1>2, <1>3

LEMMA TopKey == \E k \in Key : \A j \in Key : j <= k
<1>1. Key \in SUBSET Nat /\ IsFiniteSet(Key) /\ Key # {}
  BY ConstantsAssumption
<1> QED
  BY <1>1, LargestOf

\* The first and the last entry of a set.
LEMMA FirstIs ==
    ASSUME NEW S \in SUBSET Entry, S # {}
    PROVE  First(S) \in S /\ \A d \in S : ~Before(d, First(S))
<1>1. PICK K \in SUBSET Nat : K = {k \in Nat : \E e \in S : e.key = k}
  OBVIOUS
<1>2. K # {}
  BY <1>1, EntryIs
<1>3. PICK k \in K : \A j \in K : k <= j
  BY <1>2, LeastOf
<1>4. PICK Q \in SUBSET Nat : Q = {q \in Nat : \E e \in S : e.key = k /\ e.seq = q}
  OBVIOUS
<1>5. PICK e0 \in S : e0.key = k
  BY <1>1, <1>3
<1>6. Q # {} /\ MaxSequence \in Nat /\ \A q \in Q : q <= MaxSequence
  BY <1>4, <1>5, EntryIs
<1>7. PICK q \in Q : \A p \in Q : p <= q
  BY <1>6, GreatestOf
<1>8. PICK e \in S : e.key = k /\ e.seq = q
  BY <1>4, <1>7
<1>9. ASSUME NEW d \in S PROVE ~Before(d, e)
  <2>1. d.key \in Nat /\ d.seq \in Nat /\ k \in Nat /\ q \in Nat
    BY <1>3, <1>7, EntryIs
  <2>2. k <= d.key
    BY <1>1, <1>3, <2>1
  <2>3. d.key = k => d.seq <= q
    BY <1>4, <1>7, <2>1
  <2> QED
    BY <1>8, <2>1, <2>2, <2>3 DEF Before
<1>10. \E x \in S : \A d \in S : ~Before(d, x)
  BY <1>9
<1> QED
  BY <1>10 DEF First

LEMMA LastIs ==
    ASSUME NEW S \in SUBSET Entry, S # {}
    PROVE  Last(S) \in S /\ \A d \in S : ~Before(Last(S), d)
<1>1. PICK K \in SUBSET Nat : K = {k \in Nat : \E e \in S : e.key = k}
  OBVIOUS
<1>2. PICK top \in Key : \A j \in Key : j <= top
  BY TopKey
<1>3. K # {} /\ top \in Nat /\ \A k \in K : k <= top
  <2>1. \A e \in S : e.key \in Key /\ e.key \in Nat
    BY EntryIs
  <2>2. top \in Nat
    BY <1>2, ConstantsAssumption
  <2> QED
    BY <1>1, <1>2, <2>1, <2>2
<1>4. PICK k \in K : \A j \in K : j <= k
  BY <1>3, GreatestOf
<1>5. PICK Q \in SUBSET Nat : Q = {q \in Nat : \E e \in S : e.key = k /\ e.seq = q}
  OBVIOUS
<1>6. PICK e0 \in S : e0.key = k
  BY <1>1, <1>4
<1>7. Q # {}
  BY <1>5, <1>6, EntryIs
<1>8. PICK q \in Q : \A p \in Q : q <= p
  BY <1>7, LeastOf
<1>9. PICK e \in S : e.key = k /\ e.seq = q
  BY <1>5, <1>8
<1>10. ASSUME NEW d \in S PROVE ~Before(e, d)
  <2>1. d.key \in Nat /\ d.seq \in Nat /\ k \in Nat /\ q \in Nat
    BY <1>4, <1>8, EntryIs
  <2>2. d.key <= k
    BY <1>1, <1>4, <2>1
  <2>3. d.key = k => q <= d.seq
    BY <1>5, <1>8, <2>1
  <2> QED
    BY <1>9, <2>1, <2>2, <2>3 DEF Before
<1>11. \E x \in S : \A d \in S : ~Before(x, d)
  BY <1>10
<1> QED
  BY <1>11 DEF Last

LEMMA EndKeys ==
    ASSUME NEW S \in SUBSET Entry, S # {}
    PROVE  /\ First(S) \in S /\ Last(S) \in S /\ First(S).key \in Key /\ Last(S).key \in Key
           /\ First(S).key \in Nat /\ Last(S).key \in Nat /\ First(S).key <= Last(S).key
           /\ \A e \in S : First(S).key <= e.key /\ e.key <= Last(S).key
<1>1. First(S) \in S /\ Last(S) \in S
  BY FirstIs, LastIs
<1>2. \A e \in S : e.key \in Nat /\ e.key \in Key
  BY EntryIs
<1>3. ASSUME NEW e \in S PROVE First(S).key <= e.key /\ e.key <= Last(S).key
  <2>1. ~Before(e, First(S)) /\ ~Before(Last(S), e)
    BY FirstIs, LastIs
  <2> QED
    BY <1>1, <1>2, <2>1 DEF Before
<1> QED
  BY <1>1, <1>2, <1>3

-----------------------------------------------------------------------------
(* Files and their ranges of user keys.                                    *)

FileOK(f) == f \in [number : Nat, entries : SUBSET Entry] /\ f.entries # {}
Low(f) == Smallest(f).key
High(f) == Largest(f).key
Apart(f, g) == High(f) < Low(g) \/ High(g) < Low(f)
Covers(f, x) == Low(f) <= x /\ x <= High(f)

\* The ranges of the files are one range.
NoGap(F) == \A f, g \in F, x \in Nat : Low(f) <= x /\ x <= High(g) => \E h \in F : Covers(h, x)

LEMMA FileEnds ==
    ASSUME NEW f, FileOK(f)
    PROVE  /\ f.entries \in SUBSET Entry /\ Low(f) \in Nat /\ High(f) \in Nat /\ Low(f) \in Key /\ High(f) \in Key
           /\ Low(f) <= High(f) /\ Smallest(f) \in f.entries /\ Largest(f) \in f.entries
           /\ \A e \in f.entries : e.key \in Nat /\ Low(f) <= e.key /\ e.key <= High(f)
<1>1. f.entries \in SUBSET Entry /\ f.entries # {}
  BY DEF FileOK
<1> QED
  BY <1>1, EndKeys, EntryIs DEF Low, High, Smallest, Largest

LEMMA ApartKeys ==
    ASSUME NEW f, NEW g, FileOK(f), FileOK(g), Apart(f, g), NEW d \in f.entries, NEW e \in g.entries
    PROVE  d.key # e.key
<1>1. /\ d.key \in Nat /\ e.key \in Nat /\ Low(f) <= d.key /\ d.key <= High(f) /\ Low(g) <= e.key /\ e.key <= High(g)
      /\ Low(f) \in Nat /\ High(f) \in Nat /\ Low(g) \in Nat /\ High(g) \in Nat
  BY FileEnds
<1> QED
  BY <1>1 DEF Apart

\* What lies apart from files without a gap lies before or behind them.
LEMMA Outside ==
    ASSUME NEW F, \A f \in F : FileOK(f), NoGap(F), NEW g, FileOK(g), \A f \in F : Apart(f, g)
    PROVE  (\A f \in F : High(g) < Low(f)) \/ (\A f \in F : High(f) < Low(g))
<1>1. SUFFICES ASSUME NEW f1 \in F, NEW f2 \in F, ~(High(g) < Low(f1)), ~(High(f2) < Low(g)) PROVE FALSE
  OBVIOUS
<1>2. /\ Low(g) \in Nat /\ High(g) \in Nat /\ Low(g) <= High(g)
      /\ \A f \in F : Low(f) \in Nat /\ High(f) \in Nat /\ Low(f) <= High(f)
  BY FileEnds
<1>3. High(f1) < Low(g) /\ High(g) < Low(f2)
  BY <1>1 DEF Apart
<1>4. Low(f1) <= Low(g) /\ Low(g) <= High(f2)
  BY <1>1, <1>2, <1>3
<1>5. PICK h \in F : Covers(h, Low(g))
  BY <1>1, <1>2, <1>4 DEF NoGap
<1>6. Apart(h, g) /\ Low(h) \in Nat /\ High(h) \in Nat /\ Low(h) <= Low(g) /\ Low(g) <= High(h)
  BY <1>2, <1>5 DEF Covers
<1> QED
  BY <1>2, <1>6 DEF Apart

LEMMA Hull ==
    ASSUME NEW F, F # {}, \A f \in F : FileOK(f)
    PROVE  /\ Entries(F) \in SUBSET Entry /\ Entries(F) # {}
           /\ LowKey(F) \in Key /\ HighKey(F) \in Key /\ LowKey(F) \in Nat /\ HighKey(F) \in Nat /\ LowKey(F) <= HighKey(F)
           /\ \A f \in F : LowKey(F) <= Low(f) /\ High(f) <= HighKey(F)
           /\ \E f \in F : Low(f) = LowKey(F)
           /\ \E f \in F : High(f) = HighKey(F)
<1>1. Entries(F) \in SUBSET Entry /\ Entries(F) # {}
  BY FileEnds DEF Entries
<1>2. PICK S : S = Entries(F)
  OBVIOUS
<1>3. /\ First(S) \in S /\ Last(S) \in S /\ First(S).key \in Key /\ Last(S).key \in Key
      /\ First(S).key \in Nat /\ Last(S).key \in Nat /\ First(S).key <= Last(S).key
      /\ \A e \in S : First(S).key <= e.key /\ e.key <= Last(S).key
  BY <1>1, <1>2, EndKeys
<1>4. LowKey(F) = First(S).key /\ HighKey(F) = Last(S).key
  BY <1>2 DEF LowKey, HighKey
<1>5. ASSUME NEW f \in F PROVE LowKey(F) <= Low(f) /\ High(f) <= HighKey(F)
  <2>1. Smallest(f) \in S /\ Largest(f) \in S
    BY <1>2, FileEnds DEF Entries
  <2> QED
    BY <1>3, <1>4, <2>1 DEF Low, High
<1>6. \E f \in F : Low(f) = LowKey(F)
  <2>1. PICK f \in F : First(S) \in f.entries
    BY <1>2, <1>3 DEF Entries
  <2>2. Low(f) <= First(S).key /\ Low(f) \in Nat
    BY <2>1, FileEnds
  <2>3. LowKey(F) <= Low(f)
    BY <1>5
  <2> QED
    BY <1>3, <1>4, <2>2, <2>3
<1>7. \E f \in F : High(f) = HighKey(F)
  <2>1. PICK f \in F : Last(S) \in f.entries
    BY <1>2, <1>3 DEF Entries
  <2>2. Last(S).key <= High(f) /\ High(f) \in Nat
    BY <2>1, FileEnds
  <2>3. High(f) <= HighKey(F)
    BY <1>5
  <2> QED
    BY <1>3, <1>4, <2>2, <2>3
<1> QED
  BY <1>1, <1>3, <1>4, <1>5, <1>6, <1>7

-----------------------------------------------------------------------------
(* The choice of files.                                                    *)

\* A version whose files above level 0 lie apart.
Shaped(V) ==
    /\ DOMAIN V = Level
    /\ \A l \in Level : \A f \in V[l] : FileOK(f)
    /\ \A l \in 1 .. Top : \A f, g \in V[l] : f = g \/ Apart(f, g)

\* F are the files of G that overlap a range, and no other file comes near.
Chosen(F, G, lo, hi) ==
    /\ F \in SUBSET G /\ \A f \in G : Overlaps(f, lo, hi) => f \in F
    /\ \A f \in F : \A g \in G \ F : Apart(f, g)
    /\ \A f \in F, x \in Nat : Low(f) <= x /\ x < lo => \E h \in F : Covers(h, x)
    /\ \A f \in F, x \in Nat : hi < x /\ x <= High(f) => \E h \in F : Covers(h, x)
    /\ F # {} => \E f \in F : Overlaps(f, lo, hi)

LEMMA ChosenDeep ==
    ASSUME Shaped(levels), NEW l \in 1 .. Top, NEW lo \in Nat, NEW hi \in Nat, lo <= hi
    PROVE  /\ GetOverlappingInputs(l, lo, hi) = Overlapping(levels[l], lo, hi)
           /\ Chosen(Overlapping(levels[l], lo, hi), levels[l], lo, hi)
<1>1. Top \in Nat /\ l # 0 /\ l \in Level
  BY ConstantsAssumption DEF Level
<1>2. GetOverlappingInputs(l, lo, hi) = Overlapping(levels[l], lo, hi)
  BY <1>1 DEF GetOverlappingInputs
<1>3. PICK G : G = levels[l]
  OBVIOUS
<1>4. PICK F : F = Overlapping(G, lo, hi)
  OBVIOUS
<1>5. \A f \in G : FileOK(f) /\ \A g \in G : f = g \/ Apart(f, g)
  BY <1>1, <1>3 DEF Shaped
<1>6. \A f \in G : f \in F <=> High(f) >= lo /\ Low(f) <= hi
  BY <1>4 DEF Overlapping, Overlaps, High, Low
<1>7. F \in SUBSET G /\ \A f \in G : Overlaps(f, lo, hi) => f \in F
  BY <1>4 DEF Overlapping
<1>8. \A f \in F : Low(f) \in Nat /\ High(f) \in Nat
  BY <1>5, <1>7, FileEnds
<1>9. ASSUME NEW f \in F, NEW x \in Nat, Low(f) <= x, x < lo PROVE \E h \in F : Covers(h, x)
  BY <1>6, <1>7, <1>8, <1>9 DEF Covers
<1>10. ASSUME NEW f \in F, NEW x \in Nat, hi < x, x <= High(f) PROVE \E h \in F : Covers(h, x)
  BY <1>6, <1>7, <1>8, <1>10 DEF Covers
<1>11. \A f \in F : \A g \in G \ F : Apart(f, g)
  BY <1>5, <1>7
<1>12. F # {} => \E f \in F : Overlaps(f, lo, hi)
  BY <1>4 DEF Overlapping
<1>13. Chosen(F, G, lo, hi)
  BY <1>7, <1>9, <1>10, <1>11, <1>12 DEF Chosen
<1> QED
  BY <1>2, <1>3, <1>4, <1>13

\* In level 0 the range is widened until it cuts no file.
CutsNone(G, a, b) == \A f \in Overlapping(G, a, b) : a <= Low(f) /\ High(f) <= b

IsLeast(G, N, lo, hi, a, b) ==
    /\ a <= lo /\ hi <= b /\ CutsNone(G, a, b)
    /\ \A c, d \in 1 .. N : c <= lo /\ hi <= d /\ CutsNone(G, c, d) => c <= a /\ b <= d

LEMMA LeastRange ==
    ASSUME NEW G, NEW N \in Nat, NEW lo \in 1 .. N, NEW hi \in 1 .. N, CutsNone(G, 1, N),
           \A f \in G : Low(f) \in Nat /\ High(f) \in Nat
    PROVE  \E a \in 1 .. N, b \in 1 .. N : IsLeast(G, N, lo, hi, a, b)
<1>1. PICK A : A = {a \in 1 .. N : \E b \in 1 .. N : a <= lo /\ hi <= b /\ CutsNone(G, a, b)}
  OBVIOUS
<1>2. PICK B : B = {b \in 1 .. N : \E a \in 1 .. N : a <= lo /\ hi <= b /\ CutsNone(G, a, b)}
  OBVIOUS
<1>3. 1 \in 1 .. N /\ N \in 1 .. N /\ 1 <= lo /\ hi <= N /\ lo \in Nat
  OBVIOUS
<1>4. A # {} /\ B # {} /\ (\A a \in A : a <= lo) /\ A \in SUBSET Nat /\ B \in SUBSET Nat
  BY <1>1, <1>2, <1>3
<1>5. PICK a \in A : \A x \in A : x <= a
  <2> HIDE DEF CutsNone
  <2> QED
    BY <1>3, <1>4, GreatestOf
<1>6. PICK b \in B : \A x \in B : b <= x
  BY <1>4, LeastOf
<1>7. PICK b1 \in 1 .. N : a \in 1 .. N /\ a <= lo /\ hi <= b1 /\ CutsNone(G, a, b1)
  BY <1>1, <1>5
<1>8. PICK a1 \in 1 .. N : b \in 1 .. N /\ a1 <= lo /\ hi <= b /\ CutsNone(G, a1, b)
  BY <1>2, <1>6
<1>9. b <= b1 /\ a1 <= a
  <2>1. b1 \in B /\ a1 \in A
    BY <1>1, <1>2, <1>7, <1>8
  <2> QED
    BY <1>5, <1>6, <2>1
<1>10. CutsNone(G, a, b)
  <2>1. SUFFICES ASSUME NEW f \in Overlapping(G, a, b) PROVE a <= Low(f) /\ High(f) <= b
    BY DEF CutsNone
  <2>2. f \in G /\ High(f) >= a /\ Low(f) <= b /\ Low(f) \in Nat /\ High(f) \in Nat
    BY <2>1 DEF Overlapping, Overlaps, High, Low
  <2>3. High(f) >= a1 /\ Low(f) <= b1
    BY <1>7, <1>8, <1>9, <2>2
  <2>4. f \in Overlapping(G, a, b1) /\ f \in Overlapping(G, a1, b)
    BY <2>2, <2>3 DEF Overlapping, Overlaps, High, Low
  <2> QED
    BY <1>7, <1>8, <2>4 DEF CutsNone
<1>11. ASSUME NEW c \in 1 .. N, NEW d \in 1 .. N, c <= lo, hi <= d, CutsNone(G, c, d) PROVE c <= a /\ b <= d
  <2>1. c \in A /\ d \in B
    BY <1>1, <1>2, <1>11
  <2> QED
    BY <1>5, <1>6, <2>1
<1> QED
  BY <1>7, <1>8, <1>10, <1>11 DEF IsLeast

LEMMA ChosenZero ==
    ASSUME Shaped(levels), NEW lo \in Key, NEW hi \in Key, lo <= hi
    PROVE  Chosen(GetOverlappingInputs(0, lo, hi), levels[0], lo, hi)
<1>1. PICK top \in Key : \A j \in Key : j <= top
  BY TopKey
<1>2. Key \subseteq Nat /\ 0 \notin Key
  BY ConstantsAssumption
<1>3. PICK G : G = levels[0]
  OBVIOUS
<1>4. PICK N : N = Max(Key \cup {hi})
  OBVIOUS
<1>5. N \in Key /\ N \in Nat /\ \A j \in Key : j \in 1 .. N
  <2>1. Key \cup {hi} = Key /\ Key \in SUBSET Nat
    BY <1>2
  <2>2. Max(Key) \in Key /\ \A j \in Key : j <= Max(Key)
    BY <1>1, <2>1, MaxIs
  <2>3. N = Max(Key) /\ N \in Key /\ \A j \in Key : j <= N
    BY <1>4, <2>1, <2>2, Zenon
  <2>4. N \in Nat /\ \A j \in Key : j \in Nat /\ j # 0
    BY <1>2, <2>3, Zenon
  <2> QED
    BY <2>3, <2>4
<1>6. \A f \in G : FileOK(f) /\ Low(f) \in Nat /\ High(f) \in Nat /\ Low(f) \in Key /\ High(f) \in Key
  <2>1. 0 \in Level
    BY ConstantsAssumption DEF Level
  <2> QED
    BY <1>3, <2>1, FileEnds DEF Shaped
<1>7. N \in Nat /\ lo \in 1 .. N /\ hi \in 1 .. N /\ lo \in Nat /\ hi \in Nat
  BY <1>5
<1>8. CutsNone(G, 1, N)
  BY <1>5, <1>6 DEF CutsNone, Overlapping
<1>9. PICK closed : closed = {r \in (1 .. N) \X (1 .. N) :
                   /\ r[1] <= lo /\ hi <= r[2]
                   /\ \A f \in Overlapping(G, r[1], r[2]) : r[1] <= Smallest(f).key /\ Largest(f).key <= r[2]}
  OBVIOUS
<1>10. \A r \in (1 .. N) \X (1 .. N) : r \in closed <=> r[1] <= lo /\ hi <= r[2] /\ CutsNone(G, r[1], r[2])
  BY <1>9 DEF CutsNone, Low, High
<1>11. PICK r : r = CHOOSE z \in closed : \A q \in closed : q[1] <= z[1] /\ z[2] <= q[2]
  OBVIOUS
<1>12. GetOverlappingInputs(0, lo, hi) = Overlapping(G, r[1], r[2])
  BY <1>3, <1>4, <1>9, <1>11, Zenon DEF GetOverlappingInputs
<1>13. r \in closed /\ \A q \in closed : q[1] <= r[1] /\ r[2] <= q[2]
  <2>1. PICK a \in 1 .. N, b \in 1 .. N :
              /\ a <= lo /\ hi <= b /\ CutsNone(G, a, b)
              /\ \A c, d \in 1 .. N : c <= lo /\ hi <= d /\ CutsNone(G, c, d) => c <= a /\ b <= d
    <3>1. \A f \in G : Low(f) \in Nat /\ High(f) \in Nat
      BY <1>6
    <3>2. \E a \in 1 .. N, b \in 1 .. N : IsLeast(G, N, lo, hi, a, b)
      BY <1>7, <1>8, <3>1, LeastRange
    <3> QED
      BY <3>2 DEF IsLeast
  <2>2. PICK p : p = <<a, b>>
    OBVIOUS
  <2>3. p \in (1 .. N) \X (1 .. N) /\ p[1] = a /\ p[2] = b
    BY <2>1, <2>2
  <2>4. p \in closed
    BY <1>10, <2>1, <2>3
  <2>5. closed \subseteq (1 .. N) \X (1 .. N)
    BY <1>9
  <2>6. ASSUME NEW q \in closed PROVE q[1] <= p[1] /\ p[2] <= q[2]
    <3>1. q \in (1 .. N) \X (1 .. N) /\ q[1] \in 1 .. N /\ q[2] \in 1 .. N
      BY <2>5
    <3>2. q[1] <= lo /\ hi <= q[2] /\ CutsNone(G, q[1], q[2])
      BY <1>10, <3>1
    <3> QED
      BY <2>1, <2>3, <3>1, <3>2
  <2>7. \E x \in closed : \A q \in closed : q[1] <= x[1] /\ x[2] <= q[2]
    BY <2>4, <2>6
  <2> QED
    BY <1>11, <2>7, Zenon
<1>14. PICK a \in 1 .. N, b \in 1 .. N : a = r[1] /\ b = r[2] /\ a <= lo /\ hi <= b /\ CutsNone(G, a, b)
  <2>1. r \in (1 .. N) \X (1 .. N)
    BY <1>9, <1>13
  <2> QED
    BY <1>10, <1>13, <2>1
<1>15. ASSUME NEW c \in 1 .. N, NEW d \in 1 .. N, c <= lo, hi <= d, CutsNone(G, c, d) PROVE c <= a /\ b <= d
  <2>1. PICK q : q = <<c, d>>
    OBVIOUS
  <2>2. q \in (1 .. N) \X (1 .. N) /\ q[1] = c /\ q[2] = d
    BY <2>1
  <2>3. q \in closed
    BY <1>10, <1>15, <2>2
  <2> QED
    BY <1>13, <1>14, <2>2, <2>3
<1>16. PICK F : F = Overlapping(G, a, b)
  OBVIOUS
<1>17. F \in SUBSET G /\ \A f \in G : f \in F <=> High(f) >= a /\ Low(f) <= b
  BY <1>16 DEF Overlapping, Overlaps, High, Low
<1>18. \A f \in F : a <= Low(f) /\ High(f) <= b
  BY <1>14, <1>16 DEF CutsNone
<1>19. \A f \in G : Overlaps(f, lo, hi) => f \in F
  <2>1. ASSUME NEW f \in G, Overlaps(f, lo, hi) PROVE f \in F
    <3>1. High(f) >= lo /\ Low(f) <= hi /\ High(f) \in Nat /\ Low(f) \in Nat
      BY <1>6, <2>1 DEF Overlaps, High, Low
    <3>2. High(f) >= a /\ Low(f) <= b
      BY <1>7, <1>14, <3>1
    <3> QED
      BY <1>17, <3>2
  <2> QED
    BY <2>1
<1>20. ASSUME NEW f \in F, NEW g \in G \ F PROVE Apart(f, g)
  <2>1. /\ a <= Low(f) /\ High(f) <= b /\ ~(High(g) >= a /\ Low(g) <= b)
        /\ Low(f) \in Nat /\ High(f) \in Nat /\ Low(g) \in Nat /\ High(g) \in Nat
    BY <1>6, <1>17, <1>18
  <2> QED
    BY <2>1 DEF Apart
<1>21. ASSUME NEW x \in Nat, a <= x, x < lo PROVE \E h \in F : Covers(h, x)
  <2>1. SUFFICES ASSUME \A h \in F : ~Covers(h, x) PROVE FALSE
    OBVIOUS
  <2>2. x + 1 \in 1 .. N /\ x + 1 <= lo
    BY <1>7, <1>14, <1>21
  <2>3. CutsNone(G, x + 1, b)
    <3>1. SUFFICES ASSUME NEW f \in Overlapping(G, x + 1, b) PROVE x + 1 <= Low(f) /\ High(f) <= b
      BY DEF CutsNone
    <3>2. f \in G /\ High(f) >= x + 1 /\ Low(f) <= b /\ High(f) \in Nat /\ Low(f) \in Nat
      BY <1>6, <3>1 DEF Overlapping, Overlaps, High, Low
    <3>3. High(f) >= a
      BY <1>14, <1>21, <3>2
    <3>4. f \in F
      BY <1>17, <3>2, <3>3
    <3>5. ~(Low(f) <= x /\ x <= High(f)) /\ High(f) <= b
      BY <1>18, <2>1, <3>4 DEF Covers
    <3> QED
      BY <1>21, <3>2, <3>5
  <2>4. x + 1 <= a
    BY <1>14, <1>15, <2>2, <2>3
  <2> QED
    BY <1>14, <1>21, <2>4
<1>22. ASSUME NEW x \in Nat, hi < x, x <= b PROVE \E h \in F : Covers(h, x)
  <2>1. SUFFICES ASSUME \A h \in F : ~Covers(h, x) PROVE FALSE
    OBVIOUS
  <2>2. x - 1 \in 1 .. N /\ hi <= x - 1
    BY <1>7, <1>14, <1>22
  <2>3. CutsNone(G, a, x - 1)
    <3>1. SUFFICES ASSUME NEW f \in Overlapping(G, a, x - 1) PROVE a <= Low(f) /\ High(f) <= x - 1
      BY DEF CutsNone
    <3>2. f \in G /\ High(f) >= a /\ Low(f) <= x - 1 /\ High(f) \in Nat /\ Low(f) \in Nat
      BY <1>6, <3>1 DEF Overlapping, Overlaps, High, Low
    <3>3. Low(f) <= b
      BY <1>14, <1>22, <3>2
    <3>4. f \in F
      BY <1>17, <3>2, <3>3
    <3>5. ~(Low(f) <= x /\ x <= High(f)) /\ a <= Low(f)
      BY <1>18, <2>1, <3>4 DEF Covers
    <3> QED
      BY <1>22, <3>2, <3>5
  <2>4. b <= x - 1
    BY <1>14, <1>15, <2>2, <2>3
  <2> QED
    BY <1>14, <1>22, <2>4
<1>23. ASSUME NEW f \in F, NEW x \in Nat, Low(f) <= x, x < lo PROVE \E h \in F : Covers(h, x)
  <2>1. a <= Low(f) /\ Low(f) \in Nat
    BY <1>6, <1>17, <1>18
  <2>2. a <= x
    BY <1>14, <1>23, <2>1
  <2> QED
    BY <1>21, <1>23, <2>2
<1>24. ASSUME NEW f \in F, NEW x \in Nat, hi < x, x <= High(f) PROVE \E h \in F : Covers(h, x)
  <2>1. High(f) <= b /\ High(f) \in Nat
    BY <1>6, <1>17, <1>18
  <2>2. x <= b
    BY <1>14, <1>24, <2>1
  <2> QED
    BY <1>22, <1>24, <2>2
<1>25. ASSUME \A f \in F : ~Overlaps(f, lo, hi) PROVE F = {}
  <2>1. CutsNone(G, lo, hi)
    BY <1>19, <1>25 DEF CutsNone, Overlapping
  <2>2. lo <= a /\ b <= hi
    BY <1>7, <1>15, <2>1
  <2>3. a = lo /\ b = hi
    BY <1>7, <1>14, <2>2
  <2> QED
    BY <1>16, <1>25, <2>3 DEF Overlapping
<1>26. Chosen(F, G, lo, hi)
  BY <1>17, <1>19, <1>20, <1>23, <1>24, <1>25 DEF Chosen
<1> QED
  BY <1>3, <1>12, <1>14, <1>16, <1>26

LEMMA ChosenIs ==
    ASSUME Shaped(levels), NEW l \in Level, NEW lo \in Key, NEW hi \in Key, lo <= hi
    PROVE  Chosen(GetOverlappingInputs(l, lo, hi), levels[l], lo, hi)
<1>1. Top \in Nat /\ lo \in Nat /\ hi \in Nat
  BY ConstantsAssumption
<1>2. l = 0 \/ l \in 1 .. Top
  BY <1>1 DEF Level
<1>3. CASE l = 0
  BY <1>3, ChosenZero
<1>4. CASE l \in 1 .. Top
  BY <1>1, <1>4, ChosenDeep
<1> QED
  BY <1>2, <1>3, <1>4

\* Nothing continues behind files that lie apart from all others.
LEMMA NoBoundary ==
    ASSUME Shaped(levels), NEW l \in Level, NEW F \in SUBSET levels[l], F # {},
           \A f \in F : \A g \in levels[l] \ F : Apart(f, g)
    PROVE  Boundary(l, F) = {}
<1>1. SUFFICES ASSUME NEW f \in levels[l], Before(Last(Entries(F)), Smallest(f)), Smallest(f).key = HighKey(F) PROVE FALSE
  BY DEF Boundary
<1>2. \A g \in levels[l] : FileOK(g)
  BY DEF Shaped
<1>3. PICK h \in F : High(h) = HighKey(F)
  BY <1>2, Hull
<1>4. f \notin F
  <2>1. ASSUME f \in F PROVE FALSE
    <3>1. Smallest(f) \in Entries(F)
      BY <1>2, <2>1, FileEnds DEF Entries
    <3>2. Entries(F) \in SUBSET Entry /\ Entries(F) # {}
      BY <1>2, Hull
    <3> QED
      BY <1>1, <3>1, <3>2, LastIs
  <2> QED
    BY <2>1
<1>5. Apart(h, f) /\ Low(f) = High(h)
  BY <1>1, <1>3, <1>4 DEF Low
<1>6. Low(f) \in Nat /\ High(f) \in Nat /\ Low(f) <= High(f) /\ Low(h) \in Nat /\ High(h) \in Nat /\ Low(h) <= High(h)
  BY <1>2, <1>3, FileEnds
<1> QED
  BY <1>5, <1>6 DEF Apart

\* Then addBoundaryInputs adds nothing.
LEMMA NoneAdded ==
    ASSUME NEW level \in Level, NEW files, Boundary(level, files) = {}, Cardinality(levels[level]) \in Nat
    PROVE  addBoundaryInputs(level, files) = files
<1> DEFINE step(extended, n) ==
        IF n = 0 THEN files
        ELSE LET s == extended[n - 1]
                 b == Boundary(level, s)
             IN IF s = {} \/ b = {} THEN s
                ELSE s \cup {CHOOSE f \in b : \A g \in b : ~Before(Smallest(g), Smallest(f))}
<1> DEFINE ext == CHOOSE extended : extended = [n \in Nat |-> step(extended, n)]
<1>1. addBoundaryInputs(level, files) = ext[Cardinality(levels[level])]
  BY Zenon DEF addBoundaryInputs
<1>2. PICK e : e = [n \in Nat |-> step(e, n)] /\ e = ext
  <2>1. PICK c : c = [n \in Nat |-> files]
    OBVIOUS
  <2>2. ASSUME NEW n \in Nat PROVE step(c, n) = files
    <3>1. CASE n = 0
      BY <3>1, Zenon
    <3>2. CASE n # 0
      <4>1. n - 1 \in Nat
        BY <3>2
      <4>2. c[n - 1] = files
        BY <2>1, <4>1
      <4> QED
        BY <3>2, <4>2, Zenon
    <3> QED
      BY <3>1, <3>2
  <2> HIDE DEF step
  <2>3. c = [n \in Nat |-> step(c, n)]
    BY <2>1, <2>2
  <2> QED
    BY <2>3, Zenon
<1>3. ASSUME NEW n \in Nat, e[n] # files PROVE FALSE
  <2>1. PICK B \in SUBSET Nat : B = {m \in Nat : e[m] # files}
    OBVIOUS
  <2>2. PICK m \in B : \A x \in B : m <= x
    BY <1>3, <2>1, LeastOf
  <2>3. m \in Nat /\ e[m] # files
    BY <2>1, <2>2
  <2>4. e[m] = step(e, m)
    <3> HIDE DEF step
    <3> QED
      BY <1>2, <2>3
  <2>5. m # 0
    BY <2>3, <2>4, Zenon
  <2>6. m - 1 \in Nat /\ ~(m <= m - 1)
    BY <2>3, <2>5
  <2>7. e[m - 1] = files
    BY <2>1, <2>2, <2>6
  <2>8. step(e, m) = files
    BY <2>5, <2>7, Zenon
  <2> QED
    BY <2>3, <2>4, <2>8, Zenon
<1> HIDE DEF ext
<1> QED
  BY <1>1, <1>2, <1>3, Zenon

-----------------------------------------------------------------------------
(* The inputs of a compaction.                                             *)

\* Files with which a compaction may begin.
Ready(l, F) ==
    /\ F \in SUBSET levels[l] /\ F # {} /\ NoGap(F)
    /\ \A f \in F : \A g \in levels[l] \ F : Apart(f, g)

\* Files without a gap in a range, and none on the way out of it.
Spread(F, lo, hi) ==
    /\ \A x \in Nat : lo <= x /\ x <= hi => \E h \in F : Covers(h, x)
    /\ \A f \in F, x \in Nat : Low(f) <= x /\ x < lo => \E h \in F : Covers(h, x)
    /\ \A f \in F, x \in Nat : hi < x /\ x <= High(f) => \E h \in F : Covers(h, x)

LEMMA SpreadNoGap ==
    ASSUME NEW F, NEW lo \in Nat, NEW hi \in Nat, Spread(F, lo, hi)
    PROVE  NoGap(F)
<1>1. SUFFICES ASSUME NEW f \in F, NEW g \in F, NEW x \in Nat, Low(f) <= x, x <= High(g)
               PROVE  \E h \in F : Covers(h, x)
  BY DEF NoGap
<1>2. CASE x < lo
  BY <1>1, <1>2 DEF Spread
<1>3. CASE hi < x
  BY <1>1, <1>3 DEF Spread
<1>4. CASE lo <= x /\ x <= hi
  BY <1>4 DEF Spread
<1> QED
  BY <1>2, <1>3, <1>4

\* Inputs without a gap, and the files of a level that overlap their range.
LEMMA HullSpread ==
    ASSUME NEW F, F # {}, \A f \in F : FileOK(f), NoGap(F), NEW P, NEW G, Chosen(P, G, LowKey(F), HighKey(F))
    PROVE  Spread(F \cup P, LowKey(F), HighKey(F))
<1>1. PICK lo \in Nat, hi \in Nat : lo = LowKey(F) /\ hi = HighKey(F)
  BY Hull
<1>2. \A f \in F : lo <= Low(f) /\ High(f) <= hi /\ Low(f) \in Nat /\ High(f) \in Nat
  BY <1>1, Hull, FileEnds
<1>3. PICK f1 \in F, f2 \in F : Low(f1) = lo /\ High(f2) = hi
  BY <1>1, Hull
<1>4. \A x \in Nat : lo <= x /\ x <= hi => \E h \in F : Covers(h, x)
  BY <1>3 DEF NoGap
<1>5. \A f \in F, x \in Nat : ~(Low(f) <= x /\ x < lo) /\ ~(hi < x /\ x <= High(f))
  BY <1>2
<1>6. /\ \A f \in P, x \in Nat : Low(f) <= x /\ x < lo => \E h \in P : Covers(h, x)
      /\ \A f \in P, x \in Nat : hi < x /\ x <= High(f) => \E h \in P : Covers(h, x)
  BY <1>1 DEF Chosen
<1>7. Spread(F \cup P, lo, hi)
  BY <1>4, <1>5, <1>6 DEF Spread
<1> QED
  BY <1>1, <1>7

LEMMA ParentsOK ==
    ASSUME Shaped(levels), NEW l \in 0 .. (Top - 1), NEW F \in SUBSET levels[l], F # {}
    PROVE  /\ Chosen(Parents(l, F), levels[l + 1], LowKey(F), HighKey(F))
           /\ \A f \in F \cup Parents(l, F) : \A g \in levels[l + 1] \ Parents(l, F) : Apart(f, g)
<1>1. Top \in Nat /\ l \in Nat /\ l \in Level /\ l + 1 \in Level /\ l + 1 \in 1 .. Top
  BY ConstantsAssumption DEF Level
<1>2. PICK P : P = Parents(l, F)
  OBVIOUS
<1>3. (\A f \in F : FileOK(f)) /\ \A g \in levels[l + 1] : FileOK(g)
  BY <1>1 DEF Shaped
<1>4. PICK lo \in Nat, hi \in Nat : lo = LowKey(F) /\ hi = HighKey(F) /\ lo \in Key /\ hi \in Key /\ lo <= hi
  BY <1>3, Hull
<1>5. P = GetOverlappingInputs(l + 1, lo, hi)
  BY <1>2, <1>4 DEF Parents
<1>6. Chosen(P, levels[l + 1], lo, hi)
  BY <1>1, <1>4, <1>5, ChosenIs
<1>7. ASSUME NEW f \in F, NEW g \in levels[l + 1] \ P PROVE Apart(f, g)
  <2>1. lo <= Low(f) /\ High(f) <= hi /\ Low(f) \in Nat /\ High(f) \in Nat /\ Low(g) \in Nat /\ High(g) \in Nat
    BY <1>3, <1>4, Hull, FileEnds
  <2>2. ~(High(g) >= lo /\ Low(g) <= hi)
    BY <1>6 DEF Chosen, Overlaps, High, Low
  <2> QED
    BY <1>4, <2>1, <2>2 DEF Apart
<1>8. \A f \in P : \A g \in levels[l + 1] \ P : Apart(f, g)
  BY <1>6 DEF Chosen
<1> QED
  BY <1>2, <1>4, <1>6, <1>7, <1>8

\* What SetupOtherInputs makes of them.
InputsOK(l, I, P) ==
    /\ I \in SUBSET levels[l] /\ I # {} /\ P \in SUBSET levels[l + 1] /\ NoGap(I \cup P)
    /\ \A f \in I : \A g \in levels[l] \ I : Apart(f, g)
    /\ \A f \in I \cup P : \A g \in levels[l + 1] \ P : Apart(f, g)

LEMMA AddsNothing ==
    ASSUME Shaped(levels), NEW l \in Level, IsFiniteSet(levels[l]), NEW F \in SUBSET levels[l], F # {},
           \A f \in F : \A g \in levels[l] \ F : Apart(f, g)
    PROVE  addBoundaryInputs(l, F) = F
<1>1. Boundary(l, F) = {}
  BY NoBoundary
<1>2. Cardinality(levels[l]) \in Nat
  BY FS_CardinalityType
<1> QED
  BY <1>1, <1>2, NoneAdded

LEMMA Setup ==
    ASSUME Shaped(levels), \A k \in Level : IsFiniteSet(levels[k]), NEW l \in 0 .. (Top - 1), NEW F, Ready(l, F)
    PROVE  InputsOK(l, SetupOtherInputs(l, F).in0, SetupOtherInputs(l, F).in1)
<1>1. Top \in Nat /\ l \in Nat /\ l \in Level /\ l + 1 \in Level
  BY ConstantsAssumption DEF Level
<1>2. F \in SUBSET levels[l] /\ F # {} /\ NoGap(F) /\ \A f \in F : \A g \in levels[l] \ F : Apart(f, g)
  BY DEF Ready
<1>3. (\A f \in levels[l] : FileOK(f)) /\ \A g \in levels[l + 1] : FileOK(g)
  BY <1>1 DEF Shaped
<1>4. addBoundaryInputs(l, F) = F
  BY <1>1, <1>2, AddsNothing
<1>5. PICK P : P = Parents(l, F)
  OBVIOUS
<1>6. /\ Chosen(P, levels[l + 1], LowKey(F), HighKey(F))
      /\ \A f \in F \cup P : \A g \in levels[l + 1] \ P : Apart(f, g)
  BY <1>2, <1>5, ParentsOK
<1>7. P \in SUBSET levels[l + 1]
  BY <1>6 DEF Chosen
<1>8. Spread(F \cup P, LowKey(F), HighKey(F))
  BY <1>2, <1>3, <1>6, HullSpread
<1>9. NoGap(F \cup P)
  <2>1. LowKey(F) \in Nat /\ HighKey(F) \in Nat
    BY <1>2, <1>3, Hull
  <2> QED
    BY <1>8, <2>1, SpreadNoGap
<1>10. InputsOK(l, F, P)
  BY <1>2, <1>6, <1>7, <1>9 DEF InputsOK
<1>11. \A f \in F \cup P : FileOK(f)
  BY <1>2, <1>3, <1>7
<1>12. PICK lo \in Key, hi \in Key : /\ lo = LowKey(F \cup P) /\ hi = HighKey(F \cup P) /\ lo <= hi
                                    /\ lo \in Nat /\ hi \in Nat
  BY <1>2, <1>11, Hull
<1>13. PICK M : M = GetOverlappingInputs(l, lo, hi)
  OBVIOUS
<1>14. Chosen(M, levels[l], lo, hi)
  BY <1>1, <1>12, <1>13, ChosenIs
<1>15. M \in SUBSET levels[l] /\ \A f \in M : \A g \in levels[l] \ M : Apart(f, g)
  BY <1>14 DEF Chosen
<1>16. F \subseteq M
  <2>1. ASSUME NEW f \in F PROVE f \in M
    <3>1. lo <= Low(f) /\ High(f) <= hi /\ Low(f) \in Nat /\ High(f) \in Nat /\ Low(f) <= High(f)
      BY <1>11, <1>12, Hull, FileEnds
    <3>2. High(f) >= lo /\ Low(f) <= hi
      BY <1>12, <3>1
    <3>3. Overlaps(f, lo, hi)
      BY <3>2 DEF Overlaps, High, Low
    <3> QED
      BY <1>2, <1>14, <3>3 DEF Chosen
  <2> QED
    BY <2>1
<1>17. addBoundaryInputs(l, M) = M /\ M # {}
  BY <1>1, <1>2, <1>15, <1>16, AddsNothing
<1>18. PICK Q : Q = Parents(l, M)
  OBVIOUS
<1>19. /\ Chosen(Q, levels[l + 1], LowKey(M), HighKey(M))
       /\ \A f \in M \cup Q : \A g \in levels[l + 1] \ Q : Apart(f, g)
  BY <1>15, <1>17, <1>18, ParentsOK
<1>20. PICK grow \in BOOLEAN :
         grow = (/\ P # {} /\ Cardinality(M) > Cardinality(F)
                 /\ Size(P) + Size(M) < ExpandLimit /\ Cardinality(Q) = Cardinality(P))
  OBVIOUS
<1>21. SetupOtherInputs(l, F) = [in0 |-> IF grow THEN M ELSE F, in1 |-> IF grow THEN Q ELSE P]
  BY <1>4, <1>5, <1>12, <1>13, <1>17, <1>18, <1>20, Zenon DEF SetupOtherInputs
<1>22. CASE ~grow
  <2>1. SetupOtherInputs(l, F).in0 = F /\ SetupOtherInputs(l, F).in1 = P
    BY <1>21, <1>22
  <2> QED
    BY <1>10, <2>1
<1>23. CASE grow
  <2>1. SetupOtherInputs(l, F).in0 = M /\ SetupOtherInputs(l, F).in1 = Q
    BY <1>21, <1>23
  <2>2. P \subseteq Q
    <3>1. ASSUME NEW g \in P PROVE g \in Q
      <4>1. Overlaps(g, LowKey(F), HighKey(F))
        <5>1. l + 1 \in 1 .. Top /\ LowKey(F) \in Nat /\ HighKey(F) \in Nat /\ LowKey(F) <= HighKey(F)
          BY <1>1, <1>2, <1>3, Hull
        <5>2. P = Overlapping(levels[l + 1], LowKey(F), HighKey(F))
          BY <1>5, <5>1, ChosenDeep DEF Parents
        <5> QED
          BY <5>2 DEF Overlapping
      <4>2. PICK f1 \in F, f2 \in F : Low(f1) = LowKey(F) /\ High(f2) = HighKey(F)
        BY <1>2, <1>3, Hull
      <4>3. LowKey(M) <= Low(f1) /\ High(f2) <= HighKey(M) /\ LowKey(M) \in Nat /\ HighKey(M) \in Nat
        BY <1>3, <1>15, <1>16, <1>17, Hull
      <4>4. Low(f1) \in Nat /\ High(f2) \in Nat /\ Low(g) \in Nat /\ High(g) \in Nat
        BY <1>2, <1>3, <1>7, FileEnds
      <4>5. High(g) >= Low(f1) /\ Low(g) <= High(f2)
        BY <4>1, <4>2 DEF Overlaps, High, Low
      <4>6. High(g) >= LowKey(M) /\ Low(g) <= HighKey(M)
        BY <4>3, <4>4, <4>5
      <4>7. Overlaps(g, LowKey(M), HighKey(M))
        BY <4>6 DEF Overlaps, High, Low
      <4> QED
        BY <1>7, <1>19, <4>7 DEF Chosen
    <3> QED
      BY <3>1
  <2>3. Q = P
    <3>1. Q \in SUBSET levels[l + 1]
      BY <1>19 DEF Chosen
    <3>2. IsFiniteSet(Q)
      BY <1>1, <3>1, FS_Subset
    <3>3. Cardinality(Q) = Cardinality(P)
      BY <1>20, <1>23
    <3> QED
      BY <2>2, <3>2, <3>3, FS_Subset
  <2>4. Spread(M \cup P, lo, hi)
    <3>1. \A x \in Nat : lo <= x /\ x <= hi => \E h \in F \cup P : Covers(h, x)
      <4>1. PICK f1 \in F \cup P, f2 \in F \cup P : Low(f1) = lo /\ High(f2) = hi
        BY <1>2, <1>11, <1>12, Hull
      <4> QED
        BY <1>9, <4>1 DEF NoGap
    <3>2. /\ \A f \in M, x \in Nat : Low(f) <= x /\ x < lo => \E h \in M : Covers(h, x)
          /\ \A f \in M, x \in Nat : hi < x /\ x <= High(f) => \E h \in M : Covers(h, x)
      BY <1>14 DEF Chosen
    <3>3. \A f \in P : lo <= Low(f) /\ High(f) <= hi /\ Low(f) \in Nat /\ High(f) \in Nat
      BY <1>2, <1>11, <1>12, Hull, FileEnds
    <3>4. \A f \in P, x \in Nat : ~(Low(f) <= x /\ x < lo) /\ ~(hi < x /\ x <= High(f))
      BY <1>12, <3>3
    <3> QED
      BY <1>16, <3>1, <3>2, <3>4 DEF Spread
  <2>5. NoGap(M \cup P)
    BY <1>12, <2>4, SpreadNoGap
  <2>6. InputsOK(l, M, Q)
    BY <1>7, <1>15, <1>17, <1>19, <2>3, <2>5 DEF InputsOK
  <2> QED
    BY <2>1, <2>6
<1> QED
  BY <1>22, <1>23

LEMMA OneReady ==
    ASSUME Shaped(levels), NEW l \in 1 .. Top, NEW f \in levels[l]
    PROVE  Ready(l, {f})
<1>1. l \in Level /\ l \in Nat
  BY ConstantsAssumption DEF Level
<1>2. FileOK(f) /\ \A g \in levels[l] : f = g \/ Apart(f, g)
  BY <1>1 DEF Shaped
<1>3. Low(f) \in Nat /\ High(f) \in Nat
  BY <1>2, FileEnds
<1>4. NoGap({f})
  BY <1>3 DEF NoGap, Covers
<1> QED
  BY <1>2, <1>4 DEF Ready

\* In level 0: the files that overlap a file, or one user key.
LEMMA ZeroReady ==
    ASSUME Shaped(levels), NEW lo \in Key, NEW hi \in Key, lo <= hi, NEW f \in GetOverlappingInputs(0, lo, hi),
           \A x \in Nat : lo <= x /\ x <= hi => Covers(f, x)
    PROVE  Ready(0, GetOverlappingInputs(0, lo, hi))
<1>1. PICK F : F = GetOverlappingInputs(0, lo, hi)
  OBVIOUS
<1>2. 0 \in Level /\ lo \in Nat /\ hi \in Nat
  BY ConstantsAssumption DEF Level
<1>3. Chosen(F, levels[0], lo, hi)
  BY <1>1, <1>2, ChosenIs
<1>4. Spread(F, lo, hi)
  BY <1>1, <1>3 DEF Chosen, Spread
<1>5. NoGap(F)
  BY <1>2, <1>4, SpreadNoGap
<1>6. F \in SUBSET levels[0] /\ F # {} /\ \A g \in F : \A h \in levels[0] \ F : Apart(g, h)
  BY <1>1, <1>3 DEF Chosen
<1> QED
  BY <1>1, <1>5, <1>6 DEF Ready

LEMMA PickReady ==
    ASSUME Shaped(levels), NEW l \in 0 .. (Top - 1), NEW f \in levels[l]
    PROVE  Ready(l, PickInputs(l, f))
<1>1. Top \in Nat /\ l \in Level /\ (l = 0 \/ l \in 1 .. Top)
  BY ConstantsAssumption DEF Level
<1>2. FileOK(f)
  BY <1>1 DEF Shaped
<1>3. Low(f) \in Key /\ High(f) \in Key /\ Low(f) \in Nat /\ High(f) \in Nat /\ Low(f) <= High(f)
  BY <1>2, FileEnds
<1>4. CASE l = 0
  <2>1. PickInputs(l, f) = GetOverlappingInputs(0, Low(f), High(f))
    BY <1>4 DEF PickInputs, Low, High
  <2>2. Chosen(GetOverlappingInputs(0, Low(f), High(f)), levels[0], Low(f), High(f))
    BY <1>1, <1>3, <1>4, ChosenIs
  <2>3. High(f) >= Low(f) /\ Low(f) <= High(f)
    BY <1>3
  <2>4. Overlaps(f, Low(f), High(f))
    BY <2>3 DEF Overlaps, Low, High
  <2>5. f \in GetOverlappingInputs(0, Low(f), High(f))
    BY <1>4, <2>2, <2>4 DEF Chosen
  <2>6. \A x \in Nat : Low(f) <= x /\ x <= High(f) => Covers(f, x)
    BY DEF Covers
  <2> QED
    BY <1>3, <1>4, <2>1, <2>5, <2>6, ZeroReady
<1>5. CASE l \in 1 .. Top
  <2>1. l # 0
    BY <1>1, <1>5
  <2>2. PickInputs(l, f) = {f}
    BY <2>1 DEF PickInputs
  <2> QED
    BY <1>5, <2>2, OneReady
<1> QED
  BY <1>1, <1>4, <1>5

LEMMA RangeReady ==
    ASSUME Shaped(levels), NEW l \in 0 .. (Top - 1), NEW k \in Key, RangeInputs(l, k, k) # {}
    PROVE  Ready(l, RangeInputs(l, k, k))
<1>1. Top \in Nat /\ l \in Level /\ (l = 0 \/ l \in 1 .. Top)
  BY ConstantsAssumption DEF Level
<1>2. k \in Nat /\ k <= k
  BY ConstantsAssumption
<1>3. \A f \in levels[l] : FileOK(f) /\ Low(f) \in Nat /\ High(f) \in Nat
  BY <1>1, FileEnds DEF Shaped
<1>4. \A f \in levels[l] : Overlaps(f, k, k) => High(f) >= k /\ Low(f) <= k
  BY DEF Overlaps, High, Low
<1>5. CASE l = 0
  <2>1. PICK F : F = GetOverlappingInputs(0, k, k)
    OBVIOUS
  <2>2. RangeInputs(l, k, k) = F
    BY <1>5, <2>1 DEF RangeInputs
  <2>3. Chosen(F, levels[l], k, k)
    BY <1>1, <1>2, <1>5, <2>1, ChosenIs
  <2>4. PICK f \in F : Overlaps(f, k, k)
    BY <2>2, <2>3 DEF Chosen
  <2>5. f \in levels[l]
    BY <2>3 DEF Chosen
  <2>6. High(f) >= k /\ Low(f) <= k
    BY <1>4, <2>4, <2>5
  <2>7. \A x \in Nat : k <= x /\ x <= k => Covers(f, x)
    BY <1>2, <2>6 DEF Covers
  <2> QED
    BY <1>2, <1>5, <2>1, <2>2, <2>7, ZeroReady
<1>6. CASE l \in 1 .. Top
  <2>1. l # 0
    BY <1>1, <1>6
  <2>2. GetOverlappingInputs(l, k, k) = Overlapping(levels[l], k, k)
    BY <1>2, <1>6, ChosenDeep
  <2>3. RangeInputs(l, k, k) \subseteq Overlapping(levels[l], k, k)
    BY <2>1, <2>2 DEF RangeInputs
  <2>4. PICK f : f \in RangeInputs(l, k, k)
    OBVIOUS
  <2>5. f \in levels[l] /\ Overlaps(f, k, k)
    BY <2>3, <2>4 DEF Overlapping
  <2>6. ASSUME NEW g \in RangeInputs(l, k, k) PROVE g = f
    <3>1. g \in levels[l] /\ Overlaps(g, k, k)
      BY <2>3 DEF Overlapping
    <3>2. /\ High(f) >= k /\ Low(f) <= k /\ High(g) >= k /\ Low(g) <= k
          /\ High(f) \in Nat /\ Low(f) \in Nat /\ High(g) \in Nat /\ Low(g) \in Nat
      BY <1>3, <1>4, <2>5, <3>1
    <3>3. ~Apart(f, g)
      BY <1>2, <3>2 DEF Apart
    <3> QED
      BY <1>6, <2>5, <3>1, <3>3 DEF Shaped
  <2>7. RangeInputs(l, k, k) = {f}
    BY <2>4, <2>6
  <2> QED
    BY <1>6, <2>5, <2>7, OneReady
<1> QED
  BY <1>1, <1>5, <1>6

-----------------------------------------------------------------------------
(* What holds of the database.                                             *)

File == [number : Nat, entries : SUBSET Entry]
Newer(S, T) == \A d \in S, e \in T : d.key = e.key => d.seq > e.seq
Distinct(S) == \A d, e \in S : d.seq = e.seq => d = e

\* The files of a version, and their entries.
All(V) == UNION {V[l] : l \in Level}
Tables(V) == Entries(All(V))
Stored == mem \cup imm \cup Tables(levels)

\* Of two entries of a key in a version the newer one is nearer.
Ordered(V) ==
    /\ \A f, g \in V[0] : (f.number > g.number => Newer(f.entries, g.entries)) /\ (f.number = g.number => f = g)
    /\ \A l, k \in Level : l < k => \A f \in V[l], g \in V[k] : Newer(f.entries, g.entries)

VersionOK(V, H) ==
    /\ Shaped(V) /\ Ordered(V) /\ Tables(V) \subseteq H
    /\ \A l \in Level : IsFiniteSet(V[l])

\* Whatever is written is stored, or a newer entry of its key was written,
\* or it is a deletion and nothing of its key is left: up to a sequence number.
VisibleAt(H, S, s) ==
    \A e \in H : e.seq <= s =>
       \/ e \in S
       \/ \E d \in H : d.key = e.key /\ d.seq > e.seq /\ d.seq <= s
       \/ e.del /\ \A d \in S : d.key = e.key => d.seq > s

HistOK ==
    /\ hist \in SUBSET Entry /\ IsFiniteSet(hist) /\ Distinct(hist)
    /\ lastsequence \in Nat /\ lastsequence <= MaxSequence /\ \A e \in hist : e.seq <= lastsequence

MemOK ==
    /\ mem \subseteq hist /\ imm \subseteq hist /\ hasimm \in BOOLEAN /\ (~hasimm => imm = {})
    /\ Newer(mem, imm) /\ Newer(mem, Tables(levels)) /\ Newer(imm, Tables(levels))

LevelsOK ==
    /\ levels \in [Level -> SUBSET File] /\ VersionOK(levels, hist)
    /\ nextfile \in Nat /\ \A f \in levels[0] : f.number < nextfile

\* While a compaction works: its files are there, what was flushed into its
\* level is newer, what was flushed into the next level lies apart from all
\* of it, and what isBaseLevelForKey does not look at too.
Working(V, c) ==
    /\ c.level \in 0 .. (Top - 1) /\ c.smallest \in Nat
    /\ c.inputs \in SUBSET V[c.level] /\ c.inputs # {} /\ c.parents \in SUBSET V[c.level + 1]
    /\ NoGap(c.inputs \cup c.parents)
    /\ \A f \in c.inputs : \A g \in V[c.level] \ c.inputs : Newer(g.entries, f.entries)
    /\ \A f \in c.inputs \cup c.parents : \A g \in V[c.level + 1] \ c.parents : Apart(f, g)
    /\ \A k \in (c.level + 2) .. Top : \A g \in V[k] :
          g \in c.below \/ \A f \in c.inputs \cup c.parents : Apart(f, g)
    /\ \A e \in Entries(c.inputs \cup c.parents) : e.seq <= c.smallest
CompactionOK == compaction # NoCompaction => Working(levels, compaction)

TreeInv == HistOK /\ MemOK /\ LevelsOK /\ VisibleAt(hist, Stored, lastsequence) /\ CompactionOK

\* A call of Get that no flush and no compaction disturbed.
Absent(S, k, s) == \A d \in S : ~(d.key = k /\ d.seq <= s)
Looking == {"mem", "imm", "immget", "version"}
Undisturbed(g) ==
    /\ g.key \in Key /\ g.snap <= lastsequence
    /\ VersionOK(g.version, hist) /\ All(g.version) = All(levels)
    /\ ~g.old => VisibleAt(hist, Stored, g.snap)
    /\ g.pc # "mem" => Absent(mem, g.key, g.snap)
    /\ g.pc = "immget" => hasimm
    /\ g.pc = "version" => Absent(imm, g.key, g.snap)
GetState == [pc : Looking \cup {"idle", "done", "crashed", "failed"}, key : Nat, snap : Nat,
             version : {<< >>} \cup [Level -> SUBSET File], old : BOOLEAN, disturbed : BOOLEAN, wrong : BOOLEAN]
GetsOK ==
    /\ get \in [Reader -> GetState]
    /\ \A r \in Reader : get[r].pc \in Looking /\ ~get[r].disturbed => Undisturbed(get[r])

LSMInv == TreeInv /\ GetsOK /\ QuietGet

-----------------------------------------------------------------------------
(* A compaction replaces files.                                            *)

\* W is V with the files O of level l + 1 in place of I and P.
Moved(V, W, l, I, P, O) ==
    /\ DOMAIN W = Level /\ W[l] = V[l] \ I /\ W[l + 1] = (V[l + 1] \ P) \cup O
    /\ \A k \in Level : k # l /\ k # l + 1 => W[k] = V[k]

Replaces(V, l, I, P, O) ==
    /\ I \in SUBSET V[l] /\ P \in SUBSET V[l + 1]
    /\ \A f \in I : \A g \in V[l] \ I : Newer(g.entries, f.entries)
    /\ IsFiniteSet(O) /\ \A f \in O : FileOK(f)
    /\ \A f, g \in O : f = g \/ Apart(f, g)
    /\ \A f \in O : \A g \in V[l + 1] \ P : Apart(f, g)
    /\ Entries(O) \subseteq Entries(I \cup P)

LEMMA ApartSym == \A f, g : Apart(f, g) <=> Apart(g, f)
  BY DEF Apart

LEMMA MovedShaped ==
    ASSUME NEW V, Shaped(V), NEW W, NEW l \in 0 .. (Top - 1), NEW I, NEW P, NEW O, Moved(V, W, l, I, P, O), Replaces(V, l, I, P, O)
    PROVE  Shaped(W)
<1>1. Top \in Nat /\ l \in Nat /\ l \in Level /\ l + 1 \in Level /\ l # l + 1
  BY ConstantsAssumption DEF Level
<1>2. ASSUME NEW k \in Level PROVE W[k] = V[k] \/ W[k] = V[k] \ I \/ (k = l + 1 /\ W[k] = (V[k] \ P) \cup O)
  BY <1>1 DEF Moved
<1>3. ASSUME NEW k \in Level, NEW f \in W[k] PROVE FileOK(f)
  <2>1. f \in V[k] \/ f \in O
    BY <1>2
  <2> QED
    BY <2>1 DEF Shaped, Replaces
<1>4. ASSUME NEW k \in 1 .. Top, NEW f \in W[k], NEW g \in W[k] PROVE f = g \/ Apart(f, g)
  <2>1. k \in Level
    BY <1>1 DEF Level
  <2>2. \A x, y \in V[k] : x = y \/ Apart(x, y)
    BY DEF Shaped
  <2>3. CASE f \in V[k] /\ g \in V[k]
    BY <2>2, <2>3
  <2>4. CASE f \notin V[k] \/ g \notin V[k]
    <3>1. k = l + 1 /\ W[k] = (V[k] \ P) \cup O
      BY <1>2, <2>1, <2>4
    <3>2. (\A x, y \in O : x = y \/ Apart(x, y)) /\ \A x \in O : \A y \in V[k] \ P : Apart(x, y)
      BY <3>1 DEF Replaces
    <3>3. CASE f \in O /\ g \in O
      BY <3>2, <3>3
    <3>4. CASE f \in O /\ g \in V[k] \ P
      BY <3>2, <3>4
    <3>5. CASE f \in V[k] \ P /\ g \in O
      BY <3>2, <3>5, ApartSym
    <3> QED
      BY <2>4, <3>1, <3>3, <3>4, <3>5
  <2> QED
    BY <2>3, <2>4
<1> QED
  BY <1>3, <1>4 DEF Shaped, Moved

\* Where the entries of the new version come from.
LEMMA MovedFrom ==
    ASSUME NEW V, NEW W, NEW l \in 0 .. (Top - 1), NEW I, NEW P, NEW O, Moved(V, W, l, I, P, O), Replaces(V, l, I, P, O),
           NEW k \in Level, NEW f \in W[k], NEW e \in f.entries
    PROVE  \/ \E g \in V[k] : e \in g.entries /\ (k = l => g \notin I)
           \/ k = l + 1 /\ \E g \in I : e \in g.entries
<1>1. Top \in Nat /\ l \in Nat /\ l \in Level /\ l + 1 \in Level /\ l # l + 1
  BY ConstantsAssumption DEF Level
<1>2. CASE k # l /\ k # l + 1
  BY <1>2 DEF Moved
<1>3. CASE k = l
  BY <1>3 DEF Moved
<1>4. CASE k = l + 1
  <2>1. f \in V[k] \/ f \in O
    BY <1>4 DEF Moved
  <2>2. CASE f \in V[k]
    BY <1>1, <1>4, <2>2
  <2>3. CASE f \in O
    <3>1. e \in Entries(I \cup P)
      BY <2>3 DEF Replaces, Entries
    <3>2. PICK g \in I \cup P : e \in g.entries
      BY <3>1 DEF Entries
    <3>3. P \in SUBSET V[k]
      BY <1>4 DEF Replaces
    <3> QED
      BY <1>1, <1>4, <3>2, <3>3
  <2> QED
    BY <2>1, <2>2, <2>3
<1> QED
  BY <1>2, <1>3, <1>4

LEMMA MovedOrdered ==
    ASSUME NEW V, Ordered(V), NEW W, NEW l \in 0 .. (Top - 1), NEW I, NEW P, NEW O, Moved(V, W, l, I, P, O), Replaces(V, l, I, P, O)
    PROVE  Ordered(W)
<1>1. Top \in Nat /\ l \in Nat /\ l \in Level /\ l + 1 \in Level /\ l # l + 1 /\ 0 \in Level /\ 0 # l + 1
  BY ConstantsAssumption DEF Level
<1>2. W[0] \subseteq V[0]
  BY <1>1 DEF Moved
<1>3. \A f, g \in W[0] : (f.number > g.number => Newer(f.entries, g.entries)) /\ (f.number = g.number => f = g)
  BY <1>2 DEF Ordered
<1>4. \A i, j \in Level : i < j => \A f \in V[i], g \in V[j] : Newer(f.entries, g.entries)
  BY DEF Ordered
<1>5. I \in SUBSET V[l] /\ \A f \in I : \A g \in V[l] \ I : Newer(g.entries, f.entries)
  BY DEF Replaces
<1>6. ASSUME NEW i \in Level, NEW j \in Level, i < j, NEW f \in W[i], NEW g \in W[j] PROVE Newer(f.entries, g.entries)
  <2>1. SUFFICES ASSUME NEW d \in f.entries, NEW e \in g.entries, d.key = e.key PROVE d.seq > e.seq
    BY DEF Newer
  <2>2. i \in Nat /\ j \in Nat
    BY <1>1 DEF Level
  <2>3. \/ \E x \in V[i] : d \in x.entries /\ (i = l => x \notin I)
        \/ i = l + 1 /\ \E x \in I : d \in x.entries
    BY MovedFrom
  <2>4. \/ \E x \in V[j] : e \in x.entries /\ (j = l => x \notin I)
        \/ j = l + 1 /\ \E x \in I : e \in x.entries
    BY MovedFrom
  <2>5. CASE i = l + 1 /\ \E x \in I : d \in x.entries
    <3>1. PICK x \in I : d \in x.entries
      BY <2>5
    <3>2. j # l + 1 /\ l < j
      BY <1>1, <1>6, <2>2, <2>5
    <3>3. PICK y \in V[j] : e \in y.entries
      BY <2>4, <3>2
    <3>4. Newer(x.entries, y.entries)
      BY <1>1, <1>4, <1>5, <3>2
    <3> QED
      BY <2>1, <3>1, <3>3, <3>4 DEF Newer
  <2>6. CASE \E x \in V[i] : d \in x.entries /\ (i = l => x \notin I)
    <3>1. PICK x \in V[i] : d \in x.entries /\ (i = l => x \notin I)
      BY <2>6
    <3>2. CASE \E y \in V[j] : e \in y.entries /\ (j = l => y \notin I)
      <4>1. PICK y \in V[j] : e \in y.entries
        BY <3>2
      <4>2. Newer(x.entries, y.entries)
        BY <1>4, <1>6
      <4> QED
        BY <2>1, <3>1, <4>1, <4>2 DEF Newer
    <3>3. CASE j = l + 1 /\ \E y \in I : e \in y.entries
      <4>1. PICK y \in I : e \in y.entries
        BY <3>3
      <4>2. i = l \/ i < l
        BY <1>1, <1>6, <2>2, <3>3
      <4>3. Newer(x.entries, y.entries)
        BY <1>1, <1>4, <1>5, <3>1, <4>2
      <4> QED
        BY <2>1, <3>1, <4>1, <4>3 DEF Newer
    <3> QED
      BY <2>4, <3>2, <3>3
  <2> QED
    BY <2>3, <2>5, <2>6
<1> QED
  BY <1>3, <1>6 DEF Ordered

LEMMA MovedOK ==
    ASSUME NEW V, NEW H, VersionOK(V, H), NEW W, NEW l \in 0 .. (Top - 1), NEW I, NEW P, NEW O,
           Moved(V, W, l, I, P, O), Replaces(V, l, I, P, O)
    PROVE  VersionOK(W, H) /\ Tables(W) \subseteq Tables(V)
<1>1. Top \in Nat /\ l \in Nat /\ l \in Level /\ l + 1 \in Level /\ l # l + 1
  BY ConstantsAssumption DEF Level
<1>2. Shaped(V) /\ Ordered(V) /\ Tables(V) \subseteq H /\ \A k \in Level : IsFiniteSet(V[k])
  BY DEF VersionOK
<1>3. Shaped(W) /\ Ordered(W)
  BY <1>2, MovedShaped, MovedOrdered
<1>4. ASSUME NEW e \in Tables(W) PROVE e \in Tables(V)
  <2>0. PICK k \in Level : \E f \in W[k] : e \in f.entries
    BY DEF Tables, All, Entries
  <2>1. PICK f \in W[k] : e \in f.entries
    BY <2>0
  <2>2. \/ \E g \in V[k] : e \in g.entries
        \/ \E g \in I : e \in g.entries
    BY <2>1, MovedFrom
  <2>3. I \subseteq V[l]
    BY DEF Replaces
  <2> QED
    BY <1>1, <2>2, <2>3 DEF Tables, All, Entries
<1>5. ASSUME NEW k \in Level PROVE IsFiniteSet(W[k])
  <2>1. IsFiniteSet(O) /\ IsFiniteSet(V[k])
    BY <1>2 DEF Replaces
  <2>2. CASE k # l /\ k # l + 1
    BY <2>1, <2>2 DEF Moved
  <2>3. CASE k = l
    <3>1. W[k] \subseteq V[k]
      BY <2>3 DEF Moved
    <3> QED
      BY <2>1, <3>1, FS_Subset
  <2>4. CASE k = l + 1
    <3>1. W[k] \subseteq V[k] \cup O
      BY <2>4 DEF Moved
    <3> QED
      BY <2>1, <3>1, FS_Subset, FS_Union
  <2> QED
    BY <2>2, <2>3, <2>4
<1> QED
  BY <1>2, <1>3, <1>4, <1>5 DEF VersionOK

-----------------------------------------------------------------------------
(* The files a compaction writes.                                          *)

Part(K, ends, e) == {d \in K : /\ ~Before(e, d)
                               /\ \A x \in ends : Before(x, e) => Before(x, d)}
OnePerKey(K) == \A d, e \in K : d.key = e.key => d = e

LEMMA OutputFile ==
    ASSUME NEW K \in SUBSET Entry, IsFiniteSet(K), NEW ends \in SUBSET K, nextfile \in Nat, NEW f \in Output(K, ends)
    PROVE  \E e \in ends : f.entries = Part(K, ends, e) /\ FileOK(f) /\ e \in Part(K, ends, e)
<1>1. PICK e \in ends : f = [number |-> nextfile + Cardinality({x \in ends : Before(x, e)}), entries |-> Part(K, ends, e)]
  BY DEF Output, Part
<1>2. Cardinality({x \in ends : Before(x, e)}) \in Nat
  <2>1. {x \in ends : Before(x, e)} \subseteq K
    OBVIOUS
  <2>2. IsFiniteSet({x \in ends : Before(x, e)})
    BY <2>1, FS_Subset
  <2> QED
    BY <2>2, FS_CardinalityType
<1>3. Part(K, ends, e) \in SUBSET Entry
  BY DEF Part
<1>4. e.key \in Nat /\ e.seq \in Nat
  BY EntryIs
<1>5. ~Before(e, e)
  BY <1>4 DEF Before
<1>6. e \in Part(K, ends, e)
  BY <1>5 DEF Part
<1>7. f.number \in Nat
  BY <1>1, <1>2
<1>8. f \in [number : Nat, entries : SUBSET Entry] /\ f.entries = Part(K, ends, e)
  BY <1>1, <1>3, <1>7
<1> QED
  BY <1>6, <1>8 DEF FileOK

LEMMA OutputApart ==
    ASSUME NEW K \in SUBSET Entry, IsFiniteSet(K), OnePerKey(K), NEW ends \in SUBSET K, nextfile \in Nat,
           NEW f \in Output(K, ends), NEW g \in Output(K, ends)
    PROVE  f = g \/ Apart(f, g)
<1>1. PICK a \in ends : f = [number |-> nextfile + Cardinality({x \in ends : Before(x, a)}), entries |-> Part(K, ends, a)]
  BY DEF Output, Part
<1>2. PICK b \in ends : g = [number |-> nextfile + Cardinality({x \in ends : Before(x, b)}), entries |-> Part(K, ends, b)]
  BY DEF Output, Part
<1>3. FileOK(f) /\ FileOK(g)
  BY OutputFile
<1>4. f.entries = Part(K, ends, a) /\ g.entries = Part(K, ends, b)
  BY <1>1, <1>2
<1>5. ASSUME NEW x \in ends, NEW y \in ends, x.key < y.key, NEW p, NEW q, FileOK(p), FileOK(q),
             p.entries = Part(K, ends, x), q.entries = Part(K, ends, y)
      PROVE  High(p) < Low(q)
  <2>1. x.key \in Nat /\ y.key \in Nat /\ x.seq \in Nat
    BY EntryIs
  <2>2. Before(x, y)
    BY <1>5 DEF Before
  <2>3. Largest(p) \in Part(K, ends, x) /\ Smallest(q) \in Part(K, ends, y)
    BY <1>5, FileEnds
  <2>4. Largest(p) \in K /\ ~Before(x, Largest(p))
    BY <2>3 DEF Part
  <2>5. Smallest(q) \in K /\ Before(x, Smallest(q))
    BY <2>2, <2>3 DEF Part
  <2>6. Largest(p).key \in Nat /\ Smallest(q).key \in Nat /\ Smallest(q).seq \in Nat
    BY <2>4, <2>5, EntryIs
  <2>7. Largest(p).key <= x.key
    BY <2>1, <2>4, <2>6 DEF Before
  <2>8. x.key = Smallest(q).key => x = Smallest(q)
    BY <2>5 DEF OnePerKey
  <2>9. x.key < Smallest(q).key
    BY <2>1, <2>5, <2>6, <2>8 DEF Before
  <2> QED
    BY <2>1, <2>6, <2>7, <2>9 DEF High, Low
<1>6. a.key \in Nat /\ b.key \in Nat
  BY EntryIs
<1>7. CASE a.key < b.key
  BY <1>3, <1>4, <1>5, <1>7 DEF Apart
<1>8. CASE b.key < a.key
  BY <1>3, <1>4, <1>5, <1>8 DEF Apart
<1>9. CASE a.key = b.key
  <2>1. a = b
    BY <1>9 DEF OnePerKey
  <2> QED
    BY <1>1, <1>2, <2>1
<1> QED
  BY <1>6, <1>7, <1>8, <1>9

\* Every entry kept is in one of them.
LEMMA OutputAll ==
    ASSUME NEW K \in SUBSET Entry, NEW ends \in Cuts(K)
    PROVE  Entries(Output(K, ends)) = K /\ ends \in SUBSET K
<1>1. ends \in SUBSET K /\ (K # {} => Last(K) \in ends)
  BY DEF Cuts
<1>2. ASSUME NEW d \in Entries(Output(K, ends)) PROVE d \in K
  <2>1. PICK f \in Output(K, ends) : d \in f.entries
    BY DEF Entries
  <2>2. PICK e \in ends : f = [number |-> nextfile + Cardinality({x \in ends : Before(x, e)}), entries |-> Part(K, ends, e)]
    BY DEF Output, Part
  <2>3. f.entries = Part(K, ends, e)
    BY <2>2
  <2> QED
    BY <2>1, <2>3 DEF Part
<1>3. ASSUME NEW d \in K PROVE d \in Entries(Output(K, ends))
  <2>1. PICK S : S = {e \in ends : ~Before(e, d)}
    OBVIOUS
  <2>2. Last(K) \in S
    BY <1>1, <2>1, LastIs
  <2>3. S \in SUBSET Entry /\ S # {}
    BY <1>1, <2>1, <2>2
  <2>4. PICK e : e = First(S) /\ e \in S /\ \A x \in S : ~Before(x, e)
    BY <2>3, FirstIs
  <2>5. e \in ends /\ ~Before(e, d) /\ \A x \in ends : Before(x, e) => Before(x, d)
    BY <2>1, <2>4
  <2>6. d \in Part(K, ends, e)
    BY <2>5 DEF Part
  <2>7. PICK f : f = [number |-> nextfile + Cardinality({x \in ends : Before(x, e)}), entries |-> Part(K, ends, e)]
    OBVIOUS
  <2>8. f \in Output(K, ends)
    BY <2>5, <2>7, Zenon DEF Output, Part
  <2>9. f.entries = Part(K, ends, e)
    BY <2>7
  <2> QED
    BY <2>6, <2>8, <2>9, Zenon DEF Entries
<1> QED
  BY <1>1, <1>2, <1>3

LEMMA OutputFinite ==
    ASSUME NEW K, NEW ends, IsFiniteSet(ends)
    PROVE  IsFiniteSet(Output(K, ends))
<1>1. PICK F : F = [e \in ends |-> [number |-> nextfile + Cardinality({x \in ends : Before(x, e)}), entries |-> Part(K, ends, e)]]
  OBVIOUS
<1>2. Output(K, ends) = {F[e] : e \in ends}
  BY <1>1 DEF Output, Part
<1>3. Output(K, ends) \subseteq {F[e] : e \in ends} /\ F \in [ends -> {F[e] : e \in ends}]
  BY <1>1, <1>2
<1>4. F \in Surjection(ends, {F[e] : e \in ends})
  BY <1>3 DEF Surjection
<1> QED
  BY <1>2, <1>4, FS_Surjection

-----------------------------------------------------------------------------
(* The end of a compaction.                                                *)

LEMMA KeptIs ==
    ASSUME NEW V, NEW c, Working(V, c), HistOK, VersionOK(V, hist)
    PROVE  /\ Kept(c) \subseteq Entries(c.inputs \cup c.parents) /\ Entries(c.inputs \cup c.parents) \subseteq hist
           /\ Kept(c) \in SUBSET Entry /\ IsFiniteSet(Kept(c)) /\ OnePerKey(Kept(c))
           /\ \A f \in c.inputs \cup c.parents : FileOK(f)
<1>1. Top \in Nat /\ c.level \in Nat /\ c.level \in Level /\ c.level + 1 \in Level
  BY ConstantsAssumption DEF Level, Working
<1>2. c.inputs \subseteq V[c.level] /\ c.parents \subseteq V[c.level + 1]
  BY DEF Working
<1>3. Entries(c.inputs \cup c.parents) \subseteq Tables(V)
  BY <1>1, <1>2 DEF Tables, All, Entries
<1>4. Tables(V) \subseteq hist /\ hist \subseteq Entry /\ IsFiniteSet(hist) /\ Distinct(hist)
  BY DEF VersionOK, HistOK
<1>5. Kept(c) \subseteq Entries(c.inputs \cup c.parents)
  BY DEF Kept
<1>6. IsFiniteSet(Kept(c))
  BY <1>3, <1>4, <1>5, FS_Subset
<1>7. OnePerKey(Kept(c))
  <2>1. SUFFICES ASSUME NEW d \in Kept(c), NEW e \in Kept(c), d.key = e.key, d # e PROVE FALSE
    BY DEF OnePerKey
  <2>2. d \in hist /\ e \in hist
    BY <1>3, <1>4, <1>5
  <2>3. d.seq \in Nat /\ e.seq \in Nat /\ d.seq # e.seq
    BY <1>4, <2>1, <2>2, EntryIs DEF Distinct
  <2>4. d.seq <= c.smallest /\ e.seq <= c.smallest
    BY <1>5 DEF Working
  <2>5. ~(d.seq > e.seq)
    BY <1>5, <2>1, <2>4 DEF Kept, Dropped
  <2>6. ~(e.seq > d.seq)
    BY <1>5, <2>1, <2>4 DEF Kept, Dropped
  <2> QED
    BY <2>3, <2>5, <2>6
<1>8. \A f \in c.inputs \cup c.parents : FileOK(f)
  BY <1>1, <1>2 DEF VersionOK, Shaped
<1> QED
  BY <1>3, <1>4, <1>5, <1>6, <1>7, <1>8

\* What is written lies apart from what stays in the level it goes to.
LEMMA OutputFits ==
    ASSUME NEW V, NEW c, Working(V, c), HistOK, VersionOK(V, hist), nextfile \in Nat, NEW ends \in Cuts(Kept(c)),
           NEW o \in Output(Kept(c), ends), NEW g \in V[c.level + 1] \ c.parents
    PROVE  Apart(o, g)
<1>1. PICK F : F = c.inputs \cup c.parents
  OBVIOUS
<1>2. Kept(c) \subseteq Entries(F) /\ Kept(c) \in SUBSET Entry /\ IsFiniteSet(Kept(c)) /\ \A f \in F : FileOK(f)
  BY <1>1, KeptIs
<1>3. ends \in SUBSET Kept(c) /\ Entries(Output(Kept(c), ends)) = Kept(c)
  BY <1>2, OutputAll
<1>4. FileOK(o)
  BY <1>2, <1>3, OutputFile
<1>5. o.entries \subseteq Entries(F)
  BY <1>2, <1>3 DEF Entries
<1>6. c.level + 1 \in Level
  BY ConstantsAssumption DEF Level, Working
<1>7. FileOK(g) /\ NoGap(F) /\ \A f \in F : Apart(f, g)
  BY <1>1, <1>6 DEF Working, VersionOK, Shaped
<1>8. (\A f \in F : High(g) < Low(f)) \/ (\A f \in F : High(f) < Low(g))
  BY <1>2, <1>7, Outside
<1>9. Smallest(o) \in o.entries /\ Largest(o) \in o.entries /\ Low(g) \in Nat /\ High(g) \in Nat
  BY <1>4, <1>7, FileEnds
<1>10. PICK p \in F, q \in F : Smallest(o) \in p.entries /\ Largest(o) \in q.entries
  BY <1>5, <1>9 DEF Entries
<1>11. /\ Low(p) <= Smallest(o).key /\ Largest(o).key <= High(q)
       /\ Low(p) \in Nat /\ High(q) \in Nat /\ Smallest(o).key \in Nat /\ Largest(o).key \in Nat
  BY <1>2, <1>10, FileEnds
<1>12. CASE \A f \in F : High(g) < Low(f)
  <2>1. High(g) < Smallest(o).key
    BY <1>9, <1>11, <1>12
  <2> QED
    BY <2>1 DEF Apart, Low
<1>13. CASE \A f \in F : High(f) < Low(g)
  <2>1. Largest(o).key < Low(g)
    BY <1>9, <1>11, <1>13
  <2> QED
    BY <2>1 DEF Apart, High
<1> QED
  BY <1>8, <1>12, <1>13

LEMMA InstallReplaces ==
    ASSUME NEW V, NEW c, Working(V, c), HistOK, VersionOK(V, hist), nextfile \in Nat, NEW ends \in Cuts(Kept(c))
    PROVE  /\ Replaces(V, c.level, c.inputs, c.parents, Output(Kept(c), ends))
           /\ Cardinality(ends) \in Nat
<1>1. PICK O : O = Output(Kept(c), ends)
  OBVIOUS
<1>2. /\ Kept(c) \subseteq Entries(c.inputs \cup c.parents) /\ Kept(c) \in SUBSET Entry
      /\ IsFiniteSet(Kept(c)) /\ OnePerKey(Kept(c))
  BY KeptIs
<1>3. ends \in SUBSET Kept(c) /\ Entries(O) = Kept(c)
  BY <1>1, <1>2, OutputAll
<1>4. IsFiniteSet(ends)
  BY <1>2, <1>3, FS_Subset
<1>5. IsFiniteSet(O)
  BY <1>1, <1>4, OutputFinite
<1>6. \A f \in O : FileOK(f)
  BY <1>1, <1>2, <1>3, OutputFile
<1>7. \A f, g \in O : f = g \/ Apart(f, g)
  BY <1>1, <1>2, <1>3, OutputApart
<1>8. \A f \in O : \A g \in V[c.level + 1] \ c.parents : Apart(f, g)
  BY <1>1, OutputFits
<1>9. Cardinality(ends) \in Nat
  BY <1>4, FS_CardinalityType
<1> QED
  BY <1>1, <1>2, <1>3, <1>5, <1>6, <1>7, <1>8, <1>9 DEF Replaces, Working

\* A deletion that is dropped was the last of its key.
LEMMA NothingLeft ==
    ASSUME TreeInv, NEW c, Working(levels, c), NEW ends \in Cuts(Kept(c)), NEW W,
           Moved(levels, W, c.level, c.inputs, c.parents, Output(Kept(c), ends)),
           NEW e \in Entries(c.inputs \cup c.parents), e \notin Kept(c), isBaseLevelForKey(c, e.key),
           \A d \in hist : d.key = e.key => d.seq <= e.seq,
           NEW k \in Level, NEW f \in W[k], NEW d \in f.entries, d \in hist, d.key = e.key
    PROVE  FALSE
<1>1. PICK l \in Nat : l = c.level /\ l \in Level /\ l + 1 \in Level /\ l # l + 1
  BY ConstantsAssumption DEF Level, Working
<1>2. HistOK /\ VersionOK(levels, hist) /\ nextfile \in Nat
  BY DEF TreeInv, LevelsOK
<1>3. /\ Kept(c) \subseteq Entries(c.inputs \cup c.parents) /\ Entries(c.inputs \cup c.parents) \subseteq hist
      /\ Kept(c) \in SUBSET Entry /\ \A x \in c.inputs \cup c.parents : FileOK(x)
  BY <1>2, KeptIs
<1>4. e \in hist /\ e.seq \in Nat /\ d.seq \in Nat /\ d.seq <= e.seq
  BY <1>2, <1>3, EntryIs DEF HistOK
<1>5. PICK x \in c.inputs \cup c.parents : e \in x.entries
  BY DEF Entries
<1>6. c.inputs \in SUBSET levels[l] /\ c.parents \in SUBSET levels[l + 1]
  BY <1>1 DEF Working
<1>7. \A i, j \in Level : i < j => \A p \in levels[i], q \in levels[j] : Newer(p.entries, q.entries)
  BY <1>2 DEF VersionOK, Ordered
<1>8. \A j \in Level : \A p \in levels[j] : FileOK(p)
  BY <1>2 DEF VersionOK, Shaped
<1>9. ~Newer(f.entries, x.entries)
  <2>1. ASSUME Newer(f.entries, x.entries) PROVE FALSE
    <3>1. d.seq > e.seq
      BY <1>5, <2>1 DEF Newer
    <3> QED
      BY <1>4, <3>1
  <2> QED
    BY <2>1
<1>10. ~(FileOK(f) /\ Apart(x, f))
  BY <1>3, <1>5, ApartKeys
<1>11. k \in Nat
  BY ConstantsAssumption DEF Level
<1>12. CASE k < l
  <2>1. f \in levels[k]
    <3>1. k # l /\ k # l + 1
      BY <1>11, <1>12
    <3> QED
      BY <1>1, <3>1 DEF Moved
  <2>2. k < l /\ k < l + 1
    BY <1>11, <1>12
  <2> QED
    BY <1>1, <1>6, <1>7, <1>9, <2>1, <2>2
<1>13. CASE k = l
  <2>1. f \in levels[l] \ c.inputs
    BY <1>1, <1>13 DEF Moved
  <2>2. l < l + 1
    BY <1>1
  <2>3. x \in c.inputs => Newer(f.entries, x.entries)
    BY <1>1, <2>1 DEF Working
  <2>4. x \in c.parents => Newer(f.entries, x.entries)
    BY <1>1, <1>6, <1>7, <2>1, <2>2
  <2> QED
    BY <1>9, <2>3, <2>4
<1>14. CASE k = l + 1
  <2>1. f \in levels[l + 1] \ c.parents \/ f \in Output(Kept(c), ends)
    BY <1>1, <1>14 DEF Moved
  <2>2. CASE f \in levels[l + 1] \ c.parents
    <3>1. Apart(x, f) /\ FileOK(f)
      BY <1>1, <1>8, <2>2 DEF Working
    <3> QED
      BY <1>10, <3>1
  <2>3. CASE f \in Output(Kept(c), ends)
    <3>1. Entries(Output(Kept(c), ends)) = Kept(c)
      BY <1>3, OutputAll
    <3>2. d \in Kept(c)
      BY <2>3, <3>1 DEF Entries
    <3>3. d # e /\ d \in hist /\ e \in hist
      BY <1>4, <3>2
    <3>4. d.seq # e.seq
      BY <1>2, <3>3 DEF HistOK, Distinct
    <3>5. e.seq > d.seq
      BY <1>4, <3>4
    <3>6. e.seq <= c.smallest
      BY DEF Working
    <3>7. Dropped(c, d)
      BY <3>5, <3>6 DEF Dropped
    <3> QED
      BY <3>2, <3>7 DEF Kept
  <2> QED
    BY <2>1, <2>2, <2>3
<1>15. CASE k > l + 1
  <2>1. k # l /\ k # l + 1 /\ k \in (l + 2) .. Top
    BY <1>1, <1>11, <1>15, ConstantsAssumption DEF Level
  <2>2. f \in levels[k]
    BY <1>1, <2>1 DEF Moved
  <2>3. f \in c.below \/ \A p \in c.inputs \cup c.parents : Apart(p, f)
    BY <1>1, <2>1, <2>2 DEF Working
  <2>4. FileOK(f)
    BY <1>8, <2>2
  <2>5. f \in c.below
    BY <1>10, <2>3, <2>4
  <2>6. Low(f) <= d.key /\ d.key <= High(f) /\ d.key \in Nat /\ High(f) \in Nat
    BY <2>4, FileEnds
  <2>7. High(f) >= d.key
    BY <2>6
  <2>8. Overlaps(f, e.key, e.key)
    BY <2>6, <2>7 DEF Overlaps, Low, High
  <2> QED
    BY <2>5, <2>8 DEF isBaseLevelForKey
<1> QED
  BY <1>1, <1>11, <1>12, <1>13, <1>14, <1>15

LEMMA InstallVisible ==
    ASSUME TreeInv, NEW c, Working(levels, c), NEW ends \in Cuts(Kept(c)), NEW W,
           Moved(levels, W, c.level, c.inputs, c.parents, Output(Kept(c), ends)), Tables(W) \subseteq Tables(levels)
    PROVE  VisibleAt(hist, mem \cup imm \cup Tables(W), lastsequence)
<1>1. HistOK /\ MemOK /\ LevelsOK /\ VersionOK(levels, hist) /\ VisibleAt(hist, Stored, lastsequence)
  BY DEF TreeInv, LevelsOK
<1>2. PICK l \in Nat : l = c.level /\ l \in Level /\ l + 1 \in Level /\ l # l + 1
  BY ConstantsAssumption DEF Level, Working
<1>3. PICK T : T = mem \cup imm \cup Tables(W)
  OBVIOUS
<1>4. T \subseteq Stored /\ T \subseteq hist
  BY <1>1, <1>3 DEF Stored, MemOK, VersionOK
<1>5. SUFFICES ASSUME NEW e \in hist, e.seq <= lastsequence,
                      ~ \E d \in hist : d.key = e.key /\ d.seq > e.seq /\ d.seq <= lastsequence,
                      e \notin T
               PROVE  e.del /\ \A d \in T : d.key = e.key => d.seq > lastsequence
  BY <1>3 DEF VisibleAt
<1>6. \A d \in hist : d.seq \in Nat /\ d.seq <= lastsequence
  BY <1>1, EntryIs DEF HistOK
<1>7. \A d \in hist : d.key = e.key => d.seq <= e.seq
  BY <1>5, <1>6
<1>8. CASE e \notin Stored
  BY <1>1, <1>4, <1>5, <1>8 DEF VisibleAt
<1>9. CASE e \in Stored
  <2>1. e \in Tables(levels) /\ e \notin Tables(W)
    BY <1>3, <1>5, <1>9 DEF Stored
  <2>2. PICK i \in Level : \E x \in levels[i] : e \in x.entries
    BY <2>1 DEF Tables, All, Entries
  <2>3. PICK x \in levels[i] : e \in x.entries
    BY <2>2
  <2>4. x \notin W[i]
    BY <2>1, <2>3 DEF Tables, All, Entries
  <2>5. x \in c.inputs \cup c.parents
    <3>1. (i = l /\ x \in c.inputs) \/ (i = l + 1 /\ x \in c.parents)
      BY <1>2, <2>3, <2>4 DEF Moved
    <3> QED
      BY <3>1
  <2>6. e \in Entries(c.inputs \cup c.parents)
    BY <2>3, <2>5 DEF Entries
  <2>7. /\ Kept(c) \in SUBSET Entry /\ Entries(c.inputs \cup c.parents) \subseteq hist
    BY <1>1, KeptIs
  <2>8. e \notin Kept(c)
    <3>1. Entries(Output(Kept(c), ends)) = Kept(c)
      BY <2>7, OutputAll
    <3>2. Output(Kept(c), ends) \subseteq W[l + 1]
      BY <1>2 DEF Moved
    <3>3. Entries(Output(Kept(c), ends)) \subseteq Tables(W)
      BY <1>2, <3>2 DEF Tables, All, Entries
    <3> QED
      BY <2>1, <3>1, <3>3
  <2>9. Dropped(c, e)
    BY <2>6, <2>8 DEF Kept
  <2>10. ~ \E d \in Entries(c.inputs \cup c.parents) : d.key = e.key /\ d.seq > e.seq /\ d.seq <= c.smallest
    BY <1>5, <1>6, <2>7
  <2>11. e.del /\ isBaseLevelForKey(c, e.key)
    BY <2>9, <2>10 DEF Dropped
  <2>12. ASSUME NEW d \in T, d.key = e.key PROVE FALSE
    <3>1. d \in hist /\ d.seq <= e.seq /\ d.seq \in Nat /\ e.seq \in Nat
      BY <1>4, <1>6, <1>7, <2>12
    <3>2. d \notin mem /\ d \notin imm
      <4>1. ~(d.seq > e.seq)
        BY <3>1
      <4> QED
        BY <1>1, <2>1, <2>12, <4>1 DEF MemOK, Newer
    <3>3. d \in Tables(W)
      BY <1>3, <3>2
    <3>4. PICK k \in Level : \E f \in W[k] : d \in f.entries
      BY <3>3 DEF Tables, All, Entries
    <3>5. PICK f \in W[k] : d \in f.entries
      BY <3>4
    <3> QED
      BY <1>7, <2>6, <2>8, <2>11, <2>12, <3>1, <3>5, NothingLeft
  <2> QED
    BY <2>11, <2>12
<1> QED
  BY <1>8, <1>9

\* The version as a function, after files were moved.
LEMMA MovedType ==
    ASSUME levels \in [Level -> SUBSET File], NEW l \in 0 .. (Top - 1), NEW I, NEW P, NEW O \in SUBSET File,
           NEW W, W = [levels EXCEPT ![l] = @ \ I, ![l + 1] = (@ \ P) \cup O]
    PROVE  W \in [Level -> SUBSET File] /\ Moved(levels, W, l, I, P, O)
<1>1. Top \in Nat /\ l \in Nat /\ l \in Level /\ l + 1 \in Level /\ l # l + 1
  BY ConstantsAssumption DEF Level
<1>2. levels[l] \ I \in SUBSET File /\ (levels[l + 1] \ P) \cup O \in SUBSET File
  BY <1>1
<1>3. W \in [Level -> SUBSET File]
  BY <1>1, <1>2
<1>4. W[l] = levels[l] \ I /\ W[l + 1] = (levels[l + 1] \ P) \cup O
  BY <1>1
<1>5. \A k \in Level : k # l /\ k # l + 1 => W[k] = levels[k]
  BY <1>1
<1> QED
  BY <1>3, <1>4, <1>5 DEF Moved

\* The rest of the invariant follows from where the entries went.
LEMMA MovedTree ==
    ASSUME TreeInv, NEW l \in 0 .. (Top - 1), NEW I, NEW P, NEW O,
           levels' \in [Level -> SUBSET File], Moved(levels, levels', l, I, P, O), Replaces(levels, l, I, P, O),
           UNCHANGED <<mem, imm, hasimm, lastsequence, hist>>, nextfile' \in Nat, nextfile <= nextfile'
    PROVE  HistOK' /\ MemOK' /\ LevelsOK' /\ Tables(levels') \subseteq Tables(levels)
<1>1. HistOK /\ MemOK /\ LevelsOK /\ VersionOK(levels, hist)
  BY DEF TreeInv, LevelsOK
<1>2. VersionOK(levels', hist) /\ Tables(levels') \subseteq Tables(levels)
  BY <1>1, MovedOK
<1>3. HistOK'
  BY <1>1 DEF HistOK
<1>4. MemOK'
  BY <1>1, <1>2 DEF MemOK, Newer
<1>5. Top \in Nat /\ l \in Nat /\ 0 \in Level /\ 0 # l + 1
  BY ConstantsAssumption DEF Level
<1>6. levels'[0] \subseteq levels[0]
  BY <1>5 DEF Moved
<1>7. ASSUME NEW f \in levels'[0] PROVE f.number < nextfile'
  <2>1. f.number \in Nat /\ f.number < nextfile /\ nextfile \in Nat
    BY <1>1, <1>5, <1>6 DEF LevelsOK, VersionOK, Shaped, FileOK
  <2> QED
    BY <2>1
<1>8. LevelsOK'
  BY <1>2, <1>7 DEF LevelsOK
<1> QED
  BY <1>2, <1>3, <1>4, <1>8

LEMMA InstallStep ==
    ASSUME TreeInv, InstallCompactionResults
    PROVE  TreeInv'
<1>1. PICK c : c = compaction /\ Working(levels, c)
  BY DEF TreeInv, CompactionOK, InstallCompactionResults
<1>2. PICK ends \in Cuts(Kept(c)) :
         /\ levels' = [levels EXCEPT ![c.level] = @ \ c.inputs,
                                    ![c.level + 1] = (@ \ c.parents) \cup Output(Kept(c), ends)]
         /\ nextfile' = nextfile + Cardinality(ends)
  BY <1>1, Zenon DEF InstallCompactionResults
<1>3. PICK O : O = Output(Kept(c), ends)
  OBVIOUS
<1>4. HistOK /\ VersionOK(levels, hist) /\ nextfile \in Nat /\ levels \in [Level -> SUBSET File]
  BY DEF TreeInv, LevelsOK
<1>5. Replaces(levels, c.level, c.inputs, c.parents, O) /\ Cardinality(ends) \in Nat
  BY <1>1, <1>3, <1>4, InstallReplaces
<1>6. c.level \in 0 .. (Top - 1) /\ O \in SUBSET File
  BY <1>1, <1>5 DEF Working, Replaces, FileOK, File
<1>7. levels' \in [Level -> SUBSET File] /\ Moved(levels, levels', c.level, c.inputs, c.parents, O)
  <2>1. levels' = [levels EXCEPT ![c.level] = @ \ c.inputs, ![c.level + 1] = (@ \ c.parents) \cup O]
    BY <1>2, <1>3, Zenon
  <2> QED
    BY <1>4, <1>6, <2>1, MovedType
<1>8. UNCHANGED <<mem, imm, hasimm, lastsequence, hist>> /\ compaction' = NoCompaction
  BY DEF InstallCompactionResults
<1>9. nextfile' \in Nat /\ nextfile <= nextfile'
  BY <1>2, <1>4, <1>5
<1>10. HistOK' /\ MemOK' /\ LevelsOK' /\ Tables(levels') \subseteq Tables(levels)
  BY <1>5, <1>6, <1>7, <1>8, <1>9, MovedTree
<1>11. VisibleAt(hist, mem \cup imm \cup Tables(levels'), lastsequence)
  BY <1>1, <1>2, <1>3, <1>7, <1>10, InstallVisible
<1>12. VisibleAt(hist, Stored, lastsequence)'
  BY <1>8, <1>11 DEF Stored
<1> QED
  BY <1>8, <1>10, <1>12 DEF TreeInv, CompactionOK

-----------------------------------------------------------------------------
(* The beginning of a compaction.                                          *)

LEMMA ApartNewer ==
    ASSUME NEW f, NEW g, FileOK(f), FileOK(g), Apart(f, g)
    PROVE  Newer(g.entries, f.entries)
  BY ApartKeys DEF Newer

LEMMA BeginWorking ==
    ASSUME TreeInv, NEW l \in 0 .. (Top - 1), NEW I, NEW P, InputsOK(l, I, P)
    PROVE  Working(levels, [level |-> l, inputs |-> I, parents |-> P, below |-> Below(l), smallest |-> lastsequence])
<1>1. PICK c : c = [level |-> l, inputs |-> I, parents |-> P, below |-> Below(l), smallest |-> lastsequence]
  OBVIOUS
<1>2. c.level = l /\ c.inputs = I /\ c.parents = P /\ c.below = Below(l) /\ c.smallest = lastsequence
  BY <1>1
<1>3. Top \in Nat /\ l \in Nat /\ l \in Level /\ l + 1 \in Level
  BY ConstantsAssumption DEF Level
<1>4. /\ lastsequence \in Nat /\ (\A e \in hist : e.seq <= lastsequence) /\ Shaped(levels)
      /\ Tables(levels) \subseteq hist
  BY DEF TreeInv, HistOK, LevelsOK, VersionOK
<1>5. I \in SUBSET levels[l] /\ I # {} /\ P \in SUBSET levels[l + 1] /\ NoGap(I \cup P)
  BY DEF InputsOK
<1>6. Entries(I \cup P) \subseteq Tables(levels)
  BY <1>3, <1>5 DEF Tables, All, Entries
<1>7. \A f \in I : \A g \in levels[l] \ I : Newer(g.entries, f.entries)
  <2>1. \A f \in levels[l] : FileOK(f)
    BY <1>3, <1>4 DEF Shaped
  <2>2. \A f \in I : \A g \in levels[l] \ I : Apart(f, g)
    BY DEF InputsOK
  <2> QED
    BY <1>5, <2>1, <2>2, ApartNewer
<1>8. \A f \in I \cup P : \A g \in levels[l + 1] \ P : Apart(f, g)
  BY DEF InputsOK
<1>9. \A k \in (l + 2) .. Top : \A g \in levels[k] : g \in Below(l)
  BY DEF Below
<1>10. \A e \in Entries(I \cup P) : e.seq <= lastsequence
  BY <1>4, <1>6
<1>11. Working(levels, c)
  BY <1>2, <1>4, <1>5, <1>7, <1>8, <1>9, <1>10 DEF Working
<1> QED
  BY <1>1, <1>11

LEMMA MoveReplaces ==
    ASSUME TreeInv, NEW l \in 0 .. (Top - 1), NEW I, InputsOK(l, I, {}), Cardinality(I) = 1
    PROVE  Replaces(levels, l, I, {}, I)
<1>1. Top \in Nat /\ l \in Nat /\ l \in Level /\ l + 1 \in Level
  BY ConstantsAssumption DEF Level
<1>2. I \in SUBSET levels[l] /\ I # {}
  BY DEF InputsOK
<1>3. IsFiniteSet(levels[l]) /\ \A f \in levels[l] : FileOK(f)
  BY <1>1 DEF TreeInv, LevelsOK, VersionOK, Shaped
<1>4. IsFiniteSet(I)
  BY <1>2, <1>3, FS_Subset
<1>5. PICK f : I = {f}
  BY <1>4, FS_Singleton
<1>6. \A x \in I : \A g \in levels[l] \ I : Newer(g.entries, x.entries)
  <2>1. \A x \in I : \A g \in levels[l] \ I : Apart(x, g)
    BY DEF InputsOK
  <2> QED
    BY <1>2, <1>3, <2>1, ApartNewer
<1>7. \A x \in I : \A g \in levels[l + 1] \ {} : Apart(x, g)
  BY DEF InputsOK
<1>8. {} \in SUBSET levels[l + 1] /\ Entries(I) \subseteq Entries(I \cup {}) /\ \A x, y \in I : x = y
  BY <1>5
<1> QED
  BY <1>2, <1>3, <1>4, <1>6, <1>7, <1>8 DEF Replaces

LEMMA StartStep ==
    ASSUME TreeInv, NEW l \in 0 .. (Top - 1), NEW F, Ready(l, F), NEW manual \in BOOLEAN,
           compaction = NoCompaction, StartCompaction(l, F, manual),
           UNCHANGED <<mem, imm, hasimm, lastsequence, nextfile, hist>>
    PROVE  TreeInv' /\ All(levels') = All(levels)
<1>1. /\ HistOK /\ MemOK /\ LevelsOK /\ VersionOK(levels, hist) /\ VisibleAt(hist, Stored, lastsequence)
      /\ Shaped(levels) /\ (\A k \in Level : IsFiniteSet(levels[k])) /\ nextfile \in Nat
      /\ levels \in [Level -> SUBSET File]
  BY DEF TreeInv, LevelsOK, VersionOK
<1>2. PICK I, P : I = SetupOtherInputs(l, F).in0 /\ P = SetupOtherInputs(l, F).in1
  OBVIOUS
<1>3. InputsOK(l, I, P)
  BY <1>1, <1>2, Setup
<1>4. Top \in Nat /\ l \in Nat /\ l \in Level /\ l + 1 \in Level /\ l # l + 1
  BY ConstantsAssumption DEF Level
<1>5. CASE ~manual /\ isTrivialMove(l, I, P)
  <2>1. P = {} /\ Cardinality(I) = 1
    BY <1>5 DEF isTrivialMove
  <2>2. compaction' = compaction /\ levels' = [levels EXCEPT ![l] = @ \ I, ![l + 1] = @ \cup I]
    BY <1>2, <1>5 DEF StartCompaction
  <2>3. I \in SUBSET levels[l] /\ I \in SUBSET File
    <3>1. I \in SUBSET levels[l]
      BY <1>3 DEF InputsOK
    <3>2. levels[l] \in SUBSET File
      BY <1>1, <1>4
    <3> QED
      BY <3>1, <3>2
  <2>4. levels' = [levels EXCEPT ![l] = @ \ I, ![l + 1] = (@ \ {}) \cup I]
    <3>1. levels[l + 1] \ {} = levels[l + 1]
      OBVIOUS
    <3> QED
      BY <1>1, <1>4, <2>2
  <2>5. levels' \in [Level -> SUBSET File] /\ Moved(levels, levels', l, I, {}, I)
    BY <1>1, <2>3, <2>4, MovedType
  <2>6. Replaces(levels, l, I, {}, I)
    BY <1>3, <2>1, MoveReplaces
  <2>7. HistOK' /\ MemOK' /\ LevelsOK'
    <3>1. nextfile' \in Nat /\ nextfile <= nextfile'
      BY <1>1
    <3> QED
      BY <2>5, <2>6, <3>1, MovedTree
  <2>8. All(levels') = All(levels)
    <3>1. levels'[l] = levels[l] \ I /\ levels'[l + 1] = levels[l + 1] \cup I
      BY <2>5 DEF Moved
    <3>2. \A k \in Level : k # l /\ k # l + 1 => levels'[k] = levels[k]
      BY <2>5 DEF Moved
    <3>3. ASSUME NEW f \in All(levels') PROVE f \in All(levels)
      BY <1>4, <2>3, <3>1, <3>2 DEF All
    <3>4. ASSUME NEW f \in All(levels) PROVE f \in All(levels')
      <4>1. PICK k \in Level : f \in levels[k]
        BY DEF All
      <4>2. f \in levels'[k] \/ f \in levels'[l + 1]
        BY <1>4, <3>1, <3>2, <4>1
      <4> QED
        BY <1>4, <4>2 DEF All
    <3> QED
      BY <3>3, <3>4
  <2>9. VisibleAt(hist, Stored, lastsequence)'
    BY <1>1, <2>8 DEF Stored, Tables
  <2> QED
    BY <2>2, <2>7, <2>8, <2>9 DEF TreeInv, CompactionOK
<1>6. CASE ~(~manual /\ isTrivialMove(l, I, P))
  <2>1. /\ compaction' = [level |-> l, inputs |-> I, parents |-> P, below |-> Below(l), smallest |-> lastsequence]
        /\ levels' = levels
    BY <1>2, <1>6 DEF StartCompaction
  <2>2. Working(levels, compaction')
    BY <1>3, <2>1, BeginWorking
  <2>3. CompactionOK'
    BY <2>1, <2>2 DEF CompactionOK
  <2>4. HistOK' /\ MemOK' /\ LevelsOK' /\ VisibleAt(hist, Stored, lastsequence)'
    BY <1>1, <2>1 DEF HistOK, MemOK, LevelsOK, Stored
  <2> QED
    BY <2>1, <2>3, <2>4 DEF TreeInv
<1> QED
  BY <1>5, <1>6

-----------------------------------------------------------------------------
(* A flush.                                                                *)

LEMMA PickedLevel ==
    ASSUME NEW lo, NEW hi
    PROVE  /\ PickLevelForMemTableOutput(lo, hi) \in 0 .. MaxMemLevel
           /\ PickLevelForMemTableOutput(lo, hi) # 0 =>
                \A k \in 0 .. PickLevelForMemTableOutput(lo, hi) : Overlapping(levels[k], lo, hi) = {}
<1>1. MaxMemLevel \in Nat
  BY ConstantsAssumption
<1>2. CASE Overlapping(levels[0], lo, hi) # {}
  <2>1. PickLevelForMemTableOutput(lo, hi) = 0
    BY <1>2 DEF PickLevelForMemTableOutput
  <2> QED
    BY <1>1, <2>1
<1>3. CASE Overlapping(levels[0], lo, hi) = {}
  <2>1. PICK S : S = {l \in 0 .. MaxMemLevel : \A k \in 1 .. l : FreeLevel(k, lo, hi)}
    OBVIOUS
  <2>2. PickLevelForMemTableOutput(lo, hi) = Max(S)
    BY <1>3, <2>1, Zenon DEF PickLevelForMemTableOutput
  <2>3. S \in SUBSET Nat /\ 0 \in S /\ \A l \in S : l <= MaxMemLevel
    BY <1>1, <2>1
  <2>4. PICK n \in S : \A m \in S : m <= n
    BY <1>1, <2>3, GreatestOf
  <2>5. Max(S) \in S
    BY <2>3, <2>4, MaxIs
  <2>6. PICK L \in 0 .. MaxMemLevel : L = Max(S) /\ \A k \in 1 .. L : FreeLevel(k, lo, hi)
    BY <2>1, <2>5
  <2>7. ASSUME NEW k \in 0 .. L PROVE Overlapping(levels[k], lo, hi) = {}
    <3>1. k = 0 \/ k \in 1 .. L
      BY <1>1, <2>6
    <3> QED
      BY <1>3, <2>6, <3>1 DEF FreeLevel
  <2> QED
    BY <2>2, <2>6, <2>7
<1> QED
  BY <1>2, <1>3

\* A file that is newer than all others, and apart from those on the way to
\* its level, added to a version.
Added(V, W, L, n) == DOMAIN W = Level /\ W[L] = V[L] \cup {n} /\ \A k \in Level : k # L => W[k] = V[k]
Fits(V, L, n) ==
    /\ FileOK(n) /\ Newer(n.entries, Tables(V))
    /\ \A f \in V[0] : f.number < n.number
    /\ L # 0 => \A k \in 0 .. L : \A f \in V[k] : Apart(f, n)

LEMMA AddedOK ==
    ASSUME NEW V, NEW H, VersionOK(V, H), NEW W, NEW L \in Level, NEW n, Added(V, W, L, n), Fits(V, L, n), n.entries \subseteq H
    PROVE  VersionOK(W, H) /\ Tables(W) = Tables(V) \cup n.entries
<1>1. Top \in Nat /\ L \in Nat /\ 0 \in Level
  BY ConstantsAssumption DEF Level
<1>2. Shaped(V) /\ Ordered(V) /\ Tables(V) \subseteq H /\ \A k \in Level : IsFiniteSet(V[k])
  BY DEF VersionOK
<1>3. \A k \in Level : \A f \in W[k] : f \in V[k] \/ (f = n /\ k = L)
  BY DEF Added
<1>4. \A k \in Level : V[k] \subseteq W[k]
  BY DEF Added
<1>5. \A k \in Level : \A f \in V[k] : FileOK(f) /\ f.entries \subseteq Tables(V)
  BY <1>2 DEF Shaped, Tables, All, Entries
<1>6. FileOK(n) /\ Newer(n.entries, Tables(V))
  BY DEF Fits
<1>7. L # 0 => \A k \in 0 .. L : \A f \in V[k] : Apart(f, n) /\ Apart(n, f)
  BY ApartSym DEF Fits
<1>8. Shaped(W)
  <2>1. ASSUME NEW k \in 1 .. Top, NEW f \in W[k], NEW g \in W[k] PROVE f = g \/ Apart(f, g)
    <3>1. k \in Level /\ (k = L => k \in 0 .. L /\ L # 0)
      BY <1>1 DEF Level
    <3>2. \A x, y \in V[k] : x = y \/ Apart(x, y)
      BY <1>2 DEF Shaped
    <3> QED
      BY <1>3, <1>7, <3>1, <3>2
  <2>2. \A k \in Level : \A f \in W[k] : FileOK(f)
    BY <1>3, <1>5, <1>6
  <2> QED
    BY <2>1, <2>2 DEF Shaped, Added
<1>9. \A f \in W[0], g \in W[0] : (f.number > g.number => Newer(f.entries, g.entries)) /\ (f.number = g.number => f = g)
  <2>1. SUFFICES ASSUME NEW f \in W[0], NEW g \in W[0]
                 PROVE  (f.number > g.number => Newer(f.entries, g.entries)) /\ (f.number = g.number => f = g)
    OBVIOUS
  <2>2. (f \in V[0] \/ f = n) /\ (g \in V[0] \/ g = n)
    BY <1>1, <1>3
  <2>3. \A x \in V[0] : x.number < n.number /\ x.number \in Nat /\ n.number \in Nat
    BY <1>1, <1>5 DEF Fits, FileOK
  <2>4. CASE f \in V[0] /\ g \in V[0]
    BY <1>2, <2>4 DEF Ordered
  <2>5. CASE f = n /\ g \in V[0]
    <3>1. Newer(f.entries, g.entries)
      BY <1>1, <1>5, <1>6, <2>5 DEF Newer
    <3>2. f.number # g.number
      BY <2>3, <2>5
    <3> QED
      BY <3>1, <3>2
  <2>6. CASE f \in V[0] /\ g = n
    <3>1. ~(f.number > g.number) /\ f.number # g.number
      BY <2>3, <2>6
    <3> QED
      BY <3>1
  <2>7. CASE f = n /\ g = n
    <3>1. n.number \in Nat
      BY <1>6 DEF FileOK
    <3>2. ~(f.number > g.number)
      BY <2>7, <3>1
    <3> QED
      BY <2>7, <3>2
  <2> QED
    BY <2>2, <2>4, <2>5, <2>6, <2>7
<1>10. ASSUME NEW i \in Level, NEW j \in Level, i < j, NEW f \in W[i], NEW g \in W[j] PROVE Newer(f.entries, g.entries)
  <2>1. i \in Nat /\ j \in Nat
    BY <1>1 DEF Level
  <2>2. (f \in V[i] \/ (f = n /\ i = L)) /\ (g \in V[j] \/ (g = n /\ j = L))
    BY <1>3
  <2>3. CASE f \in V[i] /\ g \in V[j]
    BY <1>2, <1>10, <2>3 DEF Ordered
  <2>4. CASE f = n /\ g \in V[j]
    BY <1>5, <1>6, <2>4 DEF Newer
  <2>5. CASE f \in V[i] /\ g = n /\ j = L
    <3>1. L # 0 /\ i \in 0 .. L
      BY <1>1, <1>10, <2>1, <2>5
    <3>2. Apart(n, f) /\ FileOK(f)
      BY <1>5, <1>7, <2>5, <3>1
    <3> QED
      BY <1>6, <2>5, <3>2, ApartNewer
  <2>6. CASE f = n /\ i = L /\ g = n /\ j = L
    BY <1>10, <2>1, <2>6
  <2> QED
    BY <2>2, <2>3, <2>4, <2>5, <2>6
<1>11. Tables(W) = Tables(V) \cup n.entries
  <2>1. ASSUME NEW e \in Tables(W) PROVE e \in Tables(V) \cup n.entries
    BY <1>3 DEF Tables, All, Entries
  <2>2. Tables(V) \subseteq Tables(W)
    BY <1>4 DEF Tables, All, Entries
  <2>3. n \in All(W)
    BY DEF Added, All
  <2>4. n.entries \subseteq Tables(W)
    BY <2>3 DEF Tables, Entries
  <2> QED
    BY <2>1, <2>2, <2>4
<1>12. ASSUME NEW k \in Level PROVE IsFiniteSet(W[k])
  <2>1. W[k] = V[k] \/ W[k] = V[k] \cup {n}
    BY DEF Added
  <2>2. IsFiniteSet(V[k] \cup {n})
    BY <1>2, FS_AddElement
  <2> QED
    BY <1>2, <2>1, <2>2
<1>13. Ordered(W)
  BY <1>9, <1>10 DEF Ordered
<1> QED
  BY <1>2, <1>8, <1>11, <1>12, <1>13 DEF VersionOK

LEMMA AddedWorking ==
    ASSUME NEW V, NEW H, VersionOK(V, H), NEW W, NEW L \in Level, NEW n, Added(V, W, L, n), Fits(V, L, n), NEW c, Working(V, c)
    PROVE  Working(W, c)
<1>1. PICK l \in Nat : l = c.level /\ l \in Level /\ l + 1 \in Level /\ l # l + 1
  BY ConstantsAssumption DEF Level, Working
<1>2. Top \in Nat /\ L \in Nat
  BY ConstantsAssumption DEF Level
<1>3. \A k \in Level : \A f \in W[k] : f \in V[k] \/ (f = n /\ k = L)
  BY DEF Added
<1>4. \A k \in Level : V[k] \subseteq W[k]
  BY DEF Added
<1>5. c.inputs \in SUBSET V[l] /\ c.inputs # {} /\ c.parents \in SUBSET V[l + 1]
  BY <1>1 DEF Working
<1>6. c.inputs \in SUBSET W[l] /\ c.parents \in SUBSET W[l + 1]
  BY <1>1, <1>4, <1>5
<1>7. ASSUME NEW f \in c.inputs, NEW g \in W[l] \ c.inputs PROVE Newer(g.entries, f.entries)
  <2>1. CASE g \in V[l]
    BY <1>1, <2>1 DEF Working
  <2>2. CASE g = n
    <3>1. f.entries \subseteq Tables(V)
      BY <1>1, <1>5 DEF Tables, All, Entries
    <3> QED
      BY <2>2, <3>1 DEF Fits, Newer
  <2> QED
    BY <1>1, <1>3, <2>1, <2>2
<1>8. ASSUME L # 0, L > l, NEW f \in c.inputs \cup c.parents PROVE Apart(f, n)
  <2>1. l \in 0 .. L /\ l + 1 \in 0 .. L
    BY <1>1, <1>2, <1>8
  <2> QED
    BY <1>5, <1>8, <2>1 DEF Fits
<1>9. ASSUME NEW f \in c.inputs \cup c.parents, NEW g \in W[l + 1] \ c.parents PROVE Apart(f, g)
  <2>1. CASE g \in V[l + 1]
    BY <1>1, <2>1 DEF Working
  <2>2. CASE g = n /\ L = l + 1
    <3>1. L # 0 /\ L > l
      BY <1>1, <2>2
    <3> QED
      BY <1>8, <2>2, <3>1
  <2> QED
    BY <1>1, <1>3, <2>1, <2>2
<1>10. ASSUME NEW k \in (l + 2) .. Top, NEW g \in W[k] PROVE g \in c.below \/ \A f \in c.inputs \cup c.parents : Apart(f, g)
  <2>1. k \in Level /\ k # 0 /\ k > l
    BY <1>1, <1>2 DEF Level
  <2>2. CASE g \in V[k]
    BY <1>1, <2>2 DEF Working
  <2>3. CASE g = n /\ L = k
    BY <1>8, <2>1, <2>3
  <2> QED
    BY <1>3, <2>1, <2>2, <2>3
<1> QED
  BY <1>1, <1>6, <1>7, <1>9, <1>10 DEF Working

LEMMA FlushStep ==
    ASSUME TreeInv, CompactMemTable
    PROVE  TreeInv'
<1>1. /\ HistOK /\ MemOK /\ LevelsOK /\ VersionOK(levels, hist) /\ VisibleAt(hist, Stored, lastsequence)
      /\ CompactionOK /\ nextfile \in Nat /\ levels \in [Level -> SUBSET File]
  BY DEF TreeInv, LevelsOK
<1>2. /\ WriteLevel0Table /\ imm' = {} /\ hasimm' = FALSE
      /\ UNCHANGED <<mem, lastsequence, compaction, hist>>
  BY DEF CompactMemTable
<1>3. HistOK'
  BY <1>1, <1>2 DEF HistOK
<1>4. CASE imm = {}
  <2>1. UNCHANGED <<levels, nextfile>>
    BY <1>2, <1>4 DEF WriteLevel0Table
  <2>2. MemOK'
    BY <1>1, <1>2, <2>1 DEF MemOK, Newer
  <2>3. LevelsOK' /\ CompactionOK'
    BY <1>1, <1>2, <2>1 DEF LevelsOK, CompactionOK
  <2>4. Stored' = Stored
    BY <1>2, <1>4, <2>1 DEF Stored
  <2>5. VisibleAt(hist, Stored, lastsequence)'
    BY <1>1, <1>2, <2>4
  <2> QED
    BY <1>3, <2>2, <2>3, <2>5 DEF TreeInv
<1>5. CASE imm # {}
  <2>1. PICK L : L = PickLevelForMemTableOutput(First(imm).key, Last(imm).key)
    OBVIOUS
  <2>2. PICK n : n = [number |-> nextfile, entries |-> imm]
    OBVIOUS
  <2>3. levels' = [levels EXCEPT ![L] = @ \cup {n}] /\ nextfile' = nextfile + 1
    BY <1>2, <1>5, <2>1, <2>2 DEF WriteLevel0Table
  <2>4. /\ L \in 0 .. MaxMemLevel
        /\ L # 0 => \A k \in 0 .. L : Overlapping(levels[k], First(imm).key, Last(imm).key) = {}
    BY <2>1, PickedLevel
  <2>5. Top \in Nat /\ L \in Level /\ L \in Nat /\ 0 \in Level
    BY <2>4, ConstantsAssumption DEF Level
  <2>6. imm \in SUBSET Entry /\ imm \subseteq hist
    BY <1>1 DEF HistOK, MemOK
  <2>7. n.number = nextfile /\ n.entries = imm
    BY <2>2
  <2>8. FileOK(n) /\ n \in File
    BY <1>1, <1>5, <2>2, <2>6 DEF FileOK, File
  <2>9. Low(n) = First(imm).key /\ High(n) = Last(imm).key
    BY <2>7 DEF Low, High, Smallest, Largest
  <2>10. ASSUME L # 0, NEW k \in 0 .. L, NEW f \in levels[k] PROVE Apart(f, n)
    <3>1. k \in Level
      BY <2>5 DEF Level
    <3>2. FileOK(f)
      BY <1>1, <3>1 DEF VersionOK, Shaped
    <3>3. Low(f) \in Nat /\ High(f) \in Nat /\ Low(n) \in Nat /\ High(n) \in Nat
      BY <2>8, <3>2, FileEnds
    <3>4. f \notin Overlapping(levels[k], Low(n), High(n))
      BY <2>4, <2>9, <2>10
    <3>5. ~(High(f) >= Low(n) /\ Low(f) <= High(n))
      <4>1. ~Overlaps(f, Low(n), High(n))
        BY <3>4 DEF Overlapping
      <4> QED
        BY <4>1 DEF Overlaps, High, Low
    <3> QED
      BY <3>3, <3>5 DEF Apart
  <2>11. Fits(levels, L, n)
    <3>1. Newer(n.entries, Tables(levels))
      BY <1>1, <2>7 DEF MemOK
    <3>2. \A f \in levels[0] : f.number < n.number
      BY <1>1, <2>7 DEF LevelsOK
    <3> QED
      BY <2>8, <2>10, <3>1, <3>2 DEF Fits
  <2>12. levels' \in [Level -> SUBSET File] /\ Added(levels, levels', L, n)
    <3>1. levels[L] \cup {n} \in SUBSET File
      BY <1>1, <2>5, <2>8
    <3>2. levels' \in [Level -> SUBSET File]
      BY <1>1, <2>3, <2>5, <3>1
    <3>3. levels'[L] = levels[L] \cup {n} /\ \A k \in Level : k # L => levels'[k] = levels[k]
      BY <1>1, <2>3, <2>5
    <3> QED
      BY <3>2, <3>3 DEF Added
  <2>13. VersionOK(levels', hist) /\ Tables(levels') = Tables(levels) \cup imm
    BY <1>1, <2>5, <2>6, <2>7, <2>11, <2>12, AddedOK
  <2>14. ASSUME NEW f \in levels'[0] PROVE f.number < nextfile'
    <3>1. f \in levels[0] \/ f = n
      BY <2>5, <2>12 DEF Added
    <3>2. CASE f \in levels[0]
      <4>1. f.number \in Nat /\ f.number < nextfile
        BY <1>1, <2>5, <3>2 DEF LevelsOK, VersionOK, Shaped, FileOK
      <4> QED
        BY <1>1, <2>3, <4>1
    <3>3. CASE f = n
      BY <1>1, <2>3, <2>7, <3>3
    <3> QED
      BY <3>1, <3>2, <3>3
  <2>15. LevelsOK'
    <3>1. nextfile' \in Nat
      BY <1>1, <2>3
    <3> QED
      BY <1>2, <2>12, <2>13, <2>14, <3>1 DEF LevelsOK
  <2>16. MemOK'
    BY <1>1, <1>2, <2>13 DEF MemOK, Newer
  <2>17. Stored' = Stored
    BY <1>2, <2>13 DEF Stored
  <2>18. VisibleAt(hist, Stored, lastsequence)'
    BY <1>1, <1>2, <2>17
  <2>19. CompactionOK'
    <3>1. ASSUME compaction # NoCompaction PROVE Working(levels', compaction)
      <4>1. Working(levels, compaction)
        BY <1>1, <3>1 DEF CompactionOK
      <4> QED
        BY <1>1, <2>5, <2>11, <2>12, <4>1, AddedWorking
    <3> QED
      BY <1>2, <3>1 DEF CompactionOK
  <2> QED
    BY <1>3, <2>15, <2>16, <2>18, <2>19 DEF TreeInv
<1> QED
  BY <1>4, <1>5

-----------------------------------------------------------------------------
(* Writes.                                                                 *)

LEMMA SwitchStep ==
    ASSUME TreeInv, SwitchMem
    PROVE  TreeInv' /\ Stored' = Stored
<1>1. /\ HistOK /\ MemOK /\ LevelsOK /\ VisibleAt(hist, Stored, lastsequence) /\ CompactionOK
  BY DEF TreeInv
<1>2. /\ imm = {} /\ imm' = mem /\ hasimm' = TRUE /\ mem' = {}
      /\ UNCHANGED <<levels, lastsequence, nextfile, compaction, hist>>
  BY <1>1 DEF SwitchMem, MemOK
<1>3. HistOK' /\ LevelsOK' /\ CompactionOK'
  BY <1>1, <1>2 DEF HistOK, LevelsOK, CompactionOK
<1>4. MemOK'
  BY <1>1, <1>2 DEF MemOK, Newer
<1>5. Stored' = Stored
  BY <1>2 DEF Stored
<1>6. VisibleAt(hist, Stored, lastsequence)'
  BY <1>1, <1>2, <1>5
<1> QED
  BY <1>3, <1>4, <1>5, <1>6 DEF TreeInv

\* A write changes nothing up to the sequence numbers before it.
LEMMA WriteOne ==
    ASSUME TreeInv, Write
    PROVE  \E e \in Entry :
              /\ e \notin hist /\ e.seq = lastsequence + 1 /\ lastsequence' = lastsequence + 1
              /\ mem' = mem \cup {e} /\ hist' = hist \cup {e} /\ Stored' = Stored \cup {e}
              /\ UNCHANGED <<imm, hasimm, levels, nextfile, compaction, get, ngets>>
<1>1. /\ lastsequence < MaxSequence /\ lastsequence' = lastsequence + 1
      /\ UNCHANGED <<imm, hasimm, levels, nextfile, compaction, get, ngets>>
  BY DEF Write, readVars
<1>2. PICK k \in Key, del \in Types : LET e == [key |-> k, seq |-> lastsequence + 1, del |-> del]
                                     IN  mem' = mem \cup {e} /\ hist' = hist \cup {e}
  BY DEF Write
<1>3. PICK e : e = [key |-> k, seq |-> lastsequence + 1, del |-> del]
  OBVIOUS
<1>4. mem' = mem \cup {e} /\ hist' = hist \cup {e}
  BY <1>2, <1>3
<1>5. lastsequence \in Nat /\ MaxSequence \in Nat /\ \A d \in hist : d.seq <= lastsequence
  BY ConstantsAssumption DEF TreeInv, HistOK
<1>6. lastsequence + 1 \in 1 .. MaxSequence
  BY <1>1, <1>5
<1>7. del \in BOOLEAN
  BY ConstantsAssumption
<1>8. e \in Entry /\ e.seq = lastsequence + 1
  BY <1>3, <1>6, <1>7 DEF Entry
<1>9. e \notin hist
  <2>1. ~(lastsequence + 1 <= lastsequence)
    BY <1>5
  <2> QED
    BY <1>5, <1>8, <2>1
<1>10. Stored' = Stored \cup {e}
  BY <1>1, <1>4 DEF Stored
<1> QED
  BY <1>1, <1>4, <1>8, <1>9, <1>10

LEMMA WriteVisible ==
    ASSUME NEW H, NEW S, NEW s \in Nat, VisibleAt(H, S, s), NEW e, e.seq \in Nat, e.seq > s
    PROVE  VisibleAt(H \cup {e}, S \cup {e}, s)
<1>1. SUFFICES ASSUME NEW d \in H \cup {e}, d.seq <= s
               PROVE  \/ d \in S \cup {e}
                      \/ \E x \in H \cup {e} : x.key = d.key /\ x.seq > d.seq /\ x.seq <= s
                      \/ d.del /\ \A x \in S \cup {e} : x.key = d.key => x.seq > s
  BY DEF VisibleAt
<1>2. d \in H
  BY <1>1
<1> QED
  BY <1>1, <1>2 DEF VisibleAt

LEMMA WriteStep ==
    ASSUME TreeInv, Write
    PROVE  TreeInv'
<1>1. /\ HistOK /\ MemOK /\ LevelsOK /\ VisibleAt(hist, Stored, lastsequence) /\ CompactionOK
  BY DEF TreeInv
<1>2. PICK e \in Entry :
              /\ e \notin hist /\ e.seq = lastsequence + 1 /\ lastsequence' = lastsequence + 1
              /\ mem' = mem \cup {e} /\ hist' = hist \cup {e} /\ Stored' = Stored \cup {e}
              /\ UNCHANGED <<imm, hasimm, levels, nextfile, compaction, get, ngets>>
  BY WriteOne
<1>3. lastsequence \in Nat /\ lastsequence' \in Nat /\ e.seq \in Nat /\ e.seq > lastsequence /\ e.seq <= MaxSequence
  BY <1>1, <1>2, EntryIs DEF HistOK
<1>4. \A d \in hist : d.seq \in Nat /\ d.seq <= lastsequence /\ d.seq <= lastsequence + 1 /\ e.seq > d.seq /\ d.seq # e.seq
  BY <1>1, <1>3, EntryIs DEF HistOK
<1>5. HistOK'
  <2>1. IsFiniteSet(hist \cup {e})
    BY <1>1, FS_AddElement DEF HistOK
  <2>2. Distinct(hist \cup {e})
    BY <1>1, <1>4 DEF HistOK, Distinct
  <2>3. \A d \in hist \cup {e} : d.seq <= lastsequence'
    BY <1>2, <1>3, <1>4
  <2>4. lastsequence' <= MaxSequence /\ hist' \in SUBSET Entry
    BY <1>1, <1>2, <1>3 DEF HistOK
  <2> QED
    BY <1>2, <1>3, <2>1, <2>2, <2>3, <2>4 DEF HistOK
<1>6. Tables(levels) \subseteq hist
  BY <1>1 DEF LevelsOK, VersionOK
<1>7. MemOK'
  <2>1. Newer(mem \cup {e}, imm) /\ Newer(mem \cup {e}, Tables(levels))
    BY <1>1, <1>4, <1>6 DEF MemOK, Newer
  <2> QED
    BY <1>1, <1>2, <2>1 DEF MemOK
<1>8. LevelsOK'
  BY <1>1, <1>2 DEF LevelsOK, VersionOK
<1>9. CompactionOK'
  BY <1>1, <1>2 DEF CompactionOK
<1>10. VisibleAt(hist', Stored', lastsequence')
  <2>1. SUFFICES ASSUME NEW d \in hist', d \notin Stored', d.seq <= lastsequence',
                        ~ \E x \in hist' : x.key = d.key /\ x.seq > d.seq /\ x.seq <= lastsequence'
                 PROVE  d.del /\ \A x \in Stored' : x.key = d.key => x.seq > lastsequence'
    BY DEF VisibleAt
  <2>2. d \in hist /\ d \notin Stored
    BY <1>2, <2>1
  <2>3. e.key # d.key
    BY <1>2, <1>3, <1>4, <2>1, <2>2
  <2>4. ~ \E x \in hist : x.key = d.key /\ x.seq > d.seq /\ x.seq <= lastsequence
    BY <1>2, <1>4, <2>1
  <2>5. d.del /\ \A x \in Stored : x.key = d.key => x.seq > lastsequence
    BY <1>1, <1>4, <2>2, <2>4 DEF VisibleAt
  <2>6. \A x \in Stored : x \in hist
    BY <1>1, <1>6 DEF Stored, MemOK
  <2>7. \A x \in Stored : x.key # d.key
    <3>1. \A x \in Stored : ~(x.seq > lastsequence)
      BY <1>3, <1>4, <2>6
    <3> QED
      BY <2>5, <3>1
  <2> QED
    BY <1>2, <2>3, <2>5, <2>7
<1> QED
  BY <1>5, <1>7, <1>8, <1>9, <1>10 DEF TreeInv

-----------------------------------------------------------------------------
(* Reads find the newest entry.                                            *)

IsNewest(e, S, k, s) ==
    /\ e \in S /\ e.key = k /\ e.seq <= s
    /\ \A d \in S : d.key = k /\ d.seq <= s => d.seq <= e.seq

LEMMA NewestFound ==
    ASSUME NEW S \in SUBSET Entry, Distinct(S), NEW k, NEW s, NEW e, IsNewest(e, S, k, s)
    PROVE  Newest(S, k, s) = e
<1>1. PICK T : T = {d \in S : d.key = k /\ d.seq <= s}
  OBVIOUS
<1>2. T \in SUBSET Entry /\ e \in T
  BY <1>1 DEF IsNewest
<1>3. First(T) \in T /\ ~Before(e, First(T))
  BY <1>2, FirstIs
<1>4. Newest(S, k, s) = First(T)
  BY <1>1, <1>2, Zenon DEF Newest
<1>5. e.key = k /\ First(T).key = k /\ First(T) \in S /\ e \in S /\ e.seq \in Nat /\ First(T).seq \in Nat /\ First(T).seq <= e.seq
  BY <1>1, <1>2, <1>3, EntryIs DEF IsNewest
<1>6. ~(e.seq > First(T).seq)
  BY <1>3, <1>5 DEF Before
<1>7. First(T).seq = e.seq
  BY <1>5, <1>6
<1> QED
  BY <1>4, <1>5, <1>7 DEF Distinct

LEMMA NewestNone ==
    ASSUME NEW S, NEW k, NEW s, Absent(S, k, s)
    PROVE  Newest(S, k, s) = None
<1>1. {d \in S : d.key = k /\ d.seq <= s} = {}
  BY DEF Absent
<1> QED
  BY <1>1, Zenon DEF Newest

LEMMA NewestCases ==
    ASSUME NEW S \in SUBSET Entry, Distinct(S), NEW k, NEW s
    PROVE  \/ Absent(S, k, s) /\ Newest(S, k, s) = None
           \/ IsNewest(Newest(S, k, s), S, k, s) /\ Newest(S, k, s) # None
<1>1. CASE Absent(S, k, s)
  BY <1>1, NewestNone
<1>2. CASE ~Absent(S, k, s)
  <2>1. PICK T : T = {d \in S : d.key = k /\ d.seq <= s}
    OBVIOUS
  <2>2. T \in SUBSET Entry /\ T # {}
    BY <1>2, <2>1 DEF Absent
  <2>3. Newest(S, k, s) = First(T)
    BY <2>1, <2>2, Zenon DEF Newest
  <2>4. First(T) \in T /\ \A d \in T : ~Before(d, First(T))
    BY <2>2, FirstIs
  <2>5. First(T) \in S /\ First(T).key = k /\ First(T).seq <= s
    BY <2>1, <2>4
  <2>6. ASSUME NEW d \in S, d.key = k, d.seq <= s PROVE d.seq <= First(T).seq
    <3>1. d \in T /\ ~Before(d, First(T)) /\ d.seq \in Nat /\ First(T).seq \in Nat
      BY <2>1, <2>2, <2>4, <2>6, EntryIs
    <3> QED
      BY <2>5, <2>6, <3>1 DEF Before
  <2>7. IsNewest(First(T), S, k, s)
    BY <2>5, <2>6 DEF IsNewest
  <2>8. First(T) # None
    BY <2>5, EntryIs
  <2> QED
    BY <2>3, <2>7, <2>8
<1> QED
  BY <1>1, <1>2

\* The seek in a memtable or a table.
LEMMA FindNewest ==
    ASSUME NEW S \in SUBSET Entry, Distinct(S), NEW k \in Nat, NEW s \in Nat
    PROVE  Find(S, k, s) = Newest(S, k, s)
<1>1. PICK from : from = {e \in S : ~Before(e, [key |-> k, seq |-> s])}
  OBVIOUS
<1>2. Find(S, k, s) = IF from # {} /\ First(from).key = k THEN First(from) ELSE None
  BY <1>1, Zenon DEF Find
<1>3. \A e \in S : e.key \in Nat /\ e.seq \in Nat
  BY EntryIs
<1>4. \A e \in S : e \in from <=> e.key >= k /\ (e.key = k => e.seq <= s)
  BY <1>1, <1>3 DEF Before
<1>5. from \in SUBSET Entry /\ from \subseteq S
  BY <1>1
<1>6. CASE from # {} /\ First(from).key = k
  <2>1. First(from) \in from /\ \A d \in from : ~Before(d, First(from))
    BY <1>5, <1>6, FirstIs
  <2>2. First(from) \in S /\ First(from).seq <= s /\ First(from).seq \in Nat
    BY <1>3, <1>4, <1>5, <1>6, <2>1
  <2>3. ASSUME NEW d \in S, d.key = k, d.seq <= s PROVE d.seq <= First(from).seq
    <3>1. d \in from /\ ~Before(d, First(from)) /\ d.seq \in Nat
      BY <1>3, <1>4, <2>1, <2>3
    <3> QED
      BY <1>6, <2>2, <2>3, <3>1 DEF Before
  <2>4. IsNewest(First(from), S, k, s)
    BY <1>6, <2>2, <2>3 DEF IsNewest
  <2> QED
    BY <1>2, <1>6, <2>4, NewestFound
<1>7. CASE ~(from # {} /\ First(from).key = k)
  <2>1. SUFFICES ASSUME NEW d \in S, d.key = k, d.seq <= s PROVE FALSE
    BY <1>2, <1>7, NewestNone DEF Absent
  <2>2. d \in from
    BY <1>3, <1>4, <2>1
  <2>3. First(from) \in from /\ ~Before(d, First(from))
    BY <1>5, <2>2, FirstIs
  <2>4. First(from).key \in Nat /\ First(from).key >= k
    BY <1>3, <1>4, <1>5, <2>3
  <2>5. ~(k < First(from).key)
    BY <2>1, <2>3 DEF Before
  <2> QED
    BY <1>7, <2>2, <2>4, <2>5
<1> QED
  BY <1>6, <1>7

\* What is stored shows what was written.
LEMMA Answer ==
    ASSUME NEW H \in SUBSET Entry, Distinct(H), NEW S \in SUBSET H, NEW k, NEW s \in Nat, VisibleAt(H, S, s)
    PROVE  Value(Newest(S, k, s)) = Value(Newest(H, k, s))
<1>1. S \in SUBSET Entry /\ Distinct(S)
  BY DEF Distinct
<1>2. CASE Absent(H, k, s)
  <2>1. Absent(S, k, s)
    BY <1>2 DEF Absent
  <2> QED
    BY <1>2, <2>1, NewestNone
<1>3. CASE ~Absent(H, k, s)
  <2>1. PICK n : n = Newest(H, k, s) /\ IsNewest(n, H, k, s)
    BY <1>3, NewestCases
  <2>2. n \in H /\ n.key = k /\ n.seq <= s /\ n.seq \in Nat
    BY <2>1, EntryIs DEF IsNewest
  <2>3. CASE n \in S
    <3>1. IsNewest(n, S, k, s)
      BY <2>1, <2>3 DEF IsNewest
    <3> QED
      BY <1>1, <2>1, <3>1, NewestFound
  <2>4. CASE n \notin S
    <3>1. ~ \E d \in H : d.key = n.key /\ d.seq > n.seq /\ d.seq <= s
      <4>1. SUFFICES ASSUME NEW d \in H, d.key = n.key, d.seq > n.seq, d.seq <= s PROVE FALSE
        OBVIOUS
      <4>2. d.seq <= n.seq /\ d.seq \in Nat
        BY <2>1, <2>2, <4>1, EntryIs DEF IsNewest
      <4> QED
        BY <2>2, <4>1, <4>2
    <3>2. n.del /\ \A d \in S : d.key = n.key => d.seq > s
      BY <2>2, <2>4, <3>1 DEF VisibleAt
    <3>3. Absent(S, k, s)
      <4>1. SUFFICES ASSUME NEW d \in S, d.key = k, d.seq <= s PROVE FALSE
        BY DEF Absent
      <4>2. d.seq > s /\ d.seq \in Nat
        BY <1>1, <2>2, <3>2, <4>1, EntryIs
      <4> QED
        BY <4>1, <4>2
    <3>4. Newest(S, k, s) = None
      BY <3>3, NewestNone
    <3>5. Value(None) = 0 /\ Value(n) = 0
      BY <3>2 DEF Value, None
    <3> QED
      BY <2>1, <3>4, <3>5
  <2> QED
    BY <2>3, <2>4
<1> QED
  BY <1>2, <1>3

\* Nearer places are looked at first.
LEMMA NewestUnion ==
    ASSUME NEW A, NEW B, A \cup B \in SUBSET Entry, Distinct(A \cup B), Newer(A, B), NEW k, NEW s
    PROVE  /\ Newest(A, k, s) # None => Newest(A \cup B, k, s) = Newest(A, k, s)
           /\ Newest(A, k, s) = None => Newest(A \cup B, k, s) = Newest(B, k, s) /\ Absent(A, k, s)
<1>1. A \in SUBSET Entry /\ B \in SUBSET Entry /\ Distinct(A) /\ Distinct(B)
  BY DEF Distinct
<1>2. ASSUME Newest(A, k, s) # None PROVE Newest(A \cup B, k, s) = Newest(A, k, s)
  <2>1. PICK n : n = Newest(A, k, s) /\ IsNewest(n, A, k, s)
    BY <1>1, <1>2, NewestCases
  <2>2. n \in A /\ n.key = k /\ n.seq <= s /\ n.seq \in Nat
    BY <1>1, <2>1, EntryIs DEF IsNewest
  <2>3. ASSUME NEW d \in A \cup B, d.key = k, d.seq <= s PROVE d.seq <= n.seq
    <3>1. CASE d \in A
      BY <2>1, <2>3, <3>1 DEF IsNewest
    <3>2. CASE d \in B
      <4>1. n.seq > d.seq /\ d.seq \in Nat
        BY <1>1, <2>2, <2>3, <3>2, EntryIs DEF Newer
      <4> QED
        BY <2>2, <4>1
    <3> QED
      BY <3>1, <3>2
  <2>4. IsNewest(n, A \cup B, k, s)
    BY <2>2, <2>3 DEF IsNewest
  <2> QED
    BY <2>1, <2>4, NewestFound
<1>3. ASSUME Newest(A, k, s) = None PROVE Newest(A \cup B, k, s) = Newest(B, k, s) /\ Absent(A, k, s)
  <2>1. Absent(A, k, s)
    BY <1>1, <1>3, NewestCases
  <2>2. CASE Absent(B, k, s)
    <3>1. Absent(A \cup B, k, s)
      BY <2>1, <2>2 DEF Absent
    <3> QED
      BY <2>1, <2>2, <3>1, NewestNone
  <2>3. CASE ~Absent(B, k, s)
    <3>1. PICK n : n = Newest(B, k, s) /\ IsNewest(n, B, k, s)
      BY <1>1, <2>3, NewestCases
    <3>2. IsNewest(n, A \cup B, k, s)
      BY <2>1, <3>1 DEF IsNewest, Absent
    <3>3. Newest(A \cup B, k, s) = n
      BY <3>2, NewestFound
    <3> QED
      BY <2>1, <3>1, <3>3
  <2> QED
    BY <2>2, <2>3
<1> QED
  BY <1>2, <1>3

\* The file of a level that may have the key is searched.
LEMMA SearchedIs ==
    ASSUME NEW V, Shaped(V), NEW l \in Level, NEW k \in Nat, NEW s \in Nat, NEW f \in V[l], ~Absent(f.entries, k, s)
    PROVE  f \in Searched(V, l, k, s)
<1>1. PICK e \in f.entries : e.key = k /\ e.seq <= s
  BY DEF Absent
<1>2. FileOK(f) /\ \A g \in V[l] : FileOK(g)
  BY DEF Shaped
<1>3. /\ f.entries \in SUBSET Entry /\ Low(f) \in Nat /\ High(f) \in Nat /\ Low(f) <= k /\ k <= High(f)
      /\ Smallest(f) \in f.entries /\ Largest(f) \in f.entries
  BY <1>1, <1>2, FileEnds
<1>4. CASE l = 0
  <2>1. High(f) >= k /\ Low(f) <= k
    BY <1>3
  <2>2. Overlaps(f, k, k)
    BY <2>1 DEF Overlaps, High, Low
  <2> QED
    BY <1>4, <2>2 DEF Searched, Overlapping
<1>5. CASE l # 0
  <2>1. l \in 1 .. Top
    BY <1>5, ConstantsAssumption DEF Level
  <2>2. \A g \in V[l] : f = g \/ Apart(f, g)
    BY <2>1 DEF Shaped
  <2>3. PICK behind : behind = {g \in V[l] : ~Before(Largest(g), [key |-> k, seq |-> s])}
    OBVIOUS
  <2>4. FindFile(V[l], k, s) = {g \in behind : /\ \A h \in behind : ~Before(Smallest(h), Smallest(g))
                                              /\ Smallest(g).key <= k}
    BY <2>3, Zenon DEF FindFile
  <2>5. f \in behind
    <3>1. ~Before(Largest(f), e)
      BY <1>2, <1>3, LastIs DEF FileOK, Largest
    <3>2. Largest(f).key \in Nat /\ Largest(f).seq \in Nat /\ e.key \in Nat /\ e.seq \in Nat
      BY <1>3, EntryIs
    <3>3. ~Before(Largest(f), [key |-> k, seq |-> s])
      BY <1>1, <3>1, <3>2 DEF Before
    <3> QED
      BY <2>3, <3>3
  <2>6. ASSUME NEW h \in behind PROVE ~Before(Smallest(h), Smallest(f))
    <3>1. h \in V[l] /\ ~Before(Largest(h), [key |-> k, seq |-> s])
      BY <2>3
    <3>2. /\ h.entries \in SUBSET Entry /\ Low(h) \in Nat /\ High(h) \in Nat /\ Low(h) <= High(h)
          /\ Smallest(h) \in h.entries
      BY <1>2, <3>1, FileEnds
    <3>3. CASE h = f
      <4>1. Smallest(f).key \in Nat /\ Smallest(f).seq \in Nat
        BY <1>3, EntryIs
      <4> QED
        BY <3>3, <4>1 DEF Before
    <3>4. CASE h # f
      <4>1. Apart(f, h)
        BY <2>2, <3>1, <3>4
      <4>2. ~(High(h) < k)
        BY <3>1 DEF Before, High
      <4>3. Low(f) < Low(h)
        BY <1>3, <3>2, <4>1, <4>2 DEF Apart
      <4>4. ~(Low(h) < Low(f)) /\ Low(h) # Low(f)
        BY <1>3, <3>2, <4>3
      <4> QED
        BY <4>4 DEF Before, Low
    <3> QED
      BY <3>3, <3>4
  <2>7. Smallest(f).key <= k
    BY <1>3 DEF Low
  <2>8. f \in FindFile(V[l], k, s)
    BY <2>4, <2>5, <2>6, <2>7
  <2> QED
    BY <1>5, <2>8 DEF Searched
<1> QED
  BY <1>4, <1>5

LEMMA FileEntries ==
    ASSUME NEW V, NEW H \in SUBSET Entry, Distinct(H), VersionOK(V, H), NEW l \in Level, NEW f \in V[l]
    PROVE  f.entries \in SUBSET Entry /\ Distinct(f.entries) /\ f.entries \subseteq Tables(V)
<1>1. f.entries \subseteq Tables(V)
  BY DEF Tables, All, Entries
<1>2. Tables(V) \subseteq H
  BY DEF VersionOK
<1> QED
  BY <1>1, <1>2 DEF Distinct

LEMMA HitsIs ==
    ASSUME NEW V, NEW H \in SUBSET Entry, Distinct(H), VersionOK(V, H), NEW l \in Level, NEW k \in Nat, NEW s \in Nat
    PROVE  Hits(V, l, k, s) = {f \in V[l] : ~Absent(f.entries, k, s)}
<1>1. ASSUME NEW f \in V[l] PROVE Find(f.entries, k, s) # None <=> ~Absent(f.entries, k, s)
  <2>1. f.entries \in SUBSET Entry /\ Distinct(f.entries)
    BY FileEntries
  <2>2. Find(f.entries, k, s) = Newest(f.entries, k, s)
    BY <2>1, FindNewest
  <2>3. \/ Absent(f.entries, k, s) /\ Newest(f.entries, k, s) = None
        \/ IsNewest(Newest(f.entries, k, s), f.entries, k, s) /\ Newest(f.entries, k, s) # None
    BY <2>1, NewestCases
  <2>4. Newest(f.entries, k, s) # None => ~Absent(f.entries, k, s)
    BY <2>3 DEF IsNewest, Absent
  <2> QED
    BY <2>2, <2>3, <2>4
<1>2. Searched(V, l, k, s) \subseteq V[l]
  BY DEF Searched, Overlapping, FindFile
<1>3. Shaped(V)
  BY DEF VersionOK
<1>4. \A f \in V[l] : ~Absent(f.entries, k, s) => f \in Searched(V, l, k, s)
  BY <1>3, SearchedIs
<1> QED
  BY <1>1, <1>2, <1>4 DEF Hits

\* The newest of the files with the key, which level 0 may have several of.
LEMMA NewestFileIs ==
    ASSUME NEW F, F # {}, IsFiniteSet(F), \A f \in F : f.number \in Nat
    PROVE  NewestFile(F) \in F /\ \A g \in F : g.number <= NewestFile(F).number
<1>1. PICK N : N = {f.number : f \in F}
  OBVIOUS
<1>2. N \in SUBSET Nat /\ N # {}
  BY <1>1
<1>3. IsFiniteSet(N)
  <2>1. PICK m : m = [f \in F |-> f.number]
    OBVIOUS
  <2>2. m \in Surjection(F, N)
    BY <1>1, <2>1 DEF Surjection
  <2> QED
    BY <2>2, FS_Surjection
<1>4. PICK n \in N : \A x \in N : x <= n
  BY <1>2, <1>3, LargestOf
<1>5. PICK f \in F : f.number = n
  BY <1>1, <1>4
<1>6. \A g \in F : g.number <= f.number
  BY <1>1, <1>4, <1>5
<1>7. \E x \in F : \A g \in F : g.number <= x.number
  BY <1>6
<1> QED
  BY <1>7 DEF NewestFile

LEMMA VersionGetNewest ==
    ASSUME NEW V, NEW H \in SUBSET Entry, Distinct(H), VersionOK(V, H), NEW k \in Nat, NEW s \in Nat
    PROVE  VersionGet(V, k, s) = Newest(Tables(V), k, s)
<1>1. PICK hit : hit = {l \in Level : Hits(V, l, k, s) # {}}
  OBVIOUS
<1>2. VersionGet(V, k, s) = IF hit = {} THEN None ELSE Find(NewestFile(Hits(V, Min(hit), k, s)).entries, k, s)
  BY <1>1, Zenon DEF VersionGet
<1>3. \A l \in Level : Hits(V, l, k, s) = {f \in V[l] : ~Absent(f.entries, k, s)}
  BY HitsIs
<1>4. Tables(V) \in SUBSET Entry /\ Distinct(Tables(V)) /\ Shaped(V) /\ Ordered(V) /\ \A l \in Level : IsFiniteSet(V[l])
  BY DEF VersionOK, Distinct
<1>5. CASE hit = {}
  <2>1. ASSUME NEW d \in Tables(V), d.key = k, d.seq <= s PROVE FALSE
    <3>1. PICK l \in Level : \E f \in V[l] : d \in f.entries
      BY DEF Tables, All, Entries
    <3>2. PICK f \in V[l] : d \in f.entries
      BY <3>1
    <3>3. ~Absent(f.entries, k, s)
      BY <2>1, <3>2 DEF Absent
    <3> QED
      BY <1>1, <1>3, <1>5, <3>2, <3>3
  <2>2. Absent(Tables(V), k, s)
    BY <2>1 DEF Absent
  <2> QED
    BY <1>2, <1>5, <2>2, NewestNone
<1>6. CASE hit # {}
  <2>1. Level \subseteq Nat /\ Top \in Nat
    BY ConstantsAssumption DEF Level
  <2>2. PICK m \in Level : m = Min(hit) /\ m \in hit /\ \A l \in hit : m <= l
    <3>1. hit \in SUBSET Nat /\ hit \subseteq Level
      BY <1>1, <2>1
    <3> QED
      BY <1>6, <3>1, MinIs
  <2>3. PICK F : F = Hits(V, m, k, s)
    OBVIOUS
  <2>4. F # {} /\ F = {f \in V[m] : ~Absent(f.entries, k, s)}
    BY <1>1, <1>3, <2>2, <2>3
  <2>5. IsFiniteSet(F) /\ \A f \in F : f.number \in Nat /\ FileOK(f)
    <3>1. F \subseteq V[m]
      BY <2>4
    <3>2. IsFiniteSet(F)
      BY <1>4, <3>1, FS_Subset
    <3>3. \A f \in V[m] : FileOK(f)
      BY <1>4 DEF Shaped
    <3> QED
      BY <3>1, <3>2, <3>3 DEF FileOK
  <2>6. PICK b : b = NewestFile(F) /\ b \in F /\ \A g \in F : g.number <= b.number
    BY <2>4, <2>5, NewestFileIs
  <2>7. VersionGet(V, k, s) = Find(b.entries, k, s)
    BY <1>2, <1>6, <2>2, <2>3, <2>6
  <2>8. b \in V[m] /\ ~Absent(b.entries, k, s)
    BY <2>4, <2>6
  <2>9. b.entries \in SUBSET Entry /\ Distinct(b.entries) /\ b.entries \subseteq Tables(V)
    BY <2>8, FileEntries
  <2>10. PICK n : n = Newest(b.entries, k, s) /\ IsNewest(n, b.entries, k, s)
    BY <2>8, <2>9, NewestCases
  <2>11. n \in b.entries /\ n.key = k /\ n.seq <= s /\ n.seq \in Nat
    BY <2>9, <2>10, EntryIs DEF IsNewest
  <2>12. ASSUME NEW d \in Tables(V), d.key = k, d.seq <= s PROVE d.seq <= n.seq
    <3>1. PICK l \in Level : \E f \in V[l] : d \in f.entries
      BY DEF Tables, All, Entries
    <3>2. PICK f \in V[l] : d \in f.entries
      BY <3>1
    <3>3. ~Absent(f.entries, k, s)
      BY <2>12, <3>2 DEF Absent
    <3>4. l \in hit /\ m <= l /\ m \in Nat /\ l \in Nat
      BY <1>1, <1>3, <2>1, <2>2, <3>2, <3>3
    <3>5. d.seq \in Nat
      BY <1>4, EntryIs
    <3>6. ASSUME Newer(b.entries, f.entries) PROVE d.seq <= n.seq
      <4>1. n.seq > d.seq
        BY <2>11, <2>12, <3>2, <3>6 DEF Newer
      <4> QED
        BY <2>11, <3>5, <4>1
    <3>7. CASE f = b
      BY <2>10, <2>12, <3>2, <3>7 DEF IsNewest
    <3>8. CASE m < l
      <4>1. Newer(b.entries, f.entries)
        BY <1>4, <2>8, <3>2, <3>8 DEF Ordered
      <4> QED
        BY <3>6, <4>1
    <3>9. CASE m = l /\ f # b
      <4>1. f \in F
        BY <2>4, <3>2, <3>3, <3>9
      <4>2. f.number <= b.number /\ f.number \in Nat /\ b.number \in Nat
        BY <2>5, <2>6, <4>1
      <4>3. CASE m = 0
        <5>1. f.number # b.number
          BY <1>4, <2>8, <3>2, <3>9, <4>3 DEF Ordered
        <5>2. b.number > f.number
          BY <4>2, <5>1
        <5>3. Newer(b.entries, f.entries)
          BY <1>4, <2>8, <3>2, <3>9, <4>3, <5>2 DEF Ordered
        <5> QED
          BY <3>6, <5>3
      <4>4. CASE m # 0
        <5>1. m \in 1 .. Top
          BY <2>1, <4>4 DEF Level
        <5>2. Apart(b, f)
          BY <1>4, <2>8, <3>2, <3>9, <5>1 DEF Shaped
        <5>3. FileOK(b) /\ FileOK(f)
          BY <2>5, <2>6, <4>1
        <5> QED
          BY <2>11, <2>12, <3>2, <5>2, <5>3, ApartKeys
      <4> QED
        BY <4>3, <4>4
    <3> QED
      BY <3>4, <3>7, <3>8, <3>9
  <2>13. IsNewest(n, Tables(V), k, s)
    BY <2>9, <2>11, <2>12 DEF IsNewest
  <2>14. Newest(Tables(V), k, s) = n
    BY <1>4, <2>13, NewestFound
  <2>15. Find(b.entries, k, s) = n
    BY <2>9, <2>10, FindNewest
  <2> QED
    BY <2>7, <2>14, <2>15
<1> QED
  BY <1>5, <1>6

-----------------------------------------------------------------------------
(* The tree.                                                               *)

LEMMA TreeInit == Init => TreeInv
<1>1. SUFFICES ASSUME Init PROVE TreeInv
  OBVIOUS
<1>2. /\ mem = {} /\ imm = {} /\ hasimm = FALSE /\ levels = [l \in Level |-> {}]
      /\ lastsequence = 0 /\ nextfile = 1 /\ compaction = NoCompaction /\ hist = {}
  BY <1>1 DEF Init
<1>3. 0 \in Level /\ Top \in Nat /\ MaxSequence \in Nat
  BY ConstantsAssumption DEF Level
<1>4. \A l \in Level : levels[l] = {}
  BY <1>2
<1>5. Tables(levels) = {}
  BY <1>4 DEF Tables, All, Entries
<1>6. IsFiniteSet({})
  BY FS_EmptySet
<1>7. HistOK
  BY <1>2, <1>3, <1>6 DEF HistOK, Distinct
<1>8. MemOK
  BY <1>2, <1>5 DEF MemOK, Newer
<1>9. Shaped(levels)
  <2>1. 1 .. Top \subseteq Level
    BY <1>3 DEF Level
  <2> QED
    BY <1>2, <1>4, <2>1 DEF Shaped
<1>10. Ordered(levels)
  BY <1>3, <1>4 DEF Ordered
<1>11. VersionOK(levels, hist)
  BY <1>4, <1>5, <1>6, <1>9, <1>10 DEF VersionOK
<1>12. LevelsOK
  <2>1. levels \in [Level -> SUBSET File] /\ nextfile \in Nat
    BY <1>2
  <2> QED
    BY <1>3, <1>4, <1>11, <2>1 DEF LevelsOK
<1> QED
  BY <1>2, <1>7, <1>8, <1>12 DEF TreeInv, CompactionOK, VisibleAt

LEMMA TreeSame ==
    ASSUME TreeInv, UNCHANGED <<mem, imm, hasimm, levels, lastsequence, nextfile, compaction, hist>>
    PROVE  TreeInv' /\ Stored' = Stored
  BY DEF TreeInv, HistOK, MemOK, LevelsOK, CompactionOK, Stored

\* Manual compactions are asked for one user key at a time.
PointsOnly == \A range \in ManualRanges : range[1] = range[2]

LEMMA PickStep ==
    ASSUME TreeInv, PickCompaction
    PROVE  TreeInv' /\ All(levels') = All(levels)
<1>1. PICK l \in 0 .. (Top - 1) : \E f \in levels[l] : StartCompaction(l, PickInputs(l, f), FALSE)
  BY DEF PickCompaction
<1>2. PICK f \in levels[l] : StartCompaction(l, PickInputs(l, f), FALSE)
  BY <1>1
<1>3. Shaped(levels)
  BY DEF TreeInv, LevelsOK, VersionOK
<1>4. Ready(l, PickInputs(l, f))
  BY <1>3, PickReady
<1>5. compaction = NoCompaction /\ UNCHANGED <<mem, imm, hasimm, lastsequence, nextfile, hist>>
  BY DEF PickCompaction
<1> QED
  BY <1>2, <1>4, <1>5, StartStep

LEMMA RangeStep ==
    ASSUME PointsOnly, TreeInv, CompactRange
    PROVE  TreeInv' /\ All(levels') = All(levels)
<1>1. PICK l \in 0 .. (Top - 1), range \in ManualRanges :
         /\ RangeInputs(l, range[1], range[2]) # {}
         /\ StartCompaction(l, RangeInputs(l, range[1], range[2]), TRUE)
  BY DEF CompactRange
<1>2. PICK k \in Key : k = range[1] /\ k = range[2]
  BY ConstantsAssumption DEF PointsOnly
<1>3. Shaped(levels)
  BY DEF TreeInv, LevelsOK, VersionOK
<1>4. RangeInputs(l, k, k) # {} /\ StartCompaction(l, RangeInputs(l, k, k), TRUE)
  BY <1>1, <1>2
<1>5. Ready(l, RangeInputs(l, k, k))
  BY <1>3, <1>4, RangeReady
<1>6. compaction = NoCompaction /\ UNCHANGED <<mem, imm, hasimm, lastsequence, nextfile, hist>>
  BY DEF CompactRange
<1> QED
  BY <1>4, <1>5, <1>6, StartStep

LEMMA GetLeaves ==
    ASSUME NEW r \in Reader, GetStep(r)
    PROVE  UNCHANGED <<mem, imm, hasimm, levels, lastsequence, nextfile, compaction, hist>>
  BY DEF GetStep, GetStart, GetMem, GetImm, GetImmUse, GetVersion, OnlyGet

LEMMA TreeNext ==
    ASSUME PointsOnly, TreeInv, [Next]_vars
    PROVE  TreeInv'
<1>1. CASE Write
  BY <1>1, WriteStep
<1>2. CASE SwitchMem
  BY <1>2, SwitchStep
<1>3. CASE PickCompaction
  BY <1>3, PickStep
<1>4. CASE CompactRange
  BY <1>4, RangeStep
<1>5. CASE InstallCompactionResults
  BY <1>5, InstallStep
<1>6. CASE CompactMemTable
  BY <1>6, FlushStep
<1>7. ASSUME NEW r \in Reader, GetStep(r) PROVE TreeInv'
  <2>1. UNCHANGED <<mem, imm, hasimm, levels, lastsequence, nextfile, compaction, hist>>
    BY <1>7, GetLeaves
  <2> QED
    BY <2>1, TreeSame
<1>8. CASE UNCHANGED vars
  <2>1. UNCHANGED <<mem, imm, hasimm, levels, lastsequence, nextfile, compaction, hist>>
    BY <1>8 DEF vars
  <2> QED
    BY <2>1, TreeSame
<1> QED
  BY <1>1, <1>2, <1>3, <1>4, <1>5, <1>6, <1>7, <1>8 DEF Next

LEMMA TreeDisjoint == TreeInv => LevelsDisjoint
<1>1. SUFFICES ASSUME TreeInv, NEW l \in 1 .. Top, NEW f \in levels[l], NEW g \in levels[l], f # g
               PROVE  Before(Largest(f), Smallest(g)) \/ Before(Largest(g), Smallest(f))
  BY DEF LevelsDisjoint
<1>2. Apart(f, g)
  BY <1>1 DEF TreeInv, LevelsOK, VersionOK, Shaped
<1> QED
  BY <1>2 DEF Apart, Before, High, Low

LEMMA TreeNewer == TreeInv => NearerIsNewer
<1>1. SUFFICES ASSUME TreeInv PROVE NearerIsNewer
  OBVIOUS
<1>2. MemOK /\ Ordered(levels)
  BY <1>1 DEF TreeInv, LevelsOK, VersionOK
<1>3. Top \in Nat /\ 0 \in Level
  BY ConstantsAssumption DEF Level
<1>4. PICK under : under = [l \in Level |-> Entries(UNION {levels[k] : k \in (l + 1) .. Top})]
  OBVIOUS
<1>5. ASSUME NEW l \in Level, NEW e \in under[l] PROVE \E k \in Level : l < k /\ \E g \in levels[k] : e \in g.entries
  <2>1. l \in Nat
    BY <1>3 DEF Level
  <2>2. e \in Entries(UNION {levels[k] : k \in (l + 1) .. Top})
    BY <1>4
  <2>3. PICK k \in (l + 1) .. Top : \E g \in levels[k] : e \in g.entries
    BY <2>2 DEF Entries
  <2>4. k \in Level /\ l < k
    BY <1>3, <2>1 DEF Level
  <2> QED
    BY <2>3, <2>4
<1>6. under[0] \subseteq Tables(levels) /\ Entries(levels[0]) \subseteq Tables(levels)
  BY <1>3, <1>5 DEF Tables, All, Entries
<1>7. Newer(mem, imm \cup Entries(levels[0]) \cup under[0]) /\ Newer(imm, Entries(levels[0]) \cup under[0])
  BY <1>2, <1>6 DEF MemOK, Newer
<1>8. \A f, g \in levels[0] : f.number > g.number => Newer(f.entries, g.entries)
  BY <1>2 DEF Ordered
<1>9. ASSUME NEW l \in Level PROVE Newer(Entries(levels[l]), under[l])
  <2>1. SUFFICES ASSUME NEW d \in Entries(levels[l]), NEW e \in under[l], d.key = e.key PROVE d.seq > e.seq
    BY DEF Newer
  <2>2. PICK f \in levels[l] : d \in f.entries
    BY DEF Entries
  <2>3. PICK k \in Level : l < k /\ \E g \in levels[k] : e \in g.entries
    BY <1>5
  <2>4. PICK g \in levels[k] : e \in g.entries
    BY <2>3
  <2>5. Newer(f.entries, g.entries)
    BY <1>2, <2>3 DEF Ordered
  <2> QED
    BY <2>1, <2>2, <2>4, <2>5 DEF Newer
<1>10. under[0] = Entries(UNION {levels[k] : k \in (0 + 1) .. Top}) /\ \A l \in Level : under[l] = Entries(UNION {levels[k] : k \in (l + 1) .. Top})
  BY <1>3, <1>4
<1> QED
  BY <1>7, <1>8, <1>9, <1>10, Zenon DEF NearerIsNewer, Newer

LEMMA StoredOK ==
    ASSUME TreeInv
    PROVE  /\ hist \in SUBSET Entry /\ Distinct(hist) /\ Stored \in SUBSET hist /\ Stored \in SUBSET Entry /\ Distinct(Stored)
           /\ mem \in SUBSET Entry /\ imm \in SUBSET Entry /\ Tables(levels) \in SUBSET Entry
           /\ Distinct(mem) /\ Distinct(imm) /\ Distinct(Tables(levels))
           /\ Newer(mem, imm \cup Tables(levels)) /\ Newer(imm, Tables(levels)) /\ lastsequence \in Nat
<1>1. HistOK /\ MemOK /\ Tables(levels) \subseteq hist
  BY DEF TreeInv, LevelsOK, VersionOK
<1>2. hist \in SUBSET Entry /\ Distinct(hist) /\ lastsequence \in Nat
  BY <1>1 DEF HistOK
<1>3. Stored \in SUBSET hist
  BY <1>1 DEF Stored, MemOK
<1>4. Newer(mem, imm \cup Tables(levels)) /\ Newer(imm, Tables(levels))
  BY <1>1 DEF MemOK, Newer
<1>5. \A S \in SUBSET hist : S \in SUBSET Entry /\ Distinct(S)
  BY <1>2 DEF Distinct
<1>6. mem \in SUBSET hist /\ imm \in SUBSET hist /\ Tables(levels) \in SUBSET hist
  BY <1>1 DEF MemOK
<1> QED
  BY <1>2, <1>3, <1>4, <1>5, <1>6

LEMMA TreeReads == TreeInv => ReadsNewest
<1>1. SUFFICES ASSUME TreeInv, NEW k \in Key
               PROVE  LET s == lastsequence
                          truth == Value(Newest(hist, k, s))
                          tables == Entries(UNION {levels[l] : l \in Level})
                          found == {e \in {Find(mem, k, s), Find(imm, k, s), VersionGet(levels, k, s)} : e # None}
                      IN /\ Value(Newest(mem \cup imm \cup tables, k, s)) = truth
                         /\ (IF found = {} THEN 0 ELSE Value(First(found))) = truth
  BY Zenon DEF ReadsNewest
<1>2. /\ hist \in SUBSET Entry /\ Distinct(hist) /\ Stored \in SUBSET hist /\ Stored \in SUBSET Entry /\ Distinct(Stored)
      /\ mem \in SUBSET Entry /\ imm \in SUBSET Entry /\ Tables(levels) \in SUBSET Entry
      /\ Distinct(mem) /\ Distinct(imm) /\ Distinct(Tables(levels))
  BY <1>1, StoredOK
<1>3. PICK s \in Nat : s = lastsequence
  BY <1>1, StoredOK
<1>4. k \in Nat
  BY ConstantsAssumption
<1>5. VersionOK(levels, hist) /\ VisibleAt(hist, Stored, s)
  BY <1>1, <1>3 DEF TreeInv, LevelsOK
<1>6. PICK truth : truth = Value(Newest(hist, k, s))
  OBVIOUS
<1>7. PICK n : n = Newest(Stored, k, s)
  OBVIOUS
<1>8. Value(n) = truth
  BY <1>2, <1>5, <1>6, <1>7, Answer
<1>9. PICK m, i, t : m = Newest(mem, k, s) /\ i = Newest(imm, k, s) /\ t = Newest(Tables(levels), k, s)
  OBVIOUS
<1>10. Find(mem, k, s) = m /\ Find(imm, k, s) = i /\ VersionGet(levels, k, s) = t
  BY <1>2, <1>4, <1>5, <1>9, FindNewest, VersionGetNewest
<1>11. PICK found : found = {e \in {m, i, t} : e # None}
  OBVIOUS
<1>12. ASSUME NEW e \in found PROVE e \in Stored /\ e.key = k /\ e.seq <= s
  <2>1. CASE e = m
    BY <1>2, <1>9, <1>11, <1>12, <2>1, NewestCases DEF IsNewest, Stored
  <2>2. CASE e = i
    BY <1>2, <1>9, <1>11, <1>12, <2>2, NewestCases DEF IsNewest, Stored
  <2>3. CASE e = t
    BY <1>2, <1>9, <1>11, <1>12, <2>3, NewestCases DEF IsNewest, Stored
  <2> QED
    BY <1>11, <2>1, <2>2, <2>3
<1>13. CASE n = None
  <2>1. Absent(Stored, k, s)
    BY <1>2, <1>7, <1>13, NewestCases
  <2>2. found = {}
    BY <1>12, <2>1 DEF Absent
  <2>3. truth = 0
    BY <1>8, <1>13 DEF Value, None
  <2>4. (IF found = {} THEN 0 ELSE Value(First(found))) = truth
    BY <2>2, <2>3
  <2> QED
    BY <1>3, <1>6, <1>7, <1>8, <1>10, <1>11, <2>4, Zenon DEF Stored, Tables, All
<1>14. CASE n # None
  <2>1. IsNewest(n, Stored, k, s)
    BY <1>2, <1>7, <1>14, NewestCases
  <2>2. n \in Stored /\ n.key = k /\ n.seq <= s /\ n.seq \in Nat
    BY <1>2, <2>1, EntryIs DEF IsNewest
  <2>3. n \in {m, i, t}
    <3>1. CASE n \in mem
      <4>1. IsNewest(n, mem, k, s)
        BY <2>1, <3>1 DEF IsNewest, Stored
      <4> QED
        BY <1>2, <1>9, <4>1, NewestFound
    <3>2. CASE n \in imm
      <4>1. IsNewest(n, imm, k, s)
        BY <2>1, <3>2 DEF IsNewest, Stored
      <4> QED
        BY <1>2, <1>9, <4>1, NewestFound
    <3>3. CASE n \in Tables(levels)
      <4>1. IsNewest(n, Tables(levels), k, s)
        BY <2>1, <3>3 DEF IsNewest, Stored
      <4> QED
        BY <1>2, <1>9, <4>1, NewestFound
    <3> QED
      BY <2>2, <3>1, <3>2, <3>3 DEF Stored
  <2>4. n \in found /\ found \in SUBSET Entry
    BY <1>2, <1>11, <1>12, <1>14, <2>3
  <2>5. PICK x : x = First(found) /\ x \in found /\ ~Before(n, x)
    BY <2>4, FirstIs
  <2>6. x \in Stored /\ x.key = k /\ x.seq <= s /\ x.seq \in Nat
    BY <1>2, <1>12, <2>5, EntryIs
  <2>7. x.seq <= n.seq
    BY <2>1, <2>6 DEF IsNewest
  <2>8. ~(n.seq > x.seq)
    BY <2>2, <2>5, <2>6 DEF Before
  <2>9. x.seq = n.seq
    BY <2>2, <2>6, <2>7, <2>8
  <2>10. x = n
    BY <1>2, <2>2, <2>6, <2>9 DEF Distinct
  <2>11. (IF found = {} THEN 0 ELSE Value(First(found))) = truth
    BY <1>8, <2>4, <2>5, <2>10
  <2> QED
    BY <1>3, <1>6, <1>7, <1>8, <1>10, <1>11, <2>11, Zenon DEF Stored, Tables, All
<1> QED
  BY <1>13, <1>14

-----------------------------------------------------------------------------
(* Calls of Get.                                                           *)

\* The places a call looks at, in order, and what it answers.
LEMMA MemAnswer ==
    ASSUME TreeInv, NEW k \in Key, NEW s \in Nat, VisibleAt(hist, Stored, s), Find(mem, k, s) # None
    PROVE  Value(Find(mem, k, s)) = Value(Newest(hist, k, s))
<1>1. k \in Nat
  BY ConstantsAssumption
<1>2. /\ hist \in SUBSET Entry /\ Distinct(hist) /\ Stored \in SUBSET hist /\ Stored \in SUBSET Entry /\ Distinct(Stored)
      /\ mem \in SUBSET Entry /\ Distinct(mem) /\ Newer(mem, imm \cup Tables(levels))
  BY StoredOK
<1>3. Find(mem, k, s) = Newest(mem, k, s)
  BY <1>1, <1>2, FindNewest
<1>4. Stored = mem \cup (imm \cup Tables(levels))
  BY DEF Stored
<1>5. Newest(Stored, k, s) = Newest(mem, k, s)
  BY <1>2, <1>3, <1>4, NewestUnion
<1> QED
  BY <1>2, <1>3, <1>5, Answer

LEMMA ImmAnswer ==
    ASSUME TreeInv, NEW k \in Key, NEW s \in Nat, VisibleAt(hist, Stored, s), Absent(mem, k, s), Find(imm, k, s) # None
    PROVE  Value(Find(imm, k, s)) = Value(Newest(hist, k, s))
<1>1. k \in Nat
  BY ConstantsAssumption
<1>2. /\ hist \in SUBSET Entry /\ Distinct(hist) /\ Stored \in SUBSET hist /\ Stored \in SUBSET Entry /\ Distinct(Stored)
      /\ imm \in SUBSET Entry /\ Distinct(imm) /\ Newer(imm, Tables(levels)) /\ Newer(mem, imm \cup Tables(levels))
  BY StoredOK
<1>3. Find(imm, k, s) = Newest(imm, k, s)
  BY <1>1, <1>2, FindNewest
<1>4. Stored = mem \cup (imm \cup Tables(levels)) /\ imm \cup Tables(levels) \in SUBSET Entry
  BY <1>2 DEF Stored
<1>5. Distinct(imm \cup Tables(levels))
  BY <1>2, <1>4 DEF Distinct
<1>6. Newest(mem, k, s) = None
  BY NewestNone
<1>7. Newest(Stored, k, s) = Newest(imm \cup Tables(levels), k, s)
  BY <1>2, <1>4, <1>6, NewestUnion
<1>8. Newest(imm \cup Tables(levels), k, s) = Newest(imm, k, s)
  BY <1>2, <1>3, <1>4, <1>5, NewestUnion
<1> QED
  BY <1>2, <1>3, <1>7, <1>8, Answer

LEMMA VersionAnswer ==
    ASSUME TreeInv, NEW k \in Key, NEW s \in Nat, VisibleAt(hist, Stored, s), Absent(mem, k, s), Absent(imm, k, s),
           NEW V, VersionOK(V, hist), All(V) = All(levels)
    PROVE  Value(VersionGet(V, k, s)) = Value(Newest(hist, k, s))
<1>1. k \in Nat
  BY ConstantsAssumption
<1>2. /\ hist \in SUBSET Entry /\ Distinct(hist) /\ Stored \in SUBSET hist /\ Stored \in SUBSET Entry /\ Distinct(Stored)
      /\ Newer(imm, Tables(levels)) /\ Newer(mem, imm \cup Tables(levels))
  BY StoredOK
<1>3. Tables(V) = Tables(levels)
  BY DEF Tables
<1>4. Stored = mem \cup (imm \cup Tables(levels)) /\ imm \cup Tables(levels) \in SUBSET Entry
  BY <1>2 DEF Stored
<1>5. Distinct(imm \cup Tables(levels))
  BY <1>2, <1>4 DEF Distinct
<1>6. Newest(mem, k, s) = None /\ Newest(imm, k, s) = None
  BY NewestNone
<1>7. Newest(Stored, k, s) = Newest(imm \cup Tables(levels), k, s)
  BY <1>2, <1>4, <1>6, NewestUnion
<1>8. Newest(imm \cup Tables(levels), k, s) = Newest(Tables(levels), k, s)
  BY <1>2, <1>4, <1>5, <1>6, NewestUnion
<1>9. VersionGet(V, k, s) = Newest(Tables(V), k, s)
  BY <1>1, <1>2, VersionGetNewest
<1> QED
  BY <1>2, <1>3, <1>7, <1>8, <1>9, Answer

Pcs == Looking \cup {"idle", "done", "crashed", "failed"}
Quiet(g) == g.pc \in {"crashed", "failed"} \/ (g.wrong /\ ~g.old) => g.disturbed

LEMMA GetIs ==
    ASSUME GetsOK, NEW r \in Reader
    PROVE  /\ get[r] \in GetState /\ get[r].pc \in Pcs /\ get[r].key \in Nat /\ get[r].snap \in Nat
           /\ get[r].old \in BOOLEAN /\ get[r].disturbed \in BOOLEAN /\ get[r].wrong \in BOOLEAN
<1>1. get[r] \in GetState
  BY DEF GetsOK
<1> QED
  BY <1>1 DEF GetState, Pcs

\* One call takes a step.
LEMMA OneGet ==
    ASSUME GetsOK, QuietGet, UNCHANGED <<mem, imm, hasimm, levels, lastsequence, hist>>,
           NEW r \in Reader, NEW g \in GetState, get' = [get EXCEPT ![r] = g],
           g.pc \in Looking /\ ~g.disturbed => Undisturbed(g), Quiet(g)
    PROVE  GetsOK' /\ QuietGet'
<1>1. get \in [Reader -> GetState]
  BY DEF GetsOK
<1>2. get' \in [Reader -> GetState] /\ get'[r] = g /\ \A x \in Reader : x # r => get'[x] = get[x]
  BY <1>1
<1>3. ASSUME NEW x \in Reader, get'[x].pc \in Looking, ~get'[x].disturbed PROVE Undisturbed(get[x])'
  <2>1. PICK h : h = get'[x]
    OBVIOUS
  <2>2. Undisturbed(h)
    <3>1. CASE x = r
      BY <1>2, <1>3, <2>1, <3>1
    <3>2. CASE x # r
      BY <1>2, <1>3, <2>1, <3>2 DEF GetsOK
    <3> QED
      BY <3>1, <3>2
  <2> QED
    BY <2>1, <2>2 DEF Undisturbed, Stored
<1>4. ASSUME NEW x \in Reader PROVE Quiet(get'[x])
  <2>1. CASE x = r
    BY <1>2, <2>1
  <2>2. CASE x # r
    BY <1>2, <2>2 DEF QuietGet, Quiet
  <2> QED
    BY <2>1, <2>2
<1>5. GetsOK'
  BY <1>2, <1>3 DEF GetsOK
<1>6. QuietGet'
  BY <1>4 DEF QuietGet, Quiet
<1> QED
  BY <1>5, <1>6

LEMMA StepIs ==
    ASSUME GetsOK, NEW r \in Reader, NEW pc \in Pcs, Step(r, pc)
    PROVE  \E g \in GetState :
              /\ get' = [get EXCEPT ![r] = g] /\ g.pc = pc /\ g.key = get[r].key /\ g.snap = get[r].snap
              /\ g.version = get[r].version /\ g.old = get[r].old /\ g.disturbed = get[r].disturbed /\ g.wrong = get[r].wrong
<1>1. get[r] \in GetState
  BY GetIs
<1>2. PICK g : g = [get[r] EXCEPT !.pc = pc]
  OBVIOUS
<1>3. g \in GetState
  BY <1>1, <1>2 DEF GetState, Pcs
<1>4. /\ g.pc = pc /\ g.key = get[r].key /\ g.snap = get[r].snap
      /\ g.version = get[r].version /\ g.old = get[r].old /\ g.disturbed = get[r].disturbed /\ g.wrong = get[r].wrong
  BY <1>1, <1>2 DEF GetState
<1>5. get' = [get EXCEPT ![r] = g]
  BY <1>2 DEF Step
<1> QED
  BY <1>3, <1>4, <1>5

LEMMA FinishIs ==
    ASSUME GetsOK, NEW r \in Reader, NEW e, Finish(r, e)
    PROVE  \E g \in GetState :
              /\ get' = [get EXCEPT ![r] = g] /\ g.pc = "done" /\ g.old = get[r].old /\ g.disturbed = get[r].disturbed
              /\ g.wrong = (Value(e) # Value(Newest(hist, get[r].key, get[r].snap)))
<1>1. get[r].old \in BOOLEAN /\ get[r].disturbed \in BOOLEAN
  BY GetIs
<1>2. PICK wrong \in BOOLEAN : wrong = (Value(e) # Value(Newest(hist, get[r].key, get[r].snap)))
  OBVIOUS
<1>3. PICK g : g = [NoGet EXCEPT !.pc = "done", !.old = get[r].old, !.disturbed = get[r].disturbed, !.wrong = wrong]
  OBVIOUS
<1>4. get' = [get EXCEPT ![r] = g]
  BY <1>2, <1>3 DEF Finish
<1>5. g = [pc |-> "done", key |-> 0, snap |-> 0, version |-> << >>,
           old |-> get[r].old, disturbed |-> get[r].disturbed, wrong |-> wrong]
  BY <1>3 DEF NoGet
<1>6. g \in GetState /\ g.pc = "done" /\ g.old = get[r].old /\ g.disturbed = get[r].disturbed /\ g.wrong = wrong
  BY <1>1, <1>2, <1>5 DEF GetState
<1> QED
  BY <1>2, <1>4, <1>6

LEMMA Answered ==
    ASSUME LSMInv, NEW r \in Reader, get[r].pc \in Looking, OnlyGet, NEW e, Finish(r, e),
           ~get[r].disturbed /\ ~get[r].old => Value(e) = Value(Newest(hist, get[r].key, get[r].snap))
    PROVE  GetsOK' /\ QuietGet'
<1>1. GetsOK /\ QuietGet
  BY DEF LSMInv
<1>2. PICK g \in GetState :
              /\ get' = [get EXCEPT ![r] = g] /\ g.pc = "done" /\ g.old = get[r].old /\ g.disturbed = get[r].disturbed
              /\ g.wrong = (Value(e) # Value(Newest(hist, get[r].key, get[r].snap)))
  BY <1>1, FinishIs
<1>3. g.pc \notin Looking
  BY <1>2 DEF Looking
<1>4. Quiet(g)
  BY <1>2 DEF Quiet
<1>5. UNCHANGED <<mem, imm, hasimm, levels, lastsequence, hist>>
  BY DEF OnlyGet
<1> QED
  BY <1>1, <1>2, <1>3, <1>4, <1>5, OneGet

\* A call goes on to the next place.
LEMMA WentOn ==
    ASSUME LSMInv, NEW r \in Reader, get[r].pc \in Looking, OnlyGet, NEW pc \in Looking, pc # "mem", Step(r, pc),
           ~get[r].disturbed => /\ Absent(mem, get[r].key, get[r].snap)
                                /\ pc = "immget" => hasimm
                                /\ pc = "version" => Absent(imm, get[r].key, get[r].snap)
    PROVE  GetsOK' /\ QuietGet'
<1>1. GetsOK /\ QuietGet
  BY DEF LSMInv
<1>2. pc \in Pcs
  BY DEF Pcs
<1>3. PICK g \in GetState :
              /\ get' = [get EXCEPT ![r] = g] /\ g.pc = pc /\ g.key = get[r].key /\ g.snap = get[r].snap
              /\ g.version = get[r].version /\ g.old = get[r].old /\ g.disturbed = get[r].disturbed /\ g.wrong = get[r].wrong
  BY <1>1, <1>2, StepIs
<1>4. ASSUME ~g.disturbed PROVE Undisturbed(g)
  <2>1. Undisturbed(get[r])
    BY <1>1, <1>3, <1>4 DEF GetsOK
  <2> QED
    BY <1>3, <1>4, <2>1 DEF Undisturbed
<1>5. Quiet(g)
  <2>1. get[r].wrong /\ ~get[r].old => get[r].disturbed
    BY <1>1 DEF QuietGet
  <2>2. pc \notin {"crashed", "failed"}
    BY DEF Looking
  <2> QED
    BY <1>3, <2>1, <2>2 DEF Quiet
<1>6. UNCHANGED <<mem, imm, hasimm, levels, lastsequence, hist>>
  BY DEF OnlyGet
<1> QED
  BY <1>1, <1>3, <1>4, <1>5, <1>6, OneGet

LEMMA Broke ==
    ASSUME LSMInv, NEW r \in Reader, get[r].disturbed, OnlyGet, NEW pc \in {"crashed", "failed"}, Step(r, pc)
    PROVE  GetsOK' /\ QuietGet'
<1>1. GetsOK /\ QuietGet
  BY DEF LSMInv
<1>2. pc \in Pcs
  BY DEF Pcs
<1>3. PICK g \in GetState :
              /\ get' = [get EXCEPT ![r] = g] /\ g.pc = pc /\ g.key = get[r].key /\ g.snap = get[r].snap
              /\ g.version = get[r].version /\ g.old = get[r].old /\ g.disturbed = get[r].disturbed /\ g.wrong = get[r].wrong
  BY <1>1, <1>2, StepIs
<1>4. g.disturbed
  BY <1>3
<1>5. Quiet(g)
  BY <1>4 DEF Quiet
<1>6. UNCHANGED <<mem, imm, hasimm, levels, lastsequence, hist>>
  BY DEF OnlyGet
<1> QED
  BY <1>1, <1>3, <1>4, <1>5, <1>6, OneGet

LEMMA StartGetStep ==
    ASSUME LSMInv, NEW r \in Reader, GetStart(r)
    PROVE  GetsOK' /\ QuietGet'
<1>1. TreeInv /\ GetsOK /\ QuietGet
  BY DEF LSMInv
<1>2. PICK k \in Key, s \in {s \in 0 .. lastsequence : lastsequence - s <= SnapshotAge} :
       get' = [get EXCEPT ![r] = [NoGet EXCEPT !.pc = "mem", !.key = k, !.snap = s,
                                !.version = levels, !.old = s < lastsequence]]
  BY DEF GetStart
<1>3. lastsequence \in Nat /\ s \in Nat /\ s <= lastsequence /\ k \in Nat
  <2>1. lastsequence \in Nat /\ k \in Nat
    BY <1>1, StoredOK, ConstantsAssumption
  <2> QED
    BY <1>2, <2>1
<1>4. PICK old : old = (s < lastsequence)
  OBVIOUS
<1>5. PICK g : g = [NoGet EXCEPT !.pc = "mem", !.key = k, !.snap = s, !.version = levels, !.old = old]
  OBVIOUS
<1>6. get' = [get EXCEPT ![r] = g]
  BY <1>2, <1>4, <1>5
<1>7. g = [pc |-> "mem", key |-> k, snap |-> s, version |-> levels, old |-> old, disturbed |-> FALSE, wrong |-> FALSE]
  BY <1>5 DEF NoGet
<1>8. g.pc = "mem" /\ g.key = k /\ g.snap = s /\ g.version = levels /\ g.old = old /\ ~g.disturbed /\ ~g.wrong
  BY <1>7
<1>9. levels \in [Level -> SUBSET File] /\ VersionOK(levels, hist) /\ VisibleAt(hist, Stored, lastsequence)
  BY <1>1 DEF TreeInv, LevelsOK
<1>10. g \in GetState
  <2>1. old \in BOOLEAN
    BY <1>3, <1>4
  <2>2. levels \in {<< >>} \cup [Level -> SUBSET File]
    BY <1>9
  <2>3. "mem" \in Looking \cup {"idle", "done", "crashed", "failed"} /\ k \in Nat /\ s \in Nat
    BY <1>3 DEF Looking
  <2> QED
    BY <1>7, <2>1, <2>2, <2>3 DEF GetState
<1>11. ~old => s = lastsequence
  <2>1. ~(s < lastsequence) => s = lastsequence
    BY <1>3
  <2> QED
    BY <1>4, <2>1, Zenon
<1>12. Undisturbed(g)
  BY <1>3, <1>8, <1>9, <1>11 DEF Undisturbed
<1>13. Quiet(g)
  BY <1>8 DEF Quiet
<1>14. UNCHANGED <<mem, imm, hasimm, levels, lastsequence, hist>>
  BY DEF GetStart
<1> QED
  BY <1>1, <1>6, <1>10, <1>12, <1>13, <1>14, OneGet

LEMMA MemGetStep ==
    ASSUME LSMInv, NEW r \in Reader, GetMem(r)
    PROVE  GetsOK' /\ QuietGet'
<1>1. TreeInv /\ GetsOK
  BY DEF LSMInv
<1>2. get[r].pc = "mem" /\ get[r].pc \in Looking /\ OnlyGet
  BY DEF GetMem, Running, Looking
<1>3. PICK k, s \in Nat : k = get[r].key /\ s = get[r].snap
  BY <1>1, GetIs
<1>4. ~get[r].disturbed => k \in Key /\ (~get[r].old => VisibleAt(hist, Stored, s))
  BY <1>1, <1>2, <1>3 DEF GetsOK, Undisturbed
<1>5. IF Find(mem, k, s) # None THEN Finish(r, Find(mem, k, s)) ELSE Step(r, "imm")
  BY <1>3 DEF GetMem
<1>6. CASE Find(mem, k, s) # None
  <2>1. ~get[r].disturbed /\ ~get[r].old => Value(Find(mem, k, s)) = Value(Newest(hist, k, s))
    BY <1>1, <1>3, <1>4, <1>6, MemAnswer
  <2> QED
    BY <1>2, <1>3, <1>5, <1>6, <2>1, Answered
<1>7. CASE Find(mem, k, s) = None
  <2>1. Absent(mem, k, s)
    <3>1. mem \in SUBSET Entry /\ Distinct(mem)
      BY <1>1, StoredOK
    <3>2. k \in Nat /\ Find(mem, k, s) = Newest(mem, k, s)
      BY <1>1, <1>3, <3>1, FindNewest, GetIs
    <3> QED
      BY <1>7, <3>1, <3>2, NewestCases
  <2>2. "imm" \in Looking /\ "imm" # "mem" /\ "imm" # "immget" /\ "imm" # "version"
    BY DEF Looking
  <2> QED
    BY <1>2, <1>3, <1>5, <1>7, <2>1, <2>2, WentOn
<1> QED
  BY <1>6, <1>7

LEMMA ImmGetStep ==
    ASSUME LSMInv, NEW r \in Reader, GetImm(r)
    PROVE  GetsOK' /\ QuietGet'
<1>1. TreeInv /\ GetsOK
  BY DEF LSMInv
<1>2. get[r].pc = "imm" /\ get[r].pc \in Looking /\ OnlyGet
  BY DEF GetImm, Running, Looking
<1>3. ~get[r].disturbed => Absent(mem, get[r].key, get[r].snap)
  BY <1>1, <1>2 DEF GetsOK, Undisturbed
<1>4. hasimm \in BOOLEAN /\ (~hasimm => imm = {})
  BY <1>1 DEF TreeInv, MemOK
<1>5. CASE hasimm
  <2>1. Step(r, "immget")
    BY <1>5 DEF GetImm
  <2>2. "immget" \in Looking /\ "immget" # "mem" /\ "immget" # "version"
    BY DEF Looking
  <2> QED
    BY <1>2, <1>3, <1>5, <2>1, <2>2, WentOn
<1>6. CASE ~hasimm
  <2>1. Step(r, "version")
    BY <1>6 DEF GetImm
  <2>2. "version" \in Looking /\ "version" # "mem" /\ "version" # "immget"
    BY DEF Looking
  <2>3. Absent(imm, get[r].key, get[r].snap)
    BY <1>4, <1>6 DEF Absent
  <2> QED
    BY <1>2, <1>3, <2>1, <2>2, <2>3, WentOn
<1> QED
  BY <1>5, <1>6

LEMMA ImmUseStep ==
    ASSUME LSMInv, NEW r \in Reader, GetImmUse(r)
    PROVE  GetsOK' /\ QuietGet'
<1>1. TreeInv /\ GetsOK
  BY DEF LSMInv
<1>2. get[r].pc = "immget" /\ get[r].pc \in Looking /\ OnlyGet
  BY DEF GetImmUse, Running, Looking
<1>3. PICK k, s \in Nat : k = get[r].key /\ s = get[r].snap
  BY <1>1, GetIs
<1>4. ~get[r].disturbed => k \in Key /\ hasimm /\ Absent(mem, k, s) /\ (~get[r].old => VisibleAt(hist, Stored, s))
  BY <1>1, <1>2, <1>3 DEF GetsOK, Undisturbed
<1>5. PICK e : e = Find(imm, k, s)
  OBVIOUS
<1>6. (CASE ~hasimm -> Step(r, "crashed")
         [] hasimm /\ e # None -> Finish(r, e)
         [] OTHER -> Step(r, "version"))
  BY <1>3, <1>5, Zenon DEF GetImmUse
<1>7. hasimm \in BOOLEAN
  BY <1>1 DEF TreeInv, MemOK
<1>8. CASE ~hasimm
  <2>1. Step(r, "crashed")
    BY <1>6, <1>8
  <2>2. get[r].disturbed
    BY <1>4, <1>8
  <2> QED
    BY <1>2, <2>1, <2>2, Broke
<1>9. CASE hasimm /\ e # None
  <2>1. Finish(r, e)
    BY <1>6, <1>9
  <2>2. ~get[r].disturbed /\ ~get[r].old => Value(e) = Value(Newest(hist, k, s))
    BY <1>1, <1>3, <1>4, <1>5, <1>9, ImmAnswer
  <2> QED
    BY <1>2, <1>3, <2>1, <2>2, Answered
<1>10. CASE hasimm /\ e = None
  <2>1. Step(r, "version")
    BY <1>6, <1>10
  <2>2. Absent(imm, k, s)
    <3>1. imm \in SUBSET Entry /\ Distinct(imm)
      BY <1>1, StoredOK
    <3>2. k \in Nat /\ Find(imm, k, s) = Newest(imm, k, s)
      BY <1>1, <1>3, <3>1, FindNewest, GetIs
    <3> QED
      BY <1>5, <1>10, <3>1, <3>2, NewestCases
  <2>3. "version" \in Looking /\ "version" # "mem" /\ "version" # "immget"
    BY DEF Looking
  <2> QED
    BY <1>2, <1>3, <1>4, <2>1, <2>2, <2>3, WentOn
<1> QED
  BY <1>7, <1>8, <1>9, <1>10

\* The files a call opens are files of its version.
LEMMA OpenedIn ==
    ASSUME NEW V, NEW k, NEW s, NEW x \in Opened(V, k, s)
    PROVE  \E f \in All(V) : x = f.number
<1>1. Top \in Nat /\ Level \subseteq Nat /\ Top \in Level
  BY ConstantsAssumption DEF Level
<1>2. PICK hit : hit = {l \in Level : Hits(V, l, k, s) # {}}
  OBVIOUS
<1>3. PICK top : top = IF hit = {} THEN Top ELSE Min(hit)
  OBVIOUS
<1>4. PICK all : all = UNION {Searched(V, l, k, s) : l \in 0 .. top}
  OBVIOUS
<1>5. Opened(V, k, s) = {f.number : f \in {f \in all : hit # {} /\ top = 0 =>
                            f.number >= NewestFile(Hits(V, top, k, s)).number}}
  BY <1>2, <1>3, <1>4, Zenon DEF Opened
<1>6. PICK f \in all : x = f.number
  BY <1>5
<1>7. top \in Level
  <2>1. hit \in SUBSET Nat /\ hit \subseteq Level
    BY <1>1, <1>2
  <2>2. hit # {} => Min(hit) \in hit
    BY <2>1, MinIs
  <2> QED
    BY <1>1, <1>3, <2>1, <2>2
<1>8. PICK l \in 0 .. top : f \in Searched(V, l, k, s)
  BY <1>4, <1>6
<1>9. l \in Level
  BY <1>1, <1>7 DEF Level
<1>10. f \in V[l]
  BY <1>8 DEF Searched, Overlapping, FindFile
<1> QED
  BY <1>6, <1>9, <1>10 DEF All

LEMMA VersionGetStep ==
    ASSUME LSMInv, NEW r \in Reader, GetVersion(r)
    PROVE  GetsOK' /\ QuietGet'
<1>1. TreeInv /\ GetsOK
  BY DEF LSMInv
<1>2. get[r].pc = "version" /\ get[r].pc \in Looking /\ OnlyGet
  BY DEF GetVersion, Running, Looking
<1>3. PICK k, s \in Nat : k = get[r].key /\ s = get[r].snap
  BY <1>1, GetIs
<1>4. PICK V : V = get[r].version
  OBVIOUS
<1>5. ~get[r].disturbed => /\ k \in Key /\ Absent(mem, k, s) /\ Absent(imm, k, s)
                           /\ VersionOK(V, hist) /\ All(V) = All(levels)
                           /\ ~get[r].old => VisibleAt(hist, Stored, s)
  BY <1>1, <1>2, <1>3, <1>4 DEF GetsOK, Undisturbed
<1>6. CASE Opened(V, k, s) \subseteq OnDisk
  <2>1. Finish(r, VersionGet(V, k, s))
    BY <1>3, <1>4, <1>6 DEF GetVersion
  <2>2. ~get[r].disturbed /\ ~get[r].old => Value(VersionGet(V, k, s)) = Value(Newest(hist, k, s))
    BY <1>1, <1>3, <1>5, VersionAnswer
  <2> QED
    BY <1>2, <1>3, <2>1, <2>2, Answered
<1>7. CASE ~(Opened(V, k, s) \subseteq OnDisk)
  <2>1. Step(r, "failed")
    BY <1>3, <1>4, <1>7 DEF GetVersion
  <2>2. PICK x \in Opened(V, k, s) : x \notin OnDisk
    BY <1>7
  <2>3. PICK f \in All(V) : x = f.number
    BY <2>2, OpenedIn
  <2>4. OnDisk = {h.number : h \in All(levels)}
    BY DEF OnDisk, All
  <2>5. All(V) # All(levels)
    BY <2>2, <2>3, <2>4
  <2>6. get[r].disturbed
    BY <1>5, <2>5
  <2> QED
    BY <1>2, <2>1, <2>6, Broke
<1> QED
  BY <1>6, <1>7

\* A flush or a compaction disturbs every call.
LEMMA DisturbStep ==
    ASSUME GetsOK, QuietGet, get' = Disturb
    PROVE  GetsOK' /\ QuietGet'
<1>1. ASSUME NEW r \in Reader
      PROVE  /\ get'[r] \in GetState /\ get'[r].pc = get[r].pc /\ get'[r].wrong = get[r].wrong /\ get'[r].old = get[r].old
             /\ (get[r].disturbed => get'[r].disturbed) /\ (get[r].pc \in Looking => get'[r].disturbed)
  <2>1. get[r] \in GetState /\ get[r].disturbed \in BOOLEAN
    BY GetIs
  <2>2. PICK d \in BOOLEAN : d = (get[r].disturbed \/ get[r].pc \notin {"idle", "done"})
    OBVIOUS
  <2>3. get'[r] = [get[r] EXCEPT !.disturbed = d]
    BY <2>2 DEF Disturb
  <2>4. get'[r] \in GetState /\ get'[r].pc = get[r].pc /\ get'[r].wrong = get[r].wrong /\ get'[r].old = get[r].old /\ get'[r].disturbed = d
    BY <2>1, <2>3 DEF GetState
  <2>5. get[r].pc \in Looking => get[r].pc \notin {"idle", "done"}
    BY DEF Looking
  <2> QED
    BY <2>2, <2>4, <2>5
<1>2. get' \in [Reader -> GetState]
  BY <1>1 DEF Disturb
<1>3. GetsOK'
  BY <1>1, <1>2 DEF GetsOK
<1>4. QuietGet'
  BY <1>1 DEF QuietGet
<1> QED
  BY <1>3, <1>4

\* Writes, switches of the memtable and moves of files do not.
LEMMA QuietStep ==
    ASSUME GetsOK, QuietGet, get' = get,
           \A r \in Reader : get[r].pc \in Looking /\ ~get[r].disturbed => Undisturbed(get[r])'
    PROVE  GetsOK' /\ QuietGet'
<1>1. GetsOK'
  BY DEF GetsOK
<1>2. QuietGet'
  BY DEF QuietGet
<1> QED
  BY <1>1, <1>2

LEMMA QuietWrite ==
    ASSUME LSMInv, Write
    PROVE  GetsOK' /\ QuietGet'
<1>1. TreeInv /\ GetsOK /\ QuietGet
  BY DEF LSMInv
<1>2. PICK e \in Entry :
              /\ e \notin hist /\ e.seq = lastsequence + 1 /\ lastsequence' = lastsequence + 1
              /\ mem' = mem \cup {e} /\ hist' = hist \cup {e} /\ Stored' = Stored \cup {e}
              /\ UNCHANGED <<imm, hasimm, levels, nextfile, compaction, get, ngets>>
  BY <1>1, WriteOne
<1>3. lastsequence \in Nat
  BY <1>1, StoredOK
<1>4. ASSUME NEW r \in Reader, get[r].pc \in Looking, ~get[r].disturbed PROVE Undisturbed(get[r])'
  <2>1. PICK g : g = get[r]
    OBVIOUS
  <2>2. Undisturbed(g) /\ g.snap \in Nat
    BY <1>1, <1>4, <2>1, GetIs DEF GetsOK
  <2>3. g.snap <= lastsequence
    BY <2>2 DEF Undisturbed
  <2>4. g.snap <= lastsequence' /\ e.seq \in Nat /\ e.seq > g.snap /\ ~(e.seq <= g.snap)
    BY <1>2, <1>3, <2>2, <2>3
  <2>5. VersionOK(g.version, hist')
    <3>1. VersionOK(g.version, hist) /\ hist \subseteq hist'
      BY <1>2, <2>2 DEF Undisturbed
    <3> QED
      BY <3>1 DEF VersionOK
  <2>6. ~g.old => VisibleAt(hist', Stored', g.snap)
    <3>1. ASSUME ~g.old PROVE VisibleAt(hist \cup {e}, Stored \cup {e}, g.snap)
      <4>1. VisibleAt(hist, Stored, g.snap)
        BY <2>2, <3>1 DEF Undisturbed
      <4> QED
        BY <2>2, <2>4, <4>1, WriteVisible
    <3> QED
      BY <1>2, <3>1
  <2>7. g.pc # "mem" => Absent(mem', g.key, g.snap)
    BY <1>2, <2>2, <2>4 DEF Undisturbed, Absent
  <2>8. g = get'[r]
    BY <1>2, <2>1
  <2>9. /\ g.key \in Key /\ All(g.version) = All(levels') /\ (g.pc = "immget" => hasimm')
        /\ (g.pc = "version" => Absent(imm', g.key, g.snap))
    BY <1>2, <2>2 DEF Undisturbed
  <2> QED
    BY <2>4, <2>5, <2>6, <2>7, <2>8, <2>9 DEF Undisturbed
<1> QED
  BY <1>1, <1>2, <1>4, QuietStep

LEMMA QuietSwitch ==
    ASSUME LSMInv, SwitchMem
    PROVE  GetsOK' /\ QuietGet'
<1>1. TreeInv /\ GetsOK /\ QuietGet
  BY DEF LSMInv
<1>2. /\ ~hasimm /\ imm' = mem /\ hasimm' = TRUE /\ mem' = {}
      /\ UNCHANGED <<levels, lastsequence, get, hist>>
  BY DEF SwitchMem, readVars
<1>3. Stored' = Stored
  BY <1>1, SwitchStep
<1>4. ASSUME NEW r \in Reader, get[r].pc \in Looking, ~get[r].disturbed PROVE Undisturbed(get[r])'
  <2>1. PICK g : g = get[r]
    OBVIOUS
  <2>2. Undisturbed(g) /\ g = get'[r]
    BY <1>1, <1>2, <1>4, <2>1 DEF GetsOK
  <2>3. Absent(mem', g.key, g.snap)
    BY <1>2 DEF Absent
  <2>4. g.pc = "version" => Absent(imm', g.key, g.snap)
    BY <1>2, <2>2 DEF Undisturbed
  <2> QED
    BY <1>2, <1>3, <2>2, <2>3, <2>4 DEF Undisturbed
<1> QED
  BY <1>1, <1>2, <1>4, QuietStep

LEMMA QuietMove ==
    ASSUME LSMInv, All(levels') = All(levels), UNCHANGED <<mem, imm, hasimm, lastsequence, hist, get>>
    PROVE  GetsOK' /\ QuietGet'
<1>1. TreeInv /\ GetsOK /\ QuietGet
  BY DEF LSMInv
<1>2. Stored' = Stored
  BY DEF Stored, Tables
<1>3. ASSUME NEW r \in Reader, get[r].pc \in Looking, ~get[r].disturbed PROVE Undisturbed(get[r])'
  <2>1. PICK g : g = get[r]
    OBVIOUS
  <2>2. Undisturbed(g) /\ g = get'[r]
    BY <1>1, <1>3, <2>1 DEF GetsOK
  <2> QED
    BY <1>2, <2>2 DEF Undisturbed
<1> QED
  BY <1>1, <1>3, QuietStep

-----------------------------------------------------------------------------
(* The theorems.                                                           *)

LEMMA LSMInit == Init => LSMInv
<1>1. SUFFICES ASSUME Init PROVE LSMInv
  OBVIOUS
<1>2. TreeInv
  BY <1>1, TreeInit
<1>3. NoGet \in GetState /\ NoGet.pc = "idle" /\ NoGet.wrong = FALSE
  BY DEF NoGet, GetState
<1>4. "idle" \notin Looking /\ "idle" \notin {"crashed", "failed"}
  BY DEF Looking
<1>5. get = [r \in Reader |-> NoGet]
  BY <1>1 DEF Init
<1>6. GetsOK
  BY <1>3, <1>4, <1>5 DEF GetsOK
<1>7. QuietGet
  BY <1>3, <1>4, <1>5 DEF QuietGet
<1> QED
  BY <1>2, <1>6, <1>7 DEF LSMInv

LEMMA LSMNext ==
    ASSUME PointsOnly, LSMInv, [Next]_vars
    PROVE  LSMInv'
<1>1. TreeInv /\ GetsOK /\ QuietGet
  BY DEF LSMInv
<1>2. TreeInv'
  BY <1>1, TreeNext
<1>3. GetsOK' /\ QuietGet'
  <2>1. CASE Write
    BY <2>1, QuietWrite
  <2>2. CASE SwitchMem
    BY <2>2, QuietSwitch
  <2>3. CASE PickCompaction
    <3>1. All(levels') = All(levels) /\ UNCHANGED <<mem, imm, hasimm, lastsequence, hist, get>>
      BY <1>1, <2>3, PickStep DEF PickCompaction, readVars
    <3> QED
      BY <3>1, QuietMove
  <2>4. CASE CompactRange
    <3>1. All(levels') = All(levels) /\ UNCHANGED <<mem, imm, hasimm, lastsequence, hist, get>>
      BY <1>1, <2>4, RangeStep DEF CompactRange, readVars
    <3> QED
      BY <3>1, QuietMove
  <2>5. CASE InstallCompactionResults
    <3>1. get' = Disturb
      BY <2>5 DEF InstallCompactionResults
    <3> QED
      BY <1>1, <3>1, DisturbStep
  <2>6. CASE CompactMemTable
    <3>1. get' = Disturb
      BY <2>6 DEF CompactMemTable
    <3> QED
      BY <1>1, <3>1, DisturbStep
  <2>7. ASSUME NEW r \in Reader, GetStep(r) PROVE GetsOK' /\ QuietGet'
    BY <2>7, StartGetStep, MemGetStep, ImmGetStep, ImmUseStep, VersionGetStep DEF GetStep
  <2>8. CASE UNCHANGED vars
    <3>1. All(levels') = All(levels) /\ UNCHANGED <<mem, imm, hasimm, lastsequence, hist, get>>
      BY <2>8 DEF vars
    <3> QED
      BY <3>1, QuietMove
  <2> QED
    BY <2>1, <2>2, <2>3, <2>4, <2>5, <2>6, <2>7, <2>8 DEF Next
<1> QED
  BY <1>2, <1>3 DEF LSMInv

\* The inductive invariant: with manual compactions of single user keys, any
\* number of keys, levels, writes and readers, and any policy for the choice
\* of files and the cutting of outputs, the database is as LSMInv says.
THEOREM LSMInvariant ==
    ASSUME PointsOnly
    PROVE  Spec => []LSMInv
<1>1. LSMInv /\ [Next]_vars => LSMInv'
  BY LSMNext
<1> QED
  BY <1>1, LSMInit, PTL DEF Spec

\* MaybeAddFile's assertion: the files of a level other than 0 never overlap,
\* whatever is flushed into a level while a compaction is on its way there.
THEOREM LevelsDisjointCorrect ==
    ASSUME PointsOnly
    PROVE  Spec => []LevelsDisjoint
<1>1. LSMInv => LevelsDisjoint
  BY TreeDisjoint DEF LSMInv
<1> QED
  BY <1>1, LSMInvariant, PTL

\* Version::Get may stop at the first level that has the key: of two entries
\* of a key the newer one is nearer.
THEOREM NearerIsNewerCorrect ==
    ASSUME PointsOnly
    PROVE  Spec => []NearerIsNewer
<1>1. LSMInv => NearerIsNewer
  BY TreeNewer DEF LSMInv
<1> QED
  BY <1>1, LSMInvariant, PTL

\* Flushes and compactions, with the entries DoCompactionWork drops, never
\* change what the search of Get and the merge of an iterator find.
THEOREM ReadsNewestCorrect ==
    ASSUME PointsOnly
    PROVE  Spec => []ReadsNewest
<1>1. LSMInv => ReadsNewest
  BY TreeReads DEF LSMInv
<1> QED
  BY <1>1, LSMInvariant, PTL

\* DB::Get, which looks at the memtables and its version without DB::mutex,
\* neither fails nor returns anything but the newest value, unless a flush or
\* a compaction was installed while it ran.
THEOREM QuietGetCorrect ==
    ASSUME PointsOnly
    PROVE  Spec => []QuietGet
<1>1. LSMInv => QuietGet
  BY DEF LSMInv
<1> QED
  BY <1>1, LSMInvariant, PTL
=============================================================================
