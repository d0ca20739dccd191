----------------------------- MODULE StorageProofs -----------------------------
(***************************************************************************)
(* The storage under the database: the memtable, the open tables and the   *)
(* written files.                                                          *)
(*                                                                         *)
(* A reader of the skip list beside one writer, for any number of keys and *)
(* levels.  The invariant describes each level by the set of its nodes:    *)
(* a node points at the next larger one of its level, a level holds only   *)
(* nodes of the level below, and Prev, which the writer computes before it *)
(* links anything, still names the neighbours of its key.                  *)
(*                                                                         *)
(* The cache of open tables, for any number of threads, files and entries: *)
(* as long as no two threads have opened one table, the list holds at most *)
(* one entry of a file, the hash table the entries of the list, and usage  *)
(* the length of the list.                                                 *)
(*                                                                         *)
(* The file layer, for any sizes, limits, threads, databases and           *)
(* processes: its three parts share nothing, and the invariant has a part  *)
(* for each.                                                               *)
(***************************************************************************)
EXTENDS SkipList, TableCache, Env, FiniteSetTheorems, SequenceTheorems, TLAPS

(* The skip list.                                                          *)

Nodes == {head} \cup Keys

Inserting == [pc : {"find", "height", "link"}, key : Keys, x : Nodes, level : Links,
              Prev : [Links -> Nodes], height : 0 .. kMaxHeight]

Searching == [pc : {"idle", "search", "done"}, op : {"new", "Seek", "Prev", "SeekToLast", "Next", "SeekToFirst"},
              key : Nodes \cup {nullnode}, x : Nodes \cup {nullnode}, level : Links, before : SUBSET Keys]

SkipTypeOK ==
    /\ nextnode \in [Nodes -> [Links -> Keys \cup {nullnode, Garbage}]]
    /\ maxheights \in SUBSET (1 .. kMaxHeight) /\ \E h \in maxheights : \A k \in maxheights : h >= k
    /\ finished \in SUBSET Keys
    /\ insert \in Inserting \cup {NoInsert}
    /\ search \in Searching

\* The nodes of a level.
Linked(i) == {n \in Nodes : nextnode[n][i] # Garbage}

\* The head is in every level, and a node points at its successor.
LevelSorted(i) ==
    /\ head \in Linked(i)
    /\ \A n \in Linked(i) : /\ n < nextnode[n][i]
                            /\ nextnode[n][i] \in Linked(i) \cup {nullnode}
                            /\ \A k \in Linked(i) : k <= n \/ nextnode[n][i] <= k

\* A level holds nodes of the levels below, and is empty above the height.
LevelNested(i) ==
    /\ \A j \in Links : j < i => Linked(i) \subseteq Linked(j)
    /\ \A n \in Linked(i) : n = head \/ \E h \in maxheights : i < h

ListInv ==
    /\ \A i \in Links : LevelSorted(i) /\ LevelNested(i)
    /\ finished \subseteq Linked(0)
    /\ \A n \in Linked(0) : n = head \/ n \in finished \/ (insert # NoInsert /\ n = insert.key)

\* The key belongs right behind Prev[i].
Placed(i) ==
    /\ insert.Prev[i] \in Linked(i) /\ insert.Prev[i] < insert.key
    /\ insert.key < nextnode[insert.Prev[i]][i]

InsertInv ==
    insert # NoInsert =>
       /\ insert.key \notin finished
       /\ \A i \in Links : insert.key \in Linked(i) <=> insert.pc = "link" /\ i < insert.level
       /\ insert.pc = "find" => /\ insert.x \in Linked(insert.level) /\ insert.x < insert.key
                                /\ \A i \in Links : i > insert.level => Placed(i)
       /\ insert.pc = "height" => \A i \in Links : Placed(i)
       /\ insert.pc = "link" => /\ insert.level < insert.height
                                /\ \E h \in maxheights : insert.height <= h
                                /\ \A i \in Links : i >= insert.level => Placed(i)

SearchInv ==
    /\ search.before \subseteq finished
    /\ search.pc = "search" => /\ search.x \in Linked(search.level)
                               /\ search.op \in {"Seek", "Prev", "SeekToLast"}
                               /\ search.op \in {"Seek", "Prev"} => search.key \in Keys /\ search.x < search.key
    /\ search.pc = "done" => search.x \in (Linked(0) \ {head}) \cup {nullnode}
    /\ search.pc = "idle" => search.key \in (Linked(0) \ {head}) \cup {nullnode}

SkipInv == ListInv /\ InsertInv /\ SearchInv /\ SearchMissesNothing

-----------------------------------------------------------------------------
LEMMA SkipConstants ==
  /\ MaxKey \in Nat /\ kMaxHeight \in Nat /\ 0 \in Links /\ Links \subseteq Nat
  /\ Nodes \subseteq Nat /\ Keys \subseteq Nodes /\ Keys \subseteq Nat /\ nullnode \in Nat
  /\ head = 0 /\ head \in Nodes /\ Garbage = -1 /\ nullnode \notin Nodes /\ 0 < nullnode
  /\ \A k \in Keys : 0 < k /\ k < nullnode
  BY SkipListAssumption DEF Links, Nodes, Keys, nullnode, head, Garbage

\* maxheight is the largest value that it has had.
LEMMA TopHeight ==
  ASSUME SkipTypeOK
  PROVE  Max(maxheights) \in maxheights /\ \A h \in maxheights : h <= Max(maxheights)
  BY SkipConstants DEF Max, SkipTypeOK

LEMMA LevelBelow == \A l \in Links : Max({0, l - 1}) = IF l = 0 THEN 0 ELSE l - 1
  BY SkipConstants DEF Max

LEMMA InsertingHasPc == insert \in Inserting => insert # NoInsert /\ insert.pc \in {"find", "height", "link"}
<1> SUFFICES ASSUME insert \in Inserting PROVE insert # NoInsert /\ insert.pc \in {"find", "height", "link"}
  OBVIOUS
<1>1. insert.pc \in {"find", "height", "link"}
  BY DEF Inserting
<1>2. NoInsert.pc = "none"
  BY DEF NoInsert
<1> QED
  BY <1>1, <1>2

LEMMA SkipTypeInit == SkipInit => SkipTypeOK
<1> SUFFICES ASSUME SkipInit PROVE SkipTypeOK
  OBVIOUS
<1>1. nextnode \in [Nodes -> [Links -> Keys \cup {nullnode, Garbage}]]
  BY DEF SkipInit, Nodes
<1>2. /\ maxheights \in SUBSET (1 .. kMaxHeight)
      /\ \E h \in maxheights : \A k \in maxheights : h >= k
  <2>1. maxheights = {1} /\ 1 \in 1 .. kMaxHeight /\ 1 >= 1
    BY SkipListAssumption DEF SkipInit
  <2> QED
    BY <2>1
<1>3. search \in Searching
  BY SkipConstants DEF SkipInit, Searching
<1> QED
  BY <1>1, <1>2, <1>3 DEF SkipInit, SkipTypeOK

LEMMA SkipInvInit == SkipInit => SkipInv
<1> SUFFICES ASSUME SkipInit PROVE SkipInv
  OBVIOUS
<1>1. ASSUME NEW i \in Links PROVE Linked(i) = {head} /\ nextnode[head][i] = nullnode
  BY SkipConstants DEF SkipInit, Linked, Nodes
<1>2. ListInv
  <2>1. ASSUME NEW i \in Links PROVE LevelSorted(i)
    BY <1>1, SkipConstants DEF LevelSorted
  <2>2. ASSUME NEW i \in Links PROVE LevelNested(i)
    BY <1>1 DEF LevelNested
  <2> QED
    BY <1>1, <2>1, <2>2, SkipConstants DEF ListInv, SkipInit
<1>3. InsertInv
  BY DEF InsertInv, SkipInit
<1>4. SearchInv /\ SearchMissesNothing
  BY SkipConstants DEF SearchInv, SearchMissesNothing, SkipInit
<1> QED
  BY <1>2, <1>3, <1>4 DEF SkipInv

-----------------------------------------------------------------------------
(* Steps of the reader.                                                    *)

LEMMA ReaderLeavesList ==
  ASSUME SkipTypeOK, SkipInv, UNCHANGED <<nextnode, maxheights, insert, finished>>
  PROVE  ListInv' /\ InsertInv' /\ \A i \in Links : Linked(i)' = Linked(i)
<1>1. ASSUME NEW i \in Links PROVE Linked(i)' = Linked(i)
  BY DEF Linked
<1>2. ASSUME NEW i \in Links PROVE (LevelSorted(i) => LevelSorted(i)') /\ (LevelNested(i) => LevelNested(i)')
  BY DEF LevelSorted, LevelNested, Linked
<1>3. ASSUME NEW i \in Links PROVE Placed(i)' <=> Placed(i)
  BY <1>1 DEF Placed
<1>4. ListInv'
  BY <1>1, <1>2, SkipConstants DEF SkipInv, ListInv
<1>5. InsertInv'
  BY <1>1, <1>3, InsertingHasPc DEF SkipInv, InsertInv, SkipTypeOK, Inserting
<1> QED
  BY <1>1, <1>4, <1>5

\* A node that a link of level 0 leads to.
LEMMA SuccessorIs ==
  ASSUME SkipTypeOK, SkipInv, NEW i \in Links, NEW x \in Linked(i)
  PROVE  /\ nextnode[x][i] \in (Linked(i) \ {head}) \cup {nullnode}
         /\ nextnode[x][i] \in Nodes \cup {nullnode} /\ nextnode[x][i] \in Nat /\ x < nextnode[x][i] /\ x \in Nodes /\ x \in Nat
         /\ \A k \in Linked(i) : k <= x \/ nextnode[x][i] <= k
<1>1. x \in Nodes /\ x \in Nat
  BY SkipConstants DEF Linked
<1>2. LevelSorted(i)
  BY DEF SkipInv, ListInv
<1>3. /\ x < nextnode[x][i] /\ nextnode[x][i] \in Linked(i) \cup {nullnode}
      /\ \A k \in Linked(i) : k <= x \/ nextnode[x][i] <= k
  BY <1>2 DEF LevelSorted
<1>4. nextnode[x][i] \in Nodes \cup {nullnode} /\ nextnode[x][i] \in Nat
  BY <1>3, SkipConstants DEF Linked
<1>5. nextnode[x][i] # head
  BY <1>1, <1>3, SkipConstants
<1> QED
  BY <1>1, <1>3, <1>4, <1>5

\* A search that is over has found a node of the list.
LEMMA FoundIsListed ==
  ASSUME SkipInv, NEW n \in Linked(0) \ {head}
  PROVE  n \in finished \/ (insert # NoInsert /\ n = insert.key)
  BY DEF SkipInv, ListInv

LEMMA StartSearchStep ==
  ASSUME SkipTypeOK, SkipInv, NEW op \in {"Seek", "Prev", "SeekToLast"}, NEW key \in Keys \cup {nullnode},
         NEW h \in maxheights, StartSearch(op, key, h), op # "SeekToLast" => key \in Keys
  PROVE  SkipTypeOK' /\ SkipInv'
<1>1. ListInv' /\ InsertInv' /\ \A i \in Links : Linked(i)' = Linked(i)
  BY ReaderLeavesList DEF StartSearch
<1>2. h - 1 \in Links
  BY SkipConstants DEF SkipTypeOK, Links
<1>3. SkipTypeOK'
  <2>1. search' \in Searching
    BY <1>2, SkipConstants DEF StartSearch, SkipTypeOK, Searching
  <2> QED
    BY <2>1 DEF StartSearch, SkipTypeOK
<1>4. head \in Linked(h - 1)
  BY <1>2 DEF SkipInv, ListInv, LevelSorted
<1>5. search' = [pc |-> "search", op |-> op, key |-> key, x |-> head, level |-> h - 1, before |-> finished]
  BY DEF StartSearch
<1>6. /\ search'.pc = "search" /\ search'.op = op /\ search'.key = key /\ search'.x = head
      /\ search'.level = h - 1 /\ search'.before = finished
  BY <1>5
<1>7. head \in Linked(h - 1)' /\ finished' = finished
  BY <1>1, <1>2, <1>4 DEF StartSearch
<1>8. op \in {"Seek", "Prev"} => key \in Keys /\ head < key
  BY SkipConstants
<1>9. SearchInv'
  BY <1>6, <1>7, <1>8 DEF SearchInv
<1>10. SearchMissesNothing'
  BY <1>6, SkipConstants DEF SearchMissesNothing
<1> QED
  BY <1>1, <1>3, <1>9, <1>10 DEF SkipInv

LEMMA LoadStep ==
  ASSUME SkipTypeOK, SkipInv, NEW op \in {"SeekToFirst", "Next"}, Load(op)
  PROVE  SkipTypeOK' /\ SkipInv'
<1> DEFINE from == IF op = "Next" THEN search.key ELSE head
<1>1. ListInv' /\ InsertInv' /\ \A i \in Links : Linked(i)' = Linked(i)
  BY ReaderLeavesList DEF Load
<1>2. from \in Linked(0) /\ 0 \in Links
  <2>1. head \in Linked(0)
    BY SkipConstants DEF SkipInv, ListInv, LevelSorted
  <2>2. CASE op = "Next"
    <3>1. search.key \in (Linked(0) \ {head}) \cup {nullnode} /\ search.key # nullnode
      BY <2>2 DEF Load, SkipInv, SearchInv
    <3> QED
      BY <2>2, <3>1, SkipConstants
  <2> QED
    BY <2>1, <2>2, SkipConstants
<1> DEFINE n == nextnode[from][0]
<1>3. /\ n \in (Linked(0) \ {head}) \cup {nullnode} /\ n \in Nodes \cup {nullnode} /\ n \in Nat /\ from < n
      /\ from \in Nodes /\ from \in Nat
      /\ \A k \in Linked(0) : k <= from \/ n <= k
  BY <1>2, SuccessorIs
<1>4. search' = [pc |-> "done", op |-> op, key |-> from, x |-> n, level |-> 0, before |-> finished]
  BY DEF Load
<1>5. UNCHANGED <<nextnode, maxheights, insert, finished>>
  BY DEF Load
<1> HIDE DEF from, n
<1>6. SkipTypeOK'
  <2>1. search' \in Searching
    BY <1>2, <1>3, <1>4 DEF SkipTypeOK, Searching
  <2> QED
    BY <1>5, <2>1 DEF SkipTypeOK
<1>7. SearchInv'
  BY <1>1, <1>2, <1>3, <1>4, <1>5 DEF SearchInv
<1>8. finished \subseteq Linked(0) /\ finished \subseteq Keys
  BY DEF SkipInv, ListInv, SkipTypeOK
<1>9. SearchMissesNothing'
  <2>1. \A k : Wanted(k)' <=> k > from
    BY <1>4 DEF Wanted
  <2>2. \A k \in {j \in finished : j > from} : n <= k
    BY <1>3, <1>8, SkipConstants
  <2>3. n = nullnode => {j \in finished : j > from} = {}
    <3>1. \A k \in finished : k \in Nat /\ k < nullnode /\ nullnode \in Nat
      BY <1>8, SkipConstants
    <3> QED
      BY <2>2, <3>1
  <2>4. n # nullnode => n \in finished \/ (insert # NoInsert /\ n = insert.key)
    BY <1>3, FoundIsListed
  <2>5. n # Garbage
    BY <1>3, SkipConstants
  <2> QED
    BY <1>3, <1>4, <1>5, <2>1, <2>2, <2>3, <2>4, <2>5, SkipConstants DEF SearchMissesNothing
<1> QED
  BY <1>1, <1>6, <1>7, <1>9 DEF SkipInv

LEMMA SearchStepStep ==
  ASSUME SkipTypeOK, SkipInv, SearchStep
  PROVE  SkipTypeOK' /\ SkipInv'
<1>n. PICK n : n = nextnode[search.x][search.level]
  OBVIOUS
<1>r. PICK result : result = IF search.op = "Seek" THEN n ELSE IF search.x = head THEN nullnode ELSE search.x
  OBVIOUS
<1>l. PICK l : l = search.level
  OBVIOUS
<1>1. ListInv' /\ InsertInv' /\ \A i \in Links : Linked(i)' = Linked(i)
  BY ReaderLeavesList DEF SearchStep
<1>2. UNCHANGED <<nextnode, maxheights, insert, finished>>
  BY DEF SearchStep
<1>3. /\ search.pc = "search" /\ search.level = l /\ l \in Links /\ search.x \in Linked(l)
      /\ search.op \in {"Seek", "Prev", "SeekToLast"}
      /\ search.op \in {"Seek", "Prev"} => search.key \in Keys /\ search.x < search.key
      /\ search.before \subseteq finished
  BY <1>l DEF SearchStep, SkipInv, SearchInv, SkipTypeOK, Searching
<1>4. /\ n \in (Linked(l) \ {head}) \cup {nullnode} /\ n \in Nodes \cup {nullnode} /\ n \in Nat
      /\ search.x < n /\ search.x \in Nodes /\ search.x \in Nat
      /\ \A k \in Linked(l) : k <= search.x \/ n <= k
  BY <1>3, <1>n, <1>l, SuccessorIs
<1>5. finished \subseteq Linked(0) /\ finished \subseteq Keys
  BY DEF SkipInv, ListInv, SkipTypeOK
<1>6. search' = IF GoesOn(n) THEN [search EXCEPT !.x = n]
                ELSE IF l > 0 THEN [search EXCEPT !.level = l - 1]
                ELSE [search EXCEPT !.pc = "done", !.x = result]
  BY <1>n, <1>r, <1>l DEF SearchStep
<1>7. CASE GoesOn(n)
  <2>1. search' = [search EXCEPT !.x = n]
    BY <1>6, <1>7
  <2>2. search' \in Searching
    BY <1>4, <2>1 DEF SkipTypeOK, Searching
  <2>3. /\ search'.pc = search.pc /\ search'.op = search.op /\ search'.key = search.key /\ search'.x = n
        /\ search'.level = l /\ search'.before = search.before
    BY <1>3, <2>1 DEF SkipTypeOK, Searching
  <2>4. n # nullnode /\ (search.op \in {"Seek", "Prev"} => n < search.key)
    BY <1>7 DEF GoesOn, KeyIsAfterNode
  <2>5. n \in Linked(l)'
    BY <1>1, <1>3, <1>4, <2>4
  <2>6. SearchInv'
    BY <1>2, <1>3, <2>3, <2>4, <2>5 DEF SearchInv
  <2>7. SearchMissesNothing'
    BY <1>3, <1>4, <2>3, SkipConstants DEF SearchMissesNothing
  <2> QED
    BY <1>1, <1>2, <2>2, <2>6, <2>7 DEF SkipTypeOK, SkipInv
<1>8. CASE ~ GoesOn(n) /\ l > 0
  <2>1. search' = [search EXCEPT !.level = l - 1]
    BY <1>6, <1>8
  <2>2. l - 1 \in Links
    BY <1>3, <1>8, SkipConstants DEF Links
  <2>3. search' \in Searching
    BY <2>1, <2>2 DEF SkipTypeOK, Searching
  <2>4. /\ search'.pc = search.pc /\ search'.op = search.op /\ search'.key = search.key /\ search'.x = search.x
        /\ search'.level = l - 1 /\ search'.before = search.before
    BY <2>1 DEF SkipTypeOK, Searching
  <2>5. search.x \in Linked(l - 1)'
    <3>1. LevelNested(l)
      BY <1>3 DEF SkipInv, ListInv
    <3> QED
      BY <1>1, <1>3, <1>8, <2>2, <3>1, SkipConstants DEF LevelNested
  <2>6. SearchInv'
    BY <1>2, <1>3, <2>4, <2>5 DEF SearchInv
  <2>7. SearchMissesNothing'
    BY <1>3, <1>4, <2>4, SkipConstants DEF SearchMissesNothing
  <2> QED
    BY <1>1, <1>2, <2>3, <2>6, <2>7 DEF SkipTypeOK, SkipInv
<1>9. CASE ~ GoesOn(n) /\ ~ (l > 0)
  <2>1. search' = [search EXCEPT !.pc = "done", !.x = result]
    BY <1>6, <1>9
  <2>2. l = 0
    BY <1>3, <1>9, SkipConstants
  <2>3. result \in (Linked(0) \ {head}) \cup {nullnode} /\ result \in Nodes \cup {nullnode}
    BY <1>3, <1>4, <1>r, <2>2, SkipConstants
  <2>4. search' \in Searching
    BY <2>1, <2>3 DEF SkipTypeOK, Searching
  <2>5. /\ search'.pc = "done" /\ search'.op = search.op /\ search'.key = search.key /\ search'.x = result
        /\ search'.level = l /\ search'.before = search.before
    BY <1>3, <2>1 DEF SkipTypeOK, Searching
  <2>6. SearchInv'
    BY <1>1, <1>2, <1>3, <2>3, <2>5, SkipConstants DEF SearchInv
  <2>7. n = nullnode \/ (search.op \in {"Seek", "Prev"} /\ search.key <= n)
    <3>1. n = nullnode \/ (search.op # "SeekToLast" /\ ~ (n < search.key))
      BY <1>9 DEF GoesOn, KeyIsAfterNode
    <3>2. search.op # "SeekToLast" => search.op \in {"Seek", "Prev"} /\ search.key \in Nat
      BY <1>3, SkipConstants
    <3> QED
      BY <1>4, <3>1, <3>2
  <2>8. \A k \in search'.before : /\ k \in Nat /\ 0 < k /\ k < nullnode
                                  /\ k <= search.x \/ n <= k
    BY <1>3, <1>4, <1>5, <2>2, <2>5, SkipConstants
  <2>9. result # nullnode => result \in finished \/ (insert # NoInsert /\ result = insert.key)
    BY <2>3, FoundIsListed
  <2>10. result # Garbage
    BY <2>3, SkipConstants
  <2> DEFINE wanted == {k \in search'.before : Wanted(k)'}
  <2>11. ASSUME search.op = "Seek" PROVE SearchMissesNothing'
    <3>1. \A k : Wanted(k)' <=> k >= search.key
      BY <2>5, <2>11 DEF Wanted
    <3>2. result = n /\ search.x < search.key /\ search.key \in Nat
      BY <1>3, <1>r, <2>11, SkipConstants
    <3>3. \A k \in wanted : n <= k
      BY <1>4, <2>8, <3>1, <3>2
    <3>4. n = nullnode => wanted = {}
      BY <2>8, <3>3, SkipConstants
    <3>5. n # nullnode => Wanted(search.x)'
      BY <1>4, <2>5, <2>7, <2>11, <3>2 DEF Wanted
    <3> QED
      BY <1>2, <2>5, <2>9, <2>10, <2>11, <3>2, <3>3, <3>4, <3>5 DEF SearchMissesNothing
  <2>12. ASSUME search.op \in {"Prev", "SeekToLast"} PROVE SearchMissesNothing'
    <3>1. result = IF search.x = head THEN nullnode ELSE search.x
      BY <1>r, <2>12
    <3>2. \A k \in wanted : k <= search.x
      <4>1. ASSUME NEW k \in wanted PROVE k <= search.x
        <5>1. CASE search.op = "Prev"
          <6>1. k < search.key /\ search.key \in Nat /\ search.key < nullnode
            BY <1>3, <2>5, <4>1, <5>1, SkipConstants DEF Wanted
          <6> QED
            BY <1>4, <2>7, <2>8, <4>1, <6>1, SkipConstants
        <5>2. CASE search.op = "SeekToLast"
          BY <1>4, <2>7, <2>8, <4>1, <5>2, SkipConstants
        <5> QED
          BY <2>12, <5>1, <5>2
      <4> QED
        BY <4>1
    <3>3. result = nullnode => wanted = {}
      BY <1>4, <2>8, <3>1, <3>2, SkipConstants
    <3>4. result # nullnode => Wanted(search.x)'
      BY <1>3, <2>5, <2>12, <3>1 DEF Wanted
    <3>5. result # nullnode => \A k \in wanted : k <= result
      BY <3>1, <3>2
    <3> QED
      BY <1>2, <2>5, <2>9, <2>10, <2>12, <3>3, <3>4, <3>5 DEF SearchMissesNothing
  <2> QED
    BY <1>1, <1>2, <1>3, <2>4, <2>6, <2>11, <2>12 DEF SkipTypeOK, SkipInv
<1> QED
  BY <1>7, <1>8, <1>9

LEMMA ReturnNodeStep ==
  ASSUME SkipTypeOK, SkipInv, ReturnNode
  PROVE  SkipTypeOK' /\ SkipInv'
<1>1. ListInv' /\ InsertInv' /\ \A i \in Links : Linked(i)' = Linked(i)
  BY ReaderLeavesList DEF ReturnNode
<1>2. search' = [search EXCEPT !.pc = "idle", !.key = search.x, !.before = {}]
  BY DEF ReturnNode
<1>3. search' \in Searching
  BY <1>2 DEF SkipTypeOK, Searching
<1>4. search'.pc = "idle" /\ search'.key = search.x /\ search'.x = search.x /\ search'.before = {}
  BY <1>2 DEF SkipTypeOK, Searching
<1>5. search.x \in (Linked(0) \ {head}) \cup {nullnode}
  BY DEF ReturnNode, SkipInv, SearchInv
<1>6. SearchInv'
  BY <1>1, <1>4, <1>5, SkipConstants DEF SearchInv
<1>7. SearchMissesNothing'
  BY <1>4 DEF SearchMissesNothing, SkipInv
<1> QED
  BY <1>1, <1>3, <1>6, <1>7 DEF SkipTypeOK, SkipInv, ReturnNode

-----------------------------------------------------------------------------
(* Steps of the writer.                                                    *)

\* The list only grows under a reader.
LEMMA SearchKept ==
  ASSUME SkipTypeOK, SkipInv, UNCHANGED search, finished \subseteq finished',
         \A i \in Links : Linked(i) \subseteq Linked(i)',
         \A n \in Keys : n \in finished \/ (insert # NoInsert /\ n = insert.key)
                         => n \in finished' \/ (insert' # NoInsert /\ n = insert'.key)
  PROVE  SearchInv' /\ SearchMissesNothing'
<1>l. PICK l \in Links : l = search.level
  BY DEF SkipTypeOK, Searching
<1>1. SearchInv'
  <2>1. search.x \in Linked(l) => search.x \in Linked(l)'
    OBVIOUS
  <2>2. \A n \in Linked(0) : n \in Linked(0)'
    BY SkipConstants
  <2> QED
    BY <1>l, <2>1, <2>2 DEF SkipInv, SearchInv
<1>2. search.pc = "done" /\ search.x # nullnode => search.x \in Keys
  BY SkipConstants DEF SkipInv, SearchInv, Linked, Nodes
<1>3. SearchMissesNothing'
  <2>1. SearchMissesNothing
    BY DEF SkipInv
  <2> QED
    BY <1>2, <2>1 DEF SearchMissesNothing, Wanted
<1> QED
  BY <1>1, <1>3

\* A level above the height of the list is empty.
LEMMA EmptyLevel ==
  ASSUME SkipTypeOK, SkipInv, NEW i \in Links, \A h \in maxheights : h <= i
  PROVE  head \in Linked(i) /\ nextnode[head][i] = nullnode
<1>1. LevelSorted(i) /\ LevelNested(i)
  BY DEF SkipInv, ListInv
<1>2. ASSUME NEW h \in maxheights PROVE ~ (i < h)
  BY SkipConstants DEF SkipTypeOK
<1>3. Linked(i) = {head}
  BY <1>1, <1>2 DEF LevelSorted, LevelNested
<1> QED
  BY <1>1, <1>3, SuccessorIs

\* The list does not change.
LEMMA SameList ==
  ASSUME SkipTypeOK, SkipInv, UNCHANGED <<nextnode, maxheights, finished>>,
         insert # NoInsert => insert' # NoInsert /\ insert'.key = insert.key
  PROVE  ListInv' /\ \A i \in Links : Linked(i)' = Linked(i)
<1>1. ASSUME NEW i \in Links PROVE Linked(i)' = Linked(i)
  BY DEF Linked
<1>2. ASSUME NEW i \in Links PROVE (LevelSorted(i) => LevelSorted(i)') /\ (LevelNested(i) => LevelNested(i)')
  BY DEF LevelSorted, LevelNested, Linked
<1> QED
  BY <1>1, <1>2, SkipConstants DEF SkipInv, ListInv

LEMMA StartInsertStep ==
  ASSUME SkipTypeOK, SkipInv, NEW key \in Keys, StartInsert(key)
  PROVE  SkipTypeOK' /\ SkipInv'
<1>m. PICK top : top = Max(maxheights)
  OBVIOUS
<1>1. top \in maxheights /\ (\A h \in maxheights : h <= top) /\ top - 1 \in Links
  <2>1. top \in maxheights /\ \A h \in maxheights : h <= top
    BY <1>m, TopHeight
  <2>2. top \in 1 .. kMaxHeight
    BY <2>1 DEF SkipTypeOK
  <2> QED
    BY <2>1, <2>2, SkipConstants DEF Links
<1>2. insert = NoInsert /\ key \notin finished /\ UNCHANGED <<nextnode, maxheights, finished, search>>
  BY DEF StartInsert
<1>3. insert' = [pc |-> "find", key |-> key, x |-> head, level |-> top - 1, Prev |-> [i \in Links |-> head], height |-> 0]
  BY <1>m DEF StartInsert
<1>4. insert' \in Inserting
  BY <1>1, <1>3, SkipConstants DEF Inserting
<1>5. /\ insert'.pc = "find" /\ insert'.key = key /\ insert'.x = head /\ insert'.level = top - 1
      /\ \A i \in Links : insert'.Prev[i] = head
  BY <1>3
<1>6. ListInv' /\ \A i \in Links : Linked(i)' = Linked(i)
  BY <1>2, SameList
<1>7. InsertInv'
  <2>1. \A i \in Links : key \notin Linked(i)
    <3>1. key \notin Linked(0)
      BY <1>2, SkipConstants DEF SkipInv, ListInv
    <3>2. ASSUME NEW i \in Links, key \in Linked(i) PROVE FALSE
      BY <3>1, <3>2, SkipConstants DEF SkipInv, ListInv, LevelNested
    <3> QED
      BY <3>2
  <2>2. head \in Linked(top - 1)' /\ head < key
    BY <1>1, <1>6, SkipConstants DEF SkipInv, ListInv, LevelSorted
  <2>3. ASSUME NEW i \in Links, i > top - 1 PROVE Placed(i)'
    <3>1. \A h \in maxheights : h <= i
      <4>1. ASSUME NEW h \in maxheights PROVE h <= i
        <5>1. h \in Nat /\ top \in Nat /\ i \in Nat /\ h <= top
          BY <1>1, SkipConstants DEF SkipTypeOK
        <5> QED
          BY <2>3, <5>1
      <4> QED
        BY <4>1
    <3>2. head \in Linked(i) /\ nextnode[head][i] = nullnode
      BY <3>1, EmptyLevel
    <3> QED
      BY <1>2, <1>5, <1>6, <3>2, SkipConstants DEF Placed
  <2> QED
    BY <1>2, <1>5, <1>6, <2>1, <2>2, <2>3 DEF InsertInv
<1>8. SearchInv' /\ SearchMissesNothing'
  BY <1>2, <1>6, SearchKept
<1> QED
  BY <1>2, <1>4, <1>6, <1>7, <1>8 DEF SkipTypeOK, SkipInv

LEMMA FindPrevStep ==
  ASSUME SkipTypeOK, SkipInv, FindPrev
  PROVE  SkipTypeOK' /\ SkipInv'
<1>l. PICK l : l = insert.level
  OBVIOUS
<1>x. PICK x : x = insert.x
  OBVIOUS
<1>n. PICK n : n = nextnode[x][l]
  OBVIOUS
<1>1. insert.pc = "find" /\ UNCHANGED <<nextnode, maxheights, finished, search>>
  BY DEF FindPrev
<1>2. insert # NoInsert /\ insert \in Inserting
  BY <1>1 DEF NoInsert, SkipTypeOK
<1>3. PICK key \in Keys : key = insert.key
  BY <1>2 DEF Inserting
<1>4. l \in Links /\ x \in Linked(l) /\ x < key
  BY <1>1, <1>2, <1>3, <1>l, <1>x DEF SkipInv, InsertInv, Inserting
<1>5. /\ n \in (Linked(l) \ {head}) \cup {nullnode} /\ n \in Nodes \cup {nullnode} /\ n \in Nat
      /\ x < n /\ x \in Nodes /\ x \in Nat
  BY <1>4, <1>n, SuccessorIs
<1>6. insert' = IF n < key THEN [insert EXCEPT !.x = n]
                ELSE [insert EXCEPT !.Prev[l] = x, !.pc = IF l = 0 THEN "height" ELSE "find",
                                    !.level = IF l = 0 THEN 0 ELSE l - 1]
  BY <1>3, <1>4, <1>l, <1>x, <1>n, LevelBelow DEF FindPrev, KeyIsAfterNode
<1>7. \A i \in Links : key \notin Linked(i)
  BY <1>1, <1>2, <1>3 DEF SkipInv, InsertInv
<1>8. key \notin finished /\ \A i \in Links : i > l => Placed(i)
  BY <1>1, <1>2, <1>3, <1>l DEF SkipInv, InsertInv
<1>9. CASE n < key
  <2>1. insert' = [insert EXCEPT !.x = n]
    BY <1>6, <1>9
  <2>2. n \in Linked(l) /\ n \in Nodes
    BY <1>3, <1>5, <1>9, SkipConstants
  <2>3. insert' \in Inserting
    BY <1>2, <2>1, <2>2 DEF Inserting
  <2>4. /\ insert'.pc = "find" /\ insert'.key = key /\ insert'.x = n /\ insert'.level = l
        /\ insert'.Prev = insert.Prev
    BY <1>1, <1>2, <1>3, <1>l, <2>1 DEF Inserting
  <2>5. insert' # NoInsert
    BY <2>4 DEF NoInsert
  <2>6. ListInv' /\ \A i \in Links : Linked(i)' = Linked(i)
    BY <1>1, <1>3, <2>4, <2>5, SameList
  <2>7. InsertInv'
    <3>1. ASSUME NEW i \in Links, i > l PROVE Placed(i)'
      BY <1>1, <1>3, <1>8, <2>4, <2>6, <3>1 DEF Placed
    <3>2. n \in Linked(l)'
      BY <1>4, <2>2, <2>6
    <3> QED
      BY <1>1, <1>7, <1>8, <1>9, <2>4, <2>6, <3>1, <3>2 DEF InsertInv
  <2>8. SearchInv' /\ SearchMissesNothing'
    BY <1>1, <1>3, <2>4, <2>5, <2>6, SearchKept
  <2> QED
    BY <1>1, <2>3, <2>6, <2>7, <2>8 DEF SkipTypeOK, SkipInv
<1>10. CASE ~ (n < key)
  <2> DEFINE pc == IF l = 0 THEN "height" ELSE "find"
             level == IF l = 0 THEN 0 ELSE l - 1
  <2>1. insert' = [insert EXCEPT !.Prev[l] = x, !.pc = pc, !.level = level]
    BY <1>6, <1>10
  <2>2. level \in Links /\ pc \in {"find", "height"} /\ l \in Nat
    BY <1>4, SkipConstants DEF Links
  <2>3. insert' \in Inserting
    <3>1. [insert.Prev EXCEPT ![l] = x] \in [Links -> Nodes]
      BY <1>2, <1>4, <1>5 DEF Inserting
    <3> HIDE DEF pc, level
    <3> QED
      BY <1>2, <2>1, <2>2, <3>1 DEF Inserting
  <2>4. /\ insert'.pc = pc /\ insert'.key = key /\ insert'.level = level
        /\ insert'.Prev = [insert.Prev EXCEPT ![l] = x]
    BY <1>2, <1>3, <2>1 DEF Inserting
  <2>x. insert'.x = x
    BY <1>2, <1>x, <2>1 DEF Inserting
  <2>5. insert' # NoInsert
    BY <2>4 DEF NoInsert
  <2>6. ListInv' /\ \A i \in Links : Linked(i)' = Linked(i)
    BY <1>1, <1>3, <2>4, <2>5, SameList
  <2>7. n > key /\ n \in Nat /\ key \in Nat
    BY <1>3, <1>4, <1>5, <1>7, <1>10, SkipConstants
  <2>8. ASSUME NEW i \in Links, i >= l PROVE Placed(i)'
    <3>1. insert.Prev \in [Links -> Nodes]
      BY <1>2 DEF Inserting
    <3>2. CASE i = l
      <4>1. insert'.Prev[i] = x
        BY <1>4, <2>4, <3>1, <3>2
      <4> QED
        BY <1>1, <1>4, <1>n, <2>4, <2>6, <2>7, <3>2, <4>1 DEF Placed
    <3>3. CASE i # l
      <4>1. insert'.Prev[i] = insert.Prev[i] /\ i > l
        BY <1>4, <2>4, <2>8, <3>1, <3>3, SkipConstants
      <4> QED
        BY <1>1, <1>3, <1>8, <2>4, <2>6, <4>1 DEF Placed
    <3> QED
      BY <3>2, <3>3
  <2>9. InsertInv'
    <3>1. CASE l = 0
      <4>1. insert'.pc = "height"
        BY <2>4, <3>1
      <4>2. \A i \in Links : Placed(i)'
        BY <2>8, <3>1, SkipConstants
      <4> QED
        BY <1>1, <1>7, <1>8, <2>4, <2>6, <4>1, <4>2 DEF InsertInv
    <3>2. CASE l # 0
      <4>1. insert'.pc = "find" /\ insert'.level = l - 1 /\ l - 1 \in Links
        BY <2>2, <2>4, <3>2
      <4>2. x \in Linked(l - 1)'
        BY <1>4, <2>2, <2>6, <4>1, SkipConstants DEF SkipInv, ListInv, LevelNested
      <4>3. ASSUME NEW i \in Links, i > l - 1 PROVE Placed(i)'
        BY <2>2, <2>8, <4>3, SkipConstants
      <4> QED
        BY <1>1, <1>4, <1>7, <1>8, <2>4, <2>x, <2>6, <4>1, <4>2, <4>3 DEF InsertInv
    <3> QED
      BY <3>1, <3>2
  <2>10. SearchInv' /\ SearchMissesNothing'
    BY <1>1, <1>3, <2>4, <2>5, <2>6, SearchKept
  <2> QED
    BY <1>1, <2>3, <2>6, <2>9, <2>10 DEF SkipTypeOK, SkipInv
<1> QED
  BY <1>9, <1>10

LEMMA RaiseHeightStep ==
  ASSUME SkipTypeOK, SkipInv, NEW height \in 1 .. kMaxHeight, RaiseHeight(height)
  PROVE  SkipTypeOK' /\ SkipInv'
<1>m. PICK top : top = Max(maxheights)
  OBVIOUS
<1>1. top \in maxheights /\ (\A h \in maxheights : h <= top) /\ top \in Nat /\ height \in Nat /\ 0 < height
  <2>1. top \in maxheights /\ \A h \in maxheights : h <= top
    BY <1>m, TopHeight
  <2>2. top \in 1 .. kMaxHeight
    BY <2>1 DEF SkipTypeOK
  <2> QED
    BY <2>1, <2>2, SkipConstants
<1>2. /\ insert.pc = "height" /\ UNCHANGED <<nextnode, finished, search>>
      /\ maxheights' = IF height > top THEN maxheights \cup {height} ELSE maxheights
      /\ insert' = [insert EXCEPT !.pc = "link", !.level = 0, !.height = height]
  BY <1>m DEF RaiseHeight
<1>3. insert # NoInsert /\ insert \in Inserting
  BY <1>2 DEF NoInsert, SkipTypeOK
<1>4. insert' \in Inserting
  <2>1. height \in 0 .. kMaxHeight
    BY SkipConstants
  <2> QED
    BY <1>2, <1>3, <2>1, SkipConstants DEF Inserting
<1>5. /\ insert'.pc = "link" /\ insert'.key = insert.key /\ insert'.level = 0 /\ insert'.height = height
      /\ insert'.Prev = insert.Prev
  BY <1>2, <1>3 DEF Inserting
<1>6. insert' # NoInsert
  BY <1>5 DEF NoInsert
<1>7. /\ maxheights \subseteq maxheights' /\ maxheights' \in SUBSET (1 .. kMaxHeight)
      /\ \E h \in maxheights' : height <= h
      /\ \E h \in maxheights' : \A k \in maxheights' : h >= k
  <2>0. maxheights \in SUBSET (1 .. kMaxHeight)
    BY DEF SkipTypeOK
  <2>1. CASE height > top
    <3>1. maxheights' = maxheights \cup {height}
      BY <1>2, <2>1
    <3>2. \A k \in maxheights : k \in Nat /\ height >= k
      BY <1>1, <2>0, <2>1
    <3> QED
      BY <1>1, <2>0, <3>1, <3>2
  <2>2. CASE ~ (height > top)
    <3>1. maxheights' = maxheights
      BY <1>2, <2>2
    <3>2. \A k \in maxheights : k \in Nat /\ top >= k
      BY <1>1, <2>0
    <3> QED
      BY <1>1, <2>0, <2>2, <3>1, <3>2
  <2> QED
    BY <2>1, <2>2
<1>8. ASSUME NEW i \in Links PROVE Linked(i)' = Linked(i)
  BY <1>2 DEF Linked
<1>9. ListInv'
  <2>1. ASSUME NEW i \in Links PROVE LevelSorted(i)'
    BY <1>2, <1>8 DEF SkipInv, ListInv, LevelSorted
  <2>2. ASSUME NEW i \in Links PROVE LevelNested(i)'
    BY <1>7, <1>8 DEF SkipInv, ListInv, LevelNested
  <2> QED
    BY <1>2, <1>3, <1>5, <1>6, <1>8, <2>1, <2>2, SkipConstants DEF SkipInv, ListInv
<1>10. InsertInv'
  <2>1. ASSUME NEW i \in Links PROVE Placed(i)' /\ insert.key \notin Linked(i)
    <3>1. Placed(i) /\ insert.key \notin Linked(i)
      BY <1>2, <1>3 DEF SkipInv, InsertInv
    <3> QED
      BY <1>2, <1>5, <1>8, <3>1 DEF Placed
  <2>2. insert.key \notin finished
    BY <1>3 DEF SkipInv, InsertInv
  <2>3. \A i \in Links : ~ (i < 0)
    BY SkipConstants
  <2> QED
    BY <1>1, <1>2, <1>5, <1>7, <1>8, <2>1, <2>2, <2>3 DEF InsertInv
<1>11. SearchInv' /\ SearchMissesNothing'
  BY <1>2, <1>5, <1>6, <1>8, SearchKept
<1> QED
  BY <1>2, <1>4, <1>7, <1>9, <1>10, <1>11 DEF SkipTypeOK, SkipInv

LEMMA LinkLevelStep ==
  ASSUME SkipTypeOK, SkipInv, LinkLevel
  PROVE  SkipTypeOK' /\ SkipInv'
<1>1. insert.pc = "link" /\ insert # NoInsert /\ insert \in Inserting
  BY DEF LinkLevel, NoInsert, SkipTypeOK
<1>2. PICK key \in Keys, l \in Links, height \in 0 .. kMaxHeight, P \in [Links -> Nodes] :
         key = insert.key /\ l = insert.level /\ height = insert.height /\ P = insert.Prev
  BY <1>1 DEF Inserting
<1>3. PICK prev \in Nodes : prev = P[l]
  BY <1>2
<1>4. /\ nextnode' = [nextnode EXCEPT ![key][l] = nextnode[prev][l], ![prev][l] = key]
      /\ IF l + 1 = height THEN insert' = NoInsert /\ finished' = finished \cup {key}
         ELSE insert' = [insert EXCEPT !.level = l + 1] /\ UNCHANGED finished
      /\ UNCHANGED <<maxheights, search>>
  BY <1>2, <1>3 DEF LinkLevel
<1>5. /\ key \notin finished /\ l < height /\ \E h \in maxheights : height <= h
      /\ \A i \in Links : key \in Linked(i) <=> i < l
      /\ \A i \in Links : i >= l => Placed(i)
  BY <1>1, <1>2 DEF SkipInv, InsertInv
<1>6. prev \in Linked(l) /\ prev < key /\ key < nextnode[prev][l] /\ l \in Nat /\ height \in Nat /\ key \in Nat
  BY <1>2, <1>3, <1>5, SkipConstants DEF Placed
<1>7. prev # key
  BY <1>6
<1>8. /\ nextnode[prev][l] \in Linked(l) \cup {nullnode} /\ nextnode[prev][l] \in Nat /\ prev \in Nat
      /\ \A k \in Linked(l) : k <= prev \/ nextnode[prev][l] <= k
  BY <1>6, SuccessorIs
<1>9. /\ nextnode' \in [Nodes -> [Links -> Keys \cup {nullnode, Garbage}]]
      /\ \A i \in Links : i # l => Linked(i)' = Linked(i) /\ \A n \in Nodes : nextnode'[n][i] = nextnode[n][i]
      /\ nextnode'[key][l] = nextnode[prev][l] /\ nextnode'[prev][l] = key
      /\ \A n \in Nodes : n # key /\ n # prev => nextnode'[n][l] = nextnode[n][l]
      /\ Linked(l)' = Linked(l) \cup {key}
  <2>0. nextnode' = [nextnode EXCEPT ![key][l] = nextnode[prev][l], ![prev][l] = key]
    BY <1>4
  <2>1. nextnode \in [Nodes -> [Links -> Keys \cup {nullnode, Garbage}]] /\ key \in Nodes
    BY SkipConstants DEF SkipTypeOK
  <2>2. nextnode' \in [Nodes -> [Links -> Keys \cup {nullnode, Garbage}]]
    BY <2>0, <2>1
  <2>3. ASSUME NEW i \in Links, i # l
        PROVE  Linked(i)' = Linked(i) /\ \A n \in Nodes : nextnode'[n][i] = nextnode[n][i]
    <3>1. \A n \in Nodes : nextnode'[n][i] = nextnode[n][i]
      BY <2>0, <2>1, <2>3
    <3> QED
      BY <3>1 DEF Linked
  <2>4. /\ nextnode'[key][l] = nextnode[prev][l] /\ nextnode'[prev][l] = key
        /\ \A n \in Nodes : n # key /\ n # prev => nextnode'[n][l] = nextnode[n][l]
    BY <1>7, <2>0, <2>1
  <2>5. Linked(l)' = Linked(l) \cup {key}
    <3>1. nextnode[prev][l] # Garbage /\ nextnode'[key][l] # Garbage
      BY <1>6, <2>4 DEF Linked
    <3>2. nextnode'[prev][l] # Garbage
      BY <2>4, SkipConstants
    <3>3. ASSUME NEW n \in Nodes PROVE nextnode'[n][l] # Garbage <=> nextnode[n][l] # Garbage \/ n = key
      BY <2>4, <3>1, <3>2
    <3> QED
      BY <2>1, <3>3 DEF Linked
  <2> QED
    BY <2>2, <2>3, <2>4, <2>5
<1>10. \A i \in Links : Linked(i) \subseteq Linked(i)'
  BY <1>9
<1>11. ASSUME NEW i \in Links PROVE LevelSorted(i)'
  <2>0. LevelSorted(i)
    BY DEF SkipInv, ListInv
  <2>1. CASE i # l
    BY <1>9, <2>0, <2>1 DEF LevelSorted, Linked
  <2>2. CASE i = l
    <3>1. head \in Linked(i)'
      BY <1>9, <2>0, <2>2 DEF LevelSorted
    <3>2. ASSUME NEW n \in Linked(l) \cup {key}
          PROVE  /\ n < nextnode'[n][l] /\ nextnode'[n][l] \in Linked(l) \cup {key, nullnode}
                 /\ \A k \in Linked(l) \cup {key} : k <= n \/ nextnode'[n][l] <= k
      <4>0. \A k \in Linked(l) : k \in Nat
        BY SkipConstants DEF Linked
      <4>1. CASE n = key
        BY <1>6, <1>8, <1>9, <4>0, <4>1
      <4>2. CASE n = prev
        BY <1>6, <1>8, <1>9, <4>0, <4>2
      <4>3. CASE n # key /\ n # prev
        <5>1. n \in Linked(l) /\ n \in Nodes /\ nextnode'[n][l] = nextnode[n][l]
          BY <1>9, <4>3 DEF Linked
        <5>2. /\ nextnode[n][l] \in Linked(l) \cup {nullnode} /\ nextnode[n][l] \in Nat /\ n < nextnode[n][l] /\ n \in Nat
              /\ \A k \in Linked(l) : k <= n \/ nextnode[n][l] <= k
          BY <5>1, SuccessorIs
        <5>3. key <= n \/ nextnode[n][l] <= key
          <6>1. CASE n <= prev
            BY <1>6, <1>8, <4>3, <5>2, <6>1
          <6>2. CASE nextnode[prev][l] <= n
            BY <1>6, <1>8, <5>2, <6>2
          <6> QED
            BY <1>8, <5>1, <6>1, <6>2
        <5> QED
          BY <5>1, <5>2, <5>3
      <4> QED
        BY <4>1, <4>2, <4>3
    <3> QED
      BY <1>9, <2>2, <3>1, <3>2 DEF LevelSorted
  <2> QED
    BY <2>1, <2>2
<1>12. ASSUME NEW i \in Links PROVE LevelNested(i)'
  <2>0. LevelNested(i)
    BY DEF SkipInv, ListInv
  <2>1. ASSUME NEW j \in Links, j < i PROVE Linked(i)' \subseteq Linked(j)'
    <3>1. Linked(i) \subseteq Linked(j)
      BY <2>0, <2>1 DEF LevelNested
    <3>2. i = l => key \in Linked(j)
      BY <1>5, <2>1
    <3> QED
      BY <1>9, <1>10, <2>1, <3>1, <3>2
  <2>2. ASSUME NEW n \in Linked(i)' PROVE n = head \/ \E h \in maxheights' : i < h
    <3>1. CASE n \in Linked(i)
      BY <1>4, <2>0, <3>1 DEF LevelNested
    <3>2. CASE i = l
      <4>1. PICK h \in maxheights : height <= h
        BY <1>5
      <4>2. h \in Nat
        BY SkipConstants DEF SkipTypeOK
      <4> QED
        BY <1>4, <1>5, <1>6, <3>2, <4>1, <4>2
    <3> QED
      BY <1>9, <3>1, <3>2
  <2> QED
    BY <2>1, <2>2 DEF LevelNested
<1>13. finished \subseteq Linked(0) /\ finished \subseteq Keys /\ \A n \in Linked(0) : n = head \/ n \in finished \/ n = key
  BY <1>1, <1>2 DEF SkipInv, ListInv, SkipTypeOK
<1>14. CASE l + 1 = height
  <2>1. insert' = NoInsert /\ finished' = finished \cup {key}
    BY <1>4, <1>14
  <2>2. key \in Linked(0)'
    BY <1>5, <1>6, <1>9, <1>10, SkipConstants
  <2>3. ListInv'
    <3>1. \A n \in Linked(0)' : n = head \/ n \in finished'
      BY <1>9, <1>13, <2>1, SkipConstants
    <3>2. finished' \subseteq Linked(0)'
      BY <1>10, <1>13, <2>1, <2>2, SkipConstants
    <3> QED
      BY <1>11, <1>12, <3>1, <3>2 DEF ListInv
  <2>4. InsertInv'
    BY <2>1 DEF InsertInv
  <2>5. SearchInv' /\ SearchMissesNothing'
    BY <1>2, <1>4, <1>10, <2>1, SearchKept
  <2>6. SkipTypeOK'
    BY <1>4, <1>9, <1>13, <2>1 DEF SkipTypeOK
  <2> QED
    BY <2>3, <2>4, <2>5, <2>6 DEF SkipInv
<1>15. CASE l + 1 # height
  <2>1. insert' = [insert EXCEPT !.level = l + 1] /\ finished' = finished
    BY <1>4, <1>15
  <2>2. l + 1 \in Links /\ l + 1 < height
    BY <1>5, <1>6, <1>15, SkipConstants DEF Links
  <2>3. insert' \in Inserting
    BY <1>1, <2>1, <2>2 DEF Inserting
  <2>4. /\ insert'.pc = "link" /\ insert'.key = key /\ insert'.level = l + 1 /\ insert'.height = height
        /\ insert'.Prev = P
    BY <1>1, <1>2, <2>1 DEF Inserting
  <2>5. insert' # NoInsert
    BY <2>4 DEF NoInsert
  <2>6. ListInv'
    <3>1. \A n \in Linked(0)' : n = head \/ n \in finished' \/ n = key
      BY <1>9, <1>13, <2>1, SkipConstants
    <3>2. finished' \subseteq Linked(0)'
      BY <1>10, <1>13, <2>1, SkipConstants
    <3> QED
      BY <1>11, <1>12, <2>4, <2>5, <3>1, <3>2 DEF ListInv
  <2>7. InsertInv'
    <3>1. ASSUME NEW i \in Links PROVE key \in Linked(i)' <=> i < l + 1
      <4>1. key \in Linked(i) <=> i < l
        BY <1>5
      <4>2. i \in Nat /\ l \in Nat
        BY <1>6, SkipConstants
      <4>3. CASE i = l
        <5>1. key \in Linked(i)'
          BY <1>9, <4>3
        <5> QED
          BY <4>2, <4>3, <5>1
      <4>4. CASE i # l
        <5>1. Linked(i)' = Linked(i)
          BY <1>9, <4>4
        <5>2. i < l + 1 <=> i < l
          BY <4>2, <4>4
        <5> QED
          BY <4>1, <5>1, <5>2
      <4> QED
        BY <4>3, <4>4
    <3>2. ASSUME NEW i \in Links, i >= l + 1 PROVE Placed(i)'
      <4>1. i # l /\ i >= l
        BY <1>6, <3>2, SkipConstants
      <4>2. P[i] \in Linked(i) /\ P[i] < key /\ key < nextnode[P[i]][i]
        BY <1>2, <1>5, <4>1 DEF Placed
      <4> QED
        BY <1>9, <2>4, <4>1, <4>2 DEF Placed, Linked
    <3> QED
      BY <1>4, <1>5, <2>1, <2>2, <2>4, <3>1, <3>2 DEF InsertInv
  <2>8. SearchInv' /\ SearchMissesNothing'
    BY <1>2, <1>4, <1>10, <2>1, <2>4, <2>5, SearchKept
  <2>9. SkipTypeOK'
    BY <1>4, <1>9, <2>1, <2>3 DEF SkipTypeOK
  <2> QED
    BY <2>6, <2>7, <2>8, <2>9 DEF SkipInv
<1> QED
  BY <1>14, <1>15

-----------------------------------------------------------------------------
\* The invariant of the list, of the writer and of the reader
\* (SkipList::Insert, FindGreaterOrEqual, FindLessThan, FindLast and
\* Iterator), for any number of keys and levels.
THEOREM SkipListCorrect == SkipSpec => [](SkipTypeOK /\ SkipInv)
<1>1. SkipInit => SkipTypeOK /\ SkipInv
  BY SkipTypeInit, SkipInvInit
<1>2. SkipTypeOK /\ SkipInv /\ [SkipNext]_skipVars => (SkipTypeOK /\ SkipInv)'
  <2> SUFFICES ASSUME SkipTypeOK, SkipInv, [SkipNext]_skipVars PROVE SkipTypeOK' /\ SkipInv'
    OBVIOUS
  <2>1. ASSUME NEW k \in Keys, StartInsert(k) PROVE SkipTypeOK' /\ SkipInv'
    BY <2>1, StartInsertStep
  <2>2. CASE FindPrev
    BY <2>2, FindPrevStep
  <2>3. ASSUME NEW h \in 1 .. kMaxHeight, RaiseHeight(h) PROVE SkipTypeOK' /\ SkipInv'
    BY <2>3, RaiseHeightStep
  <2>4. CASE LinkLevel
    BY <2>4, LinkLevelStep
  <2>5. ASSUME NEW k \in Keys, NEW h \in maxheights, StartSearch("Seek", k, h) PROVE SkipTypeOK' /\ SkipInv'
    BY <2>5, StartSearchStep
  <2>6. ASSUME NEW k \in Keys, NEW h \in maxheights, StartSearch("Prev", k, h) PROVE SkipTypeOK' /\ SkipInv'
    BY <2>6, StartSearchStep
  <2>7. ASSUME NEW h \in maxheights, StartSearch("SeekToLast", nullnode, h) PROVE SkipTypeOK' /\ SkipInv'
    BY <2>7, StartSearchStep
  <2>8. CASE Load("SeekToFirst") \/ Load("Next")
    BY <2>8, LoadStep
  <2>9. CASE SearchStep
    BY <2>9, SearchStepStep
  <2>10. CASE ReturnNode
    BY <2>10, ReturnNodeStep
  <2>11. CASE UNCHANGED skipVars
    <3>1. UNCHANGED <<nextnode, maxheights, insert, finished, search>>
      BY <2>11 DEF skipVars
    <3>2. ListInv' /\ InsertInv' /\ \A i \in Links : Linked(i)' = Linked(i)
      BY <3>1, ReaderLeavesList
    <3>3. SearchInv' /\ SearchMissesNothing'
      BY <3>1, <3>2, SearchKept
    <3> QED
      BY <3>1, <3>2, <3>3 DEF SkipTypeOK, SkipInv
  <2> QED
    BY <2>1, <2>2, <2>3, <2>4, <2>5, <2>6, <2>7, <2>8, <2>9, <2>10, <2>11 DEF SkipNext
<1> QED
  BY <1>1, <1>2, PTL DEF SkipSpec

\* A search that runs into an Insert finds what it is asked for and passes by
\* no key that was in the memtable before, for any number of keys and levels
\* (SkipList::FindGreaterOrEqual, FindLessThan, FindLast).
THEOREM SearchMissesNothingCorrect == SkipSpec => []SearchMissesNothing
<1>1. SkipInv => SearchMissesNothing
  BY DEF SkipInv
<1> QED
  BY <1>1, SkipListCorrect, PTL


-----------------------------------------------------------------------------
(* The cache of open tables.                                               *)

Entries == [file : Files \cup {0}, number : Nat]

Table == [pc : {"idle", "open", "insert", "use"}, file : Files \cup {0}, handle : Entries \cup {<<>>}]

CacheTypeOK ==
    /\ cached \subseteq Entries
    /\ handles \in Nat
    /\ thread \in [Threads -> Table]
    /\ raced \in BOOLEAN /\ failed \in BOOLEAN

\* A list of entries with at most one of a file.
OfDistinctFiles(list) ==
    /\ list \in Seq(Entries)
    /\ \A i, j \in 1 .. Len(list) : list[i].file = list[j].file => i = j

ListExact ==
    /\ ~failed
    /\ OfDistinctFiles(lru)
    /\ cached = {lru[i] : i \in 1 .. Len(lru)}
    /\ usage = Len(lru) /\ usage <= capacity

UsesOwnTable == \A t \in Threads : thread[t].pc = "use" => thread[t].handle.file = thread[t].file

CacheInv == CacheTypeOK /\ UsesOwnTable /\ (~raced => ListExact)

-----------------------------------------------------------------------------
(* Lists.                                                                  *)

\* As many entries as the list is long: the cache's assertion.
LEMMA Counted ==
    ASSUME NEW list, OfDistinctFiles(list)
    PROVE  /\ IsFiniteSet({list[i] : i \in 1 .. Len(list)})
           /\ Cardinality({list[i] : i \in 1 .. Len(list)}) = Len(list)
<1> DEFINE S == {list[i] : i \in 1 .. Len(list)}
           f == [i \in 1 .. Len(list) |-> list[i]]
<1>1. Len(list) \in Nat
  BY LenProperties DEF OfDistinctFiles
<1>2. f \in Injection(1 .. Len(list), S)
  BY DEF Injection, IsInjective, OfDistinctFiles
<1>3. f \in Surjection(1 .. Len(list), S)
  BY DEF Surjection
<1>4. ExistsBijection(1 .. Len(list), S)
  BY <1>2, <1>3 DEF ExistsBijection, Bijection
<1>5. IsFiniteSet(1 .. Len(list)) /\ Cardinality(1 .. Len(list)) = Len(list)
  BY <1>1, FS_Interval, SMTT(40)
<1> QED
  BY <1>4, <1>5, FS_Bijection

\* RemoveAt takes out one entry.
LEMMA Removed ==
    ASSUME NEW list, OfDistinctFiles(list), NEW at \in 1 .. Len(list)
    PROVE  /\ OfDistinctFiles(RemoveAt(list, at))
           /\ Len(RemoveAt(list, at)) = Len(list) - 1
           /\ {RemoveAt(list, at)[i] : i \in 1 .. Len(RemoveAt(list, at))}
                = {list[i] : i \in 1 .. Len(list)} \ {list[at]}
<1> DEFINE n == Len(list)
           a == SubSeq(list, 1, at - 1)
           b == SubSeq(list, at + 1, n)
           r == RemoveAt(list, at)
<1>1. n \in Nat /\ (\A i \in 1 .. n : list[i] \in Entries)
  BY LenProperties, ElementOfSeq DEF OfDistinctFiles
<1>2. a \in Seq(Entries) /\ Len(a) = at - 1 /\ \A i \in 1 .. at - 1 : a[i] = list[i]
  <2>1. \A i \in 1 .. at - 1 : list[i] \in Entries
    BY <1>1
  <2>2. /\ SubSeq(list, 1, at - 1) \in Seq(Entries)
        /\ Len(SubSeq(list, 1, at - 1)) = IF 1 <= at - 1 THEN (at - 1) - 1 + 1 ELSE 0
        /\ \A i \in 1 .. (at - 1) - 1 + 1 : SubSeq(list, 1, at - 1)[i] = list[1 + i - 1]
    BY <2>1, <1>1, SubSeqProperties
  <2> QED
    BY <2>2, <1>1
<1>3. b \in Seq(Entries) /\ Len(b) = n - at /\ \A i \in 1 .. n - at : b[i] = list[at + i]
  <2>1. \A i \in at + 1 .. n : list[i] \in Entries
    BY <1>1
  <2>2. /\ SubSeq(list, at + 1, n) \in Seq(Entries)
        /\ Len(SubSeq(list, at + 1, n)) = IF at + 1 <= n THEN n - (at + 1) + 1 ELSE 0
        /\ \A i \in 1 .. n - (at + 1) + 1 : SubSeq(list, at + 1, n)[i] = list[at + 1 + i - 1]
    BY <2>1, <1>1, SubSeqProperties
  <2>3. n - (at + 1) + 1 = n - at /\ \A i \in 1 .. n - at : at + 1 + i - 1 = at + i
    BY <1>1
  <2>4. (IF at + 1 <= n THEN n - (at + 1) + 1 ELSE 0) = n - at
    BY <1>1
  <2> HIDE DEF n
  <2> QED
    BY <2>2, <2>3, <2>4
<1>4. r = a \o b
  BY DEF RemoveAt
<1> HIDE DEF a, b, n
<1>cat. /\ a \o b \in Seq(Entries) /\ Len(a \o b) = Len(a) + Len(b)
      /\ \A i \in 1 .. Len(a) + Len(b) : (a \o b)[i] = IF i <= Len(a) THEN a[i] ELSE b[i - Len(a)]
  BY <1>2, <1>3, ConcatProperties
<1>5. /\ r \in Seq(Entries) /\ Len(r) = (at - 1) + (n - at)
      /\ \A i \in 1 .. (at - 1) + (n - at) : r[i] = IF i <= at - 1 THEN a[i] ELSE b[i - (at - 1)]
  <2> HIDE DEF r
  <2> QED
    BY <1>2, <1>3, <1>4, <1>cat, Zenon
<1> HIDE DEF r
<1>6. Len(r) = n - 1
  BY <1>1, <1>5
<1>at. at \in 1 .. n
  BY DEF n
<1>7. ASSUME NEW i \in 1 .. n - 1
      PROVE  r[i] = IF i < at THEN list[i] ELSE list[i + 1]
  <2>1. CASE i < at
    BY <2>1, <1>1, <1>2, <1>5
  <2>2. CASE i >= at
    <3>1. i - (at - 1) \in 1 .. n - at /\ at + (i - (at - 1)) = i + 1
      BY <2>2, <1>1, <1>at
    <3>2. r[i] = b[i - (at - 1)]
      BY <2>2, <1>1, <1>5
    <3> QED
      BY <3>1, <3>2, <2>2, <1>3, <1>1
  <2> QED
    BY <2>1, <2>2, <1>1, <1>at
<1>8. at \in 1 .. n /\ \A i, j \in 1 .. n : list[i].file = list[j].file => i = j
  BY DEF OfDistinctFiles, n
<1> DEFINE From(i) == IF i < at THEN i ELSE i + 1
<1>from. \A i \in 1 .. n - 1 : From(i) \in 1 .. n /\ From(i) # at /\ r[i] = list[From(i)]
  BY <1>7, <1>8, <1>1
<1>once. \A i, j \in 1 .. n - 1 : From(i) = From(j) => i = j
  BY <1>8, <1>1
<1> HIDE DEF From
<1>9. \A i, j \in 1 .. n - 1 : r[i].file = r[j].file => i = j
  BY <1>from, <1>once, <1>8
<1>10. \A i \in 1 .. n - 1 : \E j \in 1 .. n : r[i] = list[j] /\ j # at
  BY <1>from
<1>11. ASSUME NEW j \in 1 .. n, j # at
       PROVE  \E i \in 1 .. n - 1 : r[i] = list[j]
  <2>1. CASE j < at
    BY <2>1, <1>7, <1>8, <1>1
  <2>2. CASE j > at
    <3>1. j - 1 \in 1 .. n - 1 /\ ~(j - 1 < at) /\ (j - 1) + 1 = j
      BY <2>2, <1>1, <1>8
    <3>2. r[j - 1] = list[j]
      BY <3>1, <1>7
    <3> QED
      BY <3>1, <3>2
  <2> QED
    BY <2>1, <2>2, <1>1, <1>11, <1>8
<1>12. \A j \in 1 .. n : j # at => list[j] # list[at]
  BY <1>8
<1>13. {r[i] : i \in 1 .. n - 1} = {list[i] : i \in 1 .. n} \ {list[at]}
  BY <1>10, <1>11, <1>12, SMTT(40)
<1>14. OfDistinctFiles(r)
  BY <1>5, <1>6, <1>9 DEF OfDistinctFiles
<1> QED
  BY <1>6, <1>13, <1>14 DEF r, n

\* A new entry of a file that the list has none of.
LEMMA EntryAppended ==
    ASSUME NEW list, OfDistinctFiles(list), NEW e \in Entries,
           \A i \in 1 .. Len(list) : list[i].file # e.file
    PROVE  /\ OfDistinctFiles(Append(list, e))
           /\ Len(Append(list, e)) = Len(list) + 1
           /\ \A i \in 1 .. Len(list) : Append(list, e)[i] = list[i]
           /\ {Append(list, e)[i] : i \in 1 .. Len(Append(list, e))} = {list[i] : i \in 1 .. Len(list)} \cup {e}
<1> DEFINE n == Len(list)
<1>1. n \in Nat /\ list \in Seq(Entries)
  BY LenProperties DEF OfDistinctFiles
<1> PICK r : r = Append(list, e)
  OBVIOUS
<1>2. /\ r \in Seq(Entries) /\ Len(r) = n + 1
      /\ (\A i \in 1 .. n : r[i] = list[i]) /\ r[n + 1] = e
  BY <1>1, AppendProperties
<1>3. \A i, j \in 1 .. n : list[i].file = list[j].file => i = j
  BY DEF OfDistinctFiles
<1>4. \A i \in 1 .. n : list[i].file # e.file
  OBVIOUS
<1> HIDE DEF n
<1>5. \A i \in 1 .. n + 1 : i \in 1 .. n \/ i = n + 1
  BY <1>1
<1>6. \A i, j \in 1 .. n + 1 : r[i].file = r[j].file => i = j
  BY <1>2, <1>3, <1>4, <1>5, Zenon
<1>7. 1 .. n \subseteq 1 .. n + 1 /\ n + 1 \in 1 .. n + 1
  BY <1>1
<1>8. {r[i] : i \in 1 .. n + 1} = {list[i] : i \in 1 .. n} \cup {e}
  BY <1>2, <1>5, <1>7
<1>9. OfDistinctFiles(r)
  BY <1>2, <1>6 DEF OfDistinctFiles
<1> QED
  BY <1>2, <1>8, <1>9 DEF n

\* The head goes.
LEMMA HeadRemoved ==
    ASSUME NEW list, OfDistinctFiles(list), Len(list) > 0
    PROVE  /\ OfDistinctFiles(Tail(list))
           /\ Len(Tail(list)) = Len(list) - 1
           /\ {Tail(list)[i] : i \in 1 .. Len(Tail(list))} = {list[i] : i \in 1 .. Len(list)} \ {list[1]}
<1> DEFINE n == Len(list)
<1>1. n \in Nat /\ list \in Seq(Entries) /\ list # <<>>
  BY LenProperties, EmptySeq DEF OfDistinctFiles
<1> PICK r : r = Tail(list)
  OBVIOUS
<1>2. r \in Seq(Entries) /\ Len(r) = n - 1 /\ \A i \in 1 .. Len(r) : r[i] = list[i + 1]
  BY <1>1, HeadTailProperties
<1>3. \A i, j \in 1 .. n : list[i].file = list[j].file => i = j
  BY DEF OfDistinctFiles
<1>long. n > 0
  OBVIOUS
<1> HIDE DEF n
<1>4. \A i \in 1 .. n - 1 : i + 1 \in 1 .. n /\ i + 1 # 1
  BY <1>1
<1>5. \A i, j \in 1 .. n - 1 : i + 1 = j + 1 => i = j
  BY <1>1
<1>6. \A i, j \in 1 .. n - 1 : r[i].file = r[j].file => i = j
  BY <1>2, <1>3, <1>4, <1>5
<1>7. \A j \in 1 .. n : j # 1 => \E i \in 1 .. n - 1 : r[i] = list[j]
  <2> SUFFICES ASSUME NEW j \in 1 .. n, j # 1 PROVE \E i \in 1 .. n - 1 : r[i] = list[j]
    OBVIOUS
  <2>1. j - 1 \in 1 .. n - 1 /\ (j - 1) + 1 = j
    BY <1>1
  <2> QED
    BY <2>1, <1>2
<1>8. 1 \in 1 .. n
  BY <1>1, <1>long
<1>9. {r[i] : i \in 1 .. n - 1} = {list[i] : i \in 1 .. n} \ {list[1]}
  <2>1. ASSUME NEW i \in 1 .. n - 1
        PROVE  r[i] \in {list[k] : k \in 1 .. n} \ {list[1]}
    BY <1>2, <1>3, <1>4, <1>8
  <2>2. ASSUME NEW k \in 1 .. n, list[k] # list[1]
        PROVE  list[k] \in {r[i] : i \in 1 .. n - 1}
    BY <2>2, <1>7
  <2> QED
    BY <2>1, <2>2, ZenonT(40)
<1>10. OfDistinctFiles(r)
  BY <1>2, <1>6 DEF OfDistinctFiles
<1> QED
  BY <1>2, <1>9, <1>10 DEF n

-----------------------------------------------------------------------------
(* The invariant.                                                          *)

LEMMA InitCache == CacheInit => CacheInv
<1> SUFFICES ASSUME CacheInit PROVE CacheInv
  OBVIOUS
<1>1. CacheTypeOK
  BY DEF CacheInit, CacheTypeOK, NoTable, Table
<1>2. UsesOwnTable
  BY DEF CacheInit, UsesOwnTable, NoTable
<1>3. ListExact
  <2>1. lru = <<>> /\ <<>> \in Seq(Entries) /\ Len(<<>>) = 0
    BY EmptySeq DEF CacheInit
  <2>2. OfDistinctFiles(lru)
    BY <2>1 DEF OfDistinctFiles
  <2> QED
    BY <2>1, <2>2, TableCacheAssumption DEF CacheInit, ListExact
<1> QED
  BY <1>1, <1>2, <1>3 DEF CacheInv

\* The steps of a thread that leave the cache alone.
LEMMA ThreadStep ==
    ASSUME CacheInv, NEW t \in Threads,
           \/ \E f \in Files : Lookup(t, f)
           \/ OpenTable(t) \/ Leave(t)
    PROVE  CacheInv'
<1>1. UNCHANGED <<cached, lru, usage, handles, existing, raced, failed>>
  BY DEF Lookup, OpenTable, Leave
<1>2. CacheTypeOK
  BY DEF CacheInv
<1>3. PICK r \in Table : /\ thread' = [thread EXCEPT ![t] = r]
                         /\ r.pc = "use" => r.handle.file = r.file
  <2>none. NoTable \in Table /\ NoTable.pc # "use"
    BY DEF NoTable, Table
  <2>1. ASSUME NEW f \in Files, Lookup(t, f), Of(cached, f) = {}
        PROVE  \E r \in Table : /\ thread' = [thread EXCEPT ![t] = r]
                                /\ r.pc = "use" => r.handle.file = r.file
    <3> DEFINE r == [pc |-> "open", file |-> f, handle |-> <<>>]
    <3>1. r \in Table /\ r.pc # "use"
      BY DEF Table
    <3>2. thread' = [thread EXCEPT ![t] = r]
      BY <2>1 DEF Lookup
    <3> HIDE DEF r
    <3> QED
      BY <3>1, <3>2
  <2>2. ASSUME NEW f \in Files, Lookup(t, f), Of(cached, f) # {}
        PROVE  \E r \in Table : /\ thread' = [thread EXCEPT ![t] = r]
                                /\ r.pc = "use" => r.handle.file = r.file
    <3> DEFINE h == CHOOSE h \in Of(cached, f) : TRUE
               r == [pc |-> "use", file |-> f, handle |-> h]
    <3>1. thread' = [thread EXCEPT ![t] = r]
      BY <2>2 DEF Lookup
    <3>2. h \in Of(cached, f)
      BY <2>2
    <3> HIDE DEF h
    <3>3. h \in Entries /\ h.file = f
      BY <3>2, <1>2 DEF Of, CacheTypeOK
    <3>4. r \in Table /\ r.handle.file = r.file
      BY <3>3 DEF Table
    <3> HIDE DEF r
    <3> QED
      BY <3>1, <3>4
  <2>3. CASE OpenTable(t)
    <3>1. CASE thread[t].file \in existing
      <4> DEFINE r == [thread[t] EXCEPT !.pc = "insert"]
      <4>1. thread' = [thread EXCEPT ![t] = r]
        BY <2>3, <3>1 DEF OpenTable
      <4>2. r \in Table /\ r.pc # "use"
        BY <1>2 DEF CacheTypeOK, Table
      <4> HIDE DEF r
      <4> QED
        BY <4>1, <4>2
    <3>2. CASE thread[t].file \notin existing
      BY <2>3, <3>2, <2>none DEF OpenTable
    <3> QED
      BY <3>1, <3>2
  <2>4. CASE Leave(t)
    BY <2>4, <2>none DEF Leave
  <2> QED
    BY <2>1, <2>2, <2>3, <2>4
<1>4. CacheTypeOK'
  BY <1>1, <1>2, <1>3 DEF CacheTypeOK
<1>5. UsesOwnTable'
  BY <1>2, <1>3 DEF CacheInv, CacheTypeOK, UsesOwnTable
<1>6. ~raced' => ListExact'
  BY <1>1 DEF CacheInv, ListExact, OfDistinctFiles
<1> QED
  BY <1>4, <1>5, <1>6 DEF CacheInv

LEMMA InsertStep ==
    ASSUME CacheInv, NEW t \in Threads, Insert(t)
    PROVE  CacheInv'
<1> DEFINE f == thread[t].file
           e == [file |-> f, number |-> handles]
           entries == IF Of(cached, f) = {} THEN cached \cup {e} ELSE cached
           r == [thread[t] EXCEPT !.pc = "use", !.handle = e]
<1>1. CacheTypeOK
  BY DEF CacheInv
<1>2. e \in Entries /\ e.file = f
  BY <1>1 DEF CacheTypeOK, Table, Entries
<1>3. /\ handles' = handles + 1
      /\ raced' = (raced \/ Of(cached, f) # {})
      /\ cached' \subseteq entries
      /\ failed' \in BOOLEAN
  BY DEF Insert
<1>4. thread' = [thread EXCEPT ![t] = r]
  BY <1>1 DEF Insert, CacheTypeOK
<1>5. r \in Table /\ r.file = f /\ r.handle = e
  BY <1>1, <1>2 DEF CacheTypeOK, Table
<1>6. CacheTypeOK'
  <2>1. thread' \in [Threads -> Table]
    BY <1>1, <1>4, <1>5 DEF CacheTypeOK
  <2>2. cached' \subseteq Entries
    BY <1>1, <1>2, <1>3 DEF CacheTypeOK
  <2>3. raced' \in BOOLEAN
    BY <1>3
  <2>4. handles' \in Nat
    BY <1>1, <1>3 DEF CacheTypeOK
  <2> QED
    BY <2>1, <2>2, <2>3, <2>4, <1>3 DEF CacheTypeOK
<1>7. UsesOwnTable'
  <2> HIDE DEF r, f, e
  <2> QED
    BY <1>1, <1>2, <1>4, <1>5 DEF CacheInv, CacheTypeOK, UsesOwnTable
<1>8. ASSUME ~raced' PROVE ListExact'
  <2>1. ~raced /\ Of(cached, f) = {}
    BY <1>3, <1>8
  <2>2. ListExact
    BY <2>1 DEF CacheInv
  <2> DEFINE n == Len(lru)
             more == Append(lru, e)
             full == usage + 1 > capacity
  <2>3. OfDistinctFiles(lru) /\ cached = {lru[i] : i \in 1 .. n} /\ usage = n /\ n <= capacity /\ n \in Nat
    BY <2>2, LenProperties DEF ListExact, OfDistinctFiles
  <2>4. \A i \in 1 .. n : lru[i].file # e.file
    BY <2>1, <2>3, <1>2 DEF Of
  <2>5. /\ OfDistinctFiles(more) /\ Len(more) = n + 1
        /\ \A i \in 1 .. n : more[i] = lru[i]
        /\ {more[i] : i \in 1 .. Len(more)} = cached \cup {e}
    BY <2>3, <2>4, <1>2, EntryAppended
  <2>6. /\ cached' = (cached \cup {e}) \ (IF full THEN Of(cached \cup {e}, more[1].file) ELSE {})
        /\ lru' = (IF full THEN Tail(more) ELSE more)
        /\ usage' = (IF full THEN usage ELSE usage + 1)
        /\ failed' = (Cardinality(cached) # n \/ Cardinality(cached \cup {e}) # n + 1)
    BY <2>1 DEF Insert
  <2>7. Cardinality(cached) = n /\ Cardinality(cached \cup {e}) = n + 1
    <3>1. Cardinality(cached) = n
      BY <2>3, Counted
    <3>2. Cardinality(cached \cup {e}) = n + 1
      BY <2>5, Counted
    <3> QED
      BY <3>1, <3>2
  <2> HIDE DEF more, e, n, f, entries, r
  <2>8. failed' = FALSE
    BY <2>6, <2>7
  <2>9. CASE ~full
    <3>1. cached' = cached \cup {e} /\ lru' = more /\ usage' = n + 1 /\ n + 1 <= capacity
      BY <2>9, <2>6, <2>3, TableCacheAssumption
    <3> QED
      BY <3>1, <2>5, <2>8 DEF ListExact
  <2>10. CASE full
    <3>1. n = capacity /\ n >= 1 /\ lru' = Tail(more) /\ usage' = n
      BY <2>10, <2>6, <2>3, TableCacheAssumption
    <3>2. 1 \in 1 .. Len(more) /\ Len(more) > 0
      BY <3>1, <2>5, <2>3
    <3>3. /\ OfDistinctFiles(Tail(more)) /\ Len(Tail(more)) = n
          /\ {Tail(more)[i] : i \in 1 .. Len(Tail(more))} = (cached \cup {e}) \ {more[1]}
      <4>1. /\ OfDistinctFiles(Tail(more)) /\ Len(Tail(more)) = Len(more) - 1
            /\ {Tail(more)[i] : i \in 1 .. Len(Tail(more))} = {more[i] : i \in 1 .. Len(more)} \ {more[1]}
        BY <2>5, <3>2, HeadRemoved
      <4>2. (n + 1) - 1 = n
        BY <2>3
      <4> QED
        BY <4>1, <4>2, <2>5, Zenon
    <3>4. Of(cached \cup {e}, more[1].file) = {more[1]}
      <4>1. \A i \in 1 .. Len(more) : more[i].file = more[1].file => i = 1
        BY <2>5, <3>2 DEF OfDistinctFiles
      <4>2. Of({more[i] : i \in 1 .. Len(more)}, more[1].file) = {more[1]}
        BY <4>1, <3>2 DEF Of
      <4> QED
        BY <4>2, <2>5
    <3>5. cached' = (cached \cup {e}) \ {more[1]}
      BY <2>10, <2>6, <3>4
    <3> QED
      BY <3>1, <3>3, <3>5, <2>8, <2>3 DEF ListExact
  <2> QED
    BY <2>9, <2>10
<1> QED
  BY <1>6, <1>7, <1>8 DEF CacheInv

\* RemoveEntry takes the one entry of the file out of both.
LEMMA RemoveStep ==
    ASSUME ListExact, NEW f, RemoveEntry(f)
    PROVE  ListExact'
<1> DEFINE n == Len(lru)
           at == {i \in DOMAIN lru : lru[i].file = f}
<1>1. OfDistinctFiles(lru) /\ cached = {lru[i] : i \in 1 .. n} /\ usage = n /\ n <= capacity /\ n \in Nat
  BY LenProperties DEF ListExact, OfDistinctFiles
<1>2. DOMAIN lru = 1 .. n
  BY LenProperties, <1>1 DEF OfDistinctFiles
<1>3. failed' = FALSE
  BY <1>1, Counted DEF RemoveEntry
<1>4. CASE at = {}
  BY <1>4, <1>3 DEF RemoveEntry, ListExact
<1>5. CASE at # {}
  <2>1. PICK i \in 1 .. n : lru[i].file = f
    BY <1>5, <1>2
  <2>2. at = {i}
    BY <1>1, <1>2, <2>1 DEF OfDistinctFiles
  <2>3. (CHOOSE j \in at : \A k \in at : j <= k) = i
    BY <2>2, <2>1, <1>1
  <2>4. lru' = RemoveAt(lru, i) /\ cached' = cached \ Of(cached, f) /\ usage' = usage - 1
    BY <1>5, <2>3 DEF RemoveEntry
  <2>5. Of(cached, f) = {lru[i]}
    BY <1>1, <2>1 DEF Of, OfDistinctFiles
  <2> HIDE DEF n, at
  <2>6. /\ OfDistinctFiles(lru') /\ Len(lru') = n - 1
        /\ {lru'[j] : j \in 1 .. Len(lru')} = cached \ {lru[i]}
    BY <1>1, <2>1, <2>4, Removed DEF n
  <2>7. n - 1 <= capacity
    BY <1>1, TableCacheAssumption
  <2> QED
    BY <1>1, <1>3, <2>4, <2>5, <2>6, <2>7 DEF ListExact
<1> QED
  BY <1>4, <1>5

\* An iterator goes, or a file.
LEMMA GoneStep ==
    ASSUME CacheInv,
           \/ \E t \in Threads : UnrefEntry(t)
           \/ \E f \in Files : evict(f)
    PROVE  CacheInv'
<1>1. CacheTypeOK
  BY DEF CacheInv
<1>2. PICK f : RemoveEntry(f)
  BY DEF UnrefEntry, evict
<1>3. UNCHANGED <<handles, raced>>
  BY DEF UnrefEntry, evict
<1>4. \/ UNCHANGED thread
      \/ \E t \in Threads : thread' = [thread EXCEPT ![t] = NoTable]
  BY DEF UnrefEntry, evict
<1>5. NoTable \in Table /\ NoTable.pc # "use"
  BY DEF NoTable, Table
<1>6. thread' \in [Threads -> Table]
  BY <1>1, <1>4, <1>5 DEF CacheTypeOK
<1>7. cached' \subseteq cached /\ failed' \in BOOLEAN
  BY <1>2 DEF RemoveEntry
<1>8. CacheTypeOK'
  BY <1>1, <1>3, <1>6, <1>7 DEF CacheTypeOK
<1>9. UsesOwnTable'
  BY <1>1, <1>4, <1>5 DEF CacheInv, CacheTypeOK, UsesOwnTable
<1>10. ~raced' => ListExact'
  BY <1>2, <1>3, RemoveStep DEF CacheInv
<1> QED
  BY <1>8, <1>9, <1>10 DEF CacheInv

\* The invariant of the table cache holds in every behaviour of it
\* (LRUCache, TableCache::FindTable).
THEOREM CacheCorrect == CacheSpec => []CacheInv
<1>1. CacheInit => CacheInv
  BY InitCache
<1>2. CacheInv /\ [CacheNext]_cacheVars => CacheInv'
  <2> SUFFICES ASSUME CacheInv, [CacheNext]_cacheVars PROVE CacheInv'
    OBVIOUS
  <2>1. ASSUME NEW t \in Threads, (\E f \in Files : Lookup(t, f)) \/ OpenTable(t) \/ Leave(t)
        PROVE  CacheInv'
    BY <2>1, ThreadStep
  <2>2. ASSUME NEW t \in Threads, Insert(t) PROVE CacheInv'
    BY <2>2, InsertStep
  <2>3. ASSUME NEW t \in Threads, UnrefEntry(t) PROVE CacheInv'
    BY <2>3, GoneStep
  <2>4. ASSUME NEW f \in Files, evict(f) PROVE CacheInv'
    BY <2>4, GoneStep
  <2>5. CASE UNCHANGED cacheVars
    BY <2>5 DEF cacheVars, CacheInv, CacheTypeOK, UsesOwnTable, ListExact, OfDistinctFiles
  <2> QED
    BY <2>1, <2>2, <2>3, <2>4, <2>5 DEF CacheNext
<1> QED
  BY <1>1, <1>2, PTL DEF CacheSpec

\* Hash table, list and usage agree and no assertion of the cache fails
\* unless two threads opened one table; every thread reads the table it
\* asked for (LRUCache::Insert, Release and Erase; FindTable).
THEOREM CacheExactCorrect == CacheSpec => []CacheExact
<1>1. CacheInv => CacheExact
  <2> SUFFICES ASSUME CacheInv PROVE CacheExact
    OBVIOUS
  <2>1. ASSUME ~raced
        PROVE  /\ ~failed
               /\ cached = Range(lru) /\ usage = Len(lru) /\ usage <= capacity
               /\ \A g, h \in cached : g.file = h.file => g = h
    <3>1. ListExact
      BY <2>1 DEF CacheInv
    <3>2. DOMAIN lru = 1 .. Len(lru)
      BY <3>1, LenProperties DEF ListExact, OfDistinctFiles
    <3>3. cached = Range(lru)
      BY <3>1, <3>2 DEF ListExact, Range
    <3>4. \A g, h \in cached : g.file = h.file => g = h
      BY <3>1 DEF ListExact, OfDistinctFiles
    <3> QED
      BY <3>1, <3>3, <3>4 DEF ListExact
  <2> QED
    BY <2>1 DEF CacheInv, UsesOwnTable, CacheExact
<1> QED
  BY <1>1, CacheCorrect, PTL
-----------------------------------------------------------------------------
(* The file layer.                                                         *)

WritableFiles == [buf : Seq(Nat), os : Seq(Nat), all : Seq(Nat), synced : Nat, disk : Nat, failed : BOOLEAN, open : BOOLEAN]

\* The buffer is never fuller than its size.  What is on the disk is a part
\* of what the system has, and holds what a successful sync has covered.
FileOK(f) ==
    /\ f \in WritableFiles
    /\ Len(f.buf) <= kWritableFileBufferSize
    /\ f.disk <= Len(f.os)
    /\ ~f.failed => /\ f.open => f.os \o f.buf = f.all
                    /\ IsPrefix(f.os, f.all)
                    /\ f.synced <= f.disk

States == {"none", "mapping", "nommap", "mmap", "fd", "nofd", "pread"}

ReadTypeOK ==
    /\ acquires \in [mmap : Int, fd : Int]
    /\ opened \in [Readers -> States]

\* The databases whose Env has the LOCK file in its table because of them.
InTable(o) == lockpc[o] \in {"inserted", "held", "unlocked"}

LockFileInv ==
    /\ lockpc \in [Openers -> {"closed", "opened", "inserted", "held", "unlocked"}]
    /\ \A o \in Openers : InTable(o) => EnvOf[o] \in lockTable
    /\ \A o, p \in Openers : InTable(o) /\ InTable(p) /\ o # p => EnvOf[o] # EnvOf[p]
    /\ \A o \in Openers : lockpc[o] = "held" => owner = ProcessOf[o] \/ ProcessOf[o] \in dropped

EnvInv == FileOK(output) /\ ReadTypeOK /\ LimitsKept /\ LockFileInv

-----------------------------------------------------------------------------
(* The buffer.                                                             *)

\* A sequence begins with what was cut off behind its n-th byte.
LEMMA PrefixOf ==
    ASSUME NEW s \in Seq(Nat), NEW t \in Seq(Nat), NEW n \in 0 .. Len(s), IsPrefix(s, t)
    PROVE  /\ SubSeq(s, 1, n) \in Seq(Nat)
           /\ Len(SubSeq(s, 1, n)) = n
           /\ IsPrefix(SubSeq(s, 1, n), t)
<1>1. Len(s) \in Nat /\ Len(t) \in Nat /\ (\A i \in 1 .. Len(s) : s[i] \in Nat) /\ (\A i \in 1 .. Len(t) : t[i] \in Nat)
  BY LenProperties, ElementOfSeq
<1>2. PICK a \in Nat, b \in Nat : a = Len(s) /\ b = Len(t) /\ n <= a /\ a <= b
  BY <1>1 DEF IsPrefix
<1>3. /\ SubSeq(s, 1, n) \in Seq(Nat) /\ Len(SubSeq(s, 1, n)) = n
      /\ \A i \in 1 .. n : SubSeq(s, 1, n)[i] = s[i]
  <2>1. \A i \in 1 .. n : s[i] \in Nat
    BY <1>1, <1>2
  <2> QED
    BY <2>1, SubSeqProperties
<1>4. /\ SubSeq(t, 1, n) \in Seq(Nat) /\ Len(SubSeq(t, 1, n)) = n
      /\ \A i \in 1 .. n : SubSeq(t, 1, n)[i] = t[i]
  <2>1. \A i \in 1 .. n : t[i] \in Nat
    BY <1>1, <1>2
  <2> QED
    BY <2>1, SubSeqProperties
<1>5. \A i \in 1 .. n : s[i] = t[i]
  <2>1. \A i \in 1 .. a : SubSeq(s, 1, a)[i] = s[i]
    BY <1>1, <1>2, SubSeqProperties
  <2>2. \A i \in 1 .. b : i <= a => SubSeq(t, 1, a)[i] = t[i]
    <3>1. \A i \in 1 .. a : t[i] \in Nat
      BY <1>1, <1>2
    <3> QED
      BY <3>1, <1>2, SubSeqProperties
  <2>3. SubSeq(s, 1, a) = SubSeq(t, 1, a)
    BY <1>2 DEF IsPrefix
  <2> QED
    BY <2>1, <2>2, <2>3, <1>2
<1>6. PICK p \in Seq(Nat) : p = SubSeq(s, 1, n) /\ Len(p) = n /\ \A i \in 1 .. n : p[i] = s[i]
  BY <1>3
<1>7. SubSeq(p, 1, Len(p)) = p
  BY SubSeqFull
<1>8. p = SubSeq(t, 1, n)
  BY <1>4, <1>5, <1>6, SeqEqual
<1> QED
  BY <1>2, <1>6, <1>7, <1>8 DEF IsPrefix

LEMMA SeqIsPrefix ==
    ASSUME NEW s \in Seq(Nat)
    PROVE  IsPrefix(s, s)
  BY LenProperties DEF IsPrefix

\* What was appended to begins what came of it.
LEMMA ConcatPrefix ==
    ASSUME NEW s \in Seq(Nat), NEW t \in Seq(Nat)
    PROVE  IsPrefix(s, s \o t)
<1>0. /\ s \o t \in Seq(Nat) /\ Len(s \o t) = Len(s) + Len(t)
      /\ \A i \in 1 .. Len(s) + Len(t) : (s \o t)[i] = IF i <= Len(s) THEN s[i] ELSE t[i - Len(s)]
  BY ConcatProperties
<1>1. PICK r \in Seq(Nat) : r = s \o t /\ Len(r) = Len(s) + Len(t)
                            /\ \A i \in 1 .. Len(s) + Len(t) : r[i] = IF i <= Len(s) THEN s[i] ELSE t[i - Len(s)]
  BY <1>0, Zenon
<1>2. PICK a \in Nat, b \in Nat : a = Len(s) /\ b = Len(t)
  BY LenProperties
<1>3. \A i \in 1 .. a : r[i] = s[i]
  BY <1>1, <1>2
<1>4. \A i \in 1 .. a : s[i] \in Nat
  BY <1>2, ElementOfSeq
<1>5. /\ SubSeq(r, 1, a) \in Seq(Nat) /\ Len(SubSeq(r, 1, a)) = a
      /\ \A i \in 1 .. a : SubSeq(r, 1, a)[i] = r[i]
  BY <1>3, <1>4, SubSeqProperties, SMTT(40)
<1>6. SubSeq(r, 1, a) = s
  BY <1>2, <1>3, <1>5, SeqEqual
<1>7. SubSeq(s, 1, a) = s
  BY <1>2, SubSeqFull
<1>8. a <= a + b
  OBVIOUS
<1> QED
  BY <1>1, <1>2, <1>6, <1>7, <1>8 DEF IsPrefix

LEMMA Regrouped == \A s, t, u \in Seq(Nat) : (s \o t) \o u = s \o (t \o u)
  BY ConcatAssociative, SMTT(40)

\* What write took of the data follows what the system had.
LEMMA WrittenFile ==
    ASSUME NEW os \in Seq(Nat), NEW data \in Seq(Nat), NEW k \in 0 .. Len(data)
    PROVE  /\ os \o SubSeq(data, 1, k) \in Seq(Nat)
           /\ Len(os) <= Len(os \o SubSeq(data, 1, k))
           /\ k = Len(data) => os \o SubSeq(data, 1, k) = os \o data
<1>1. Len(data) \in Nat /\ \A i \in 1 .. Len(data) : data[i] \in Nat
  BY LenProperties, ElementOfSeq
<1>2. \A i \in 1 .. k : data[i] \in Nat
  BY <1>1
<1>3. SubSeq(data, 1, k) \in Seq(Nat)
  BY <1>2, SubSeqProperties
<1> DEFINE d == SubSeq(data, 1, k)
<1>4. os \o d \in Seq(Nat) /\ Len(os \o d) = Len(os) + Len(d)
  BY ConcatProperties
<1>5. PICK a \in Nat, b \in Nat : a = Len(os) /\ b = Len(d)
  BY LenProperties
<1>6. Len(os) <= Len(os \o d)
  <2>1. Len(os \o d) = a + b
    BY <1>4, <1>5, Zenon
  <2>2. a <= a + b
    OBVIOUS
  <2> QED
    BY <2>1, <2>2, <1>5, Zenon
<1>7. k = Len(data) => d = data
  BY <1>3, SubSeqFull
<1> QED
  BY <1>3, <1>4, <1>6, <1>7

\* FlushBuffer.
LEMMA FlushStep ==
    ASSUME NEW f, FileOK(f), f.open, NEW k \in 0 .. Len(f.buf)
    PROVE  LET g == FlushBuffer(f, k)
           IN  /\ FileOK(g)
               /\ g.all = f.all /\ g.open /\ g.buf = <<>>
               /\ g.failed = (f.failed \/ k < Len(f.buf))
               /\ ~g.failed => g.os = g.all
               /\ [g EXCEPT !.open = FALSE] \in WritableFiles /\ FileOK([g EXCEPT !.open = FALSE])
<1> DEFINE g == FlushBuffer(f, k)
           os == f.os \o SubSeq(f.buf, 1, k)
<1>1. f \in WritableFiles /\ f.buf \in Seq(Nat) /\ f.os \in Seq(Nat) /\ f.all \in Seq(Nat) /\ f.synced \in Nat /\ f.disk \in Nat
      /\ f.failed \in BOOLEAN /\ f.open \in BOOLEAN
  BY DEF FileOK, WritableFiles
<1>2. os \in Seq(Nat) /\ Len(f.os) <= Len(os) /\ (k = Len(f.buf) => os = f.os \o f.buf)
  BY <1>1, WrittenFile
<1>3. /\ g = [f EXCEPT !.os = os, !.failed = f.failed \/ k < Len(f.buf), !.buf = <<>>]
      /\ g.os = os /\ g.buf = <<>> /\ g.all = f.all /\ g.synced = f.synced /\ g.disk = f.disk /\ g.open = f.open
      /\ g.failed = (f.failed \/ k < Len(f.buf))
  BY <1>1 DEF FlushBuffer, WriteUnbuffered, WritableFiles
<1>4. g \in WritableFiles
  <2>1. (f.failed \/ k < Len(f.buf)) \in BOOLEAN /\ <<>> \in Seq(Nat)
    BY EmptySeq
  <2> QED
    BY <1>1, <1>2, <1>3, <2>1 DEF WritableFiles
<1>5. Len(g.buf) <= kWritableFileBufferSize
  BY <1>3, EmptySeq, EnvAssumption
<1>6. g.disk <= Len(g.os)
  <2>1. PICK a \in Nat, b \in Nat : a = Len(f.os) /\ b = Len(os)
    BY <1>1, <1>2, LenProperties
  <2>2. f.disk <= a /\ a <= b
    BY <1>2, <2>1 DEF FileOK
  <2>3. f.disk <= b
    BY <1>1, <2>2
  <2> QED
    BY <1>3, <2>1, <2>3
<1>7. ASSUME ~g.failed
      PROVE  /\ g.os = g.all /\ g.os \o g.buf = g.all /\ IsPrefix(g.os, g.all) /\ g.synced <= g.disk
  <2>1. ~f.failed /\ k = Len(f.buf)
    <3>1. Len(f.buf) \in Nat
      BY <1>1, LenProperties
    <3>2. ~f.failed /\ ~(k < Len(f.buf))
      BY <1>3, <1>7, Zenon
    <3> QED
      BY <3>1, <3>2
  <2>2. g.os = g.all
    BY <1>2, <1>3, <2>1 DEF FileOK
  <2>3. g.os \o <<>> = g.os
    BY <1>2, <1>3, ConcatEmptySeq
  <2>4. IsPrefix(g.os, g.os)
    BY <1>2, <1>3, SeqIsPrefix
  <2> QED
    BY <1>3, <2>1, <2>2, <2>3, <2>4 DEF FileOK
<1>8. FileOK(g)
  BY <1>4, <1>5, <1>6, <1>7 DEF FileOK
<1> HIDE DEF g
<1>9. [g EXCEPT !.open = FALSE] \in WritableFiles /\ FileOK([g EXCEPT !.open = FALSE])
  BY <1>8 DEF FileOK, WritableFiles
<1> QED
  BY <1>3, <1>7, <1>8, <1>9 DEF g

\* A file to which bytes were added, in the buffer or behind it.
LEMMA FileGrown ==
    ASSUME NEW f, FileOK(f), f.open,
           NEW buf \in Seq(Nat), NEW os \in Seq(Nat), NEW all \in Seq(Nat), NEW bad \in BOOLEAN,
           Len(buf) <= kWritableFileBufferSize, Len(f.os) <= Len(os),
           ~bad => ~f.failed /\ os \o buf = all
    PROVE  FileOK([f EXCEPT !.buf = buf, !.os = os, !.all = all, !.failed = bad])
<1> DEFINE g == [f EXCEPT !.buf = buf, !.os = os, !.all = all, !.failed = bad]
<1>1. f \in WritableFiles /\ f.os \in Seq(Nat) /\ f.synced \in Nat /\ f.disk \in Nat
  BY DEF FileOK, WritableFiles
<1>2. /\ g \in WritableFiles /\ g.buf = buf /\ g.os = os /\ g.all = all /\ g.failed = bad
      /\ g.synced = f.synced /\ g.disk = f.disk
  BY <1>1 DEF WritableFiles
<1>3. f.disk <= Len(os)
  <2>1. PICK a \in Nat, b \in Nat : a = Len(f.os) /\ b = Len(os)
    BY <1>1, LenProperties
  <2>2. f.disk <= a /\ a <= b
    BY <2>1 DEF FileOK
  <2>3. f.disk <= b
    BY <1>1, <2>2
  <2> QED
    BY <2>1, <2>3
<1>4. IsPrefix(os, os \o buf)
  BY ConcatPrefix
<1>5. ~bad => /\ os \o buf = all /\ IsPrefix(os, all) /\ f.synced <= f.disk
  BY <1>4 DEF FileOK
<1> HIDE DEF g
<1>6. FileOK(g)
  BY <1>2, <1>3, <1>5 DEF FileOK
<1> QED
  BY <1>6 DEF g

\* append.
LEMMA AppendStep ==
    ASSUME FileOK(output), NEW n \in AppendSizes, NEW k \in 0 .. kWritableFileBufferSize, NEW l \in Nat, append(n, k, l)
    PROVE  FileOK(output')
<1> DEFINE f == output
           K == kWritableFileBufferSize
           data == [i \in 1 .. n |-> Len(output.all) + i]
           room == K - Len(f.buf)
           part == SubSeq(data, 1, IF Len(data) < room THEN Len(data) ELSE room)
           filled == [f EXCEPT !.all = f.all \o data, !.buf = f.buf \o part]
           rest == SubSeq(data, room + 1, Len(data))
           flushed == FlushBuffer(filled, k)
<1>1. f \in WritableFiles /\ f.buf \in Seq(Nat) /\ f.os \in Seq(Nat) /\ f.all \in Seq(Nat) /\ f.synced \in Nat /\ f.disk \in Nat
      /\ f.failed \in BOOLEAN /\ f.open \in BOOLEAN
  BY DEF FileOK, WritableFiles
<1>2. n \in Nat /\ K \in Nat \ {0}
  BY EnvAssumption
<1>3. /\ f.open /\ (l > 0 => room + l <= n)
      /\ output' = IF rest = <<>> THEN filled
                   ELSE IF k < Len(filled.buf) THEN flushed
                   ELSE IF Len(rest) < K THEN [flushed EXCEPT !.buf = rest]
                   ELSE WriteUnbuffered(flushed, rest, l)
  BY DEF append, Appended
<1>4. data \in Seq(Nat) /\ Len(data) = n
  <2>1. Len(f.all) \in Nat
    BY <1>1, LenProperties
  <2>2. \A i \in 1 .. n : Len(f.all) + i \in Nat
    BY <2>1
  <2>3. data \in [1 .. n -> Nat]
    BY <2>2
  <2> QED
    BY <1>2, <2>3
<1>5. room \in 0 .. K
  <2>1. PICK b \in Nat : b = Len(f.buf)
    BY <1>1, LenProperties
  <2>2. b <= K
    BY <2>1 DEF FileOK
  <2> QED
    BY <1>2, <2>1, <2>2
<1> HIDE DEF data
<1>6. \A i \in 1 .. n : data[i] \in Nat
  BY <1>4, ElementOfSeq
<1> DEFINE m == IF n < room THEN n ELSE room
<1>7. part \in Seq(Nat) /\ Len(part) = m /\ m \in Nat /\ part = SubSeq(data, 1, m)
  <2>1. m \in Nat /\ m <= n
    BY <1>2, <1>5
  <2>2. \A i \in 1 .. m : data[i] \in Nat
    BY <1>6, <2>1, <1>2
  <2>3. SubSeq(data, 1, m) \in Seq(Nat) /\ Len(SubSeq(data, 1, m)) = IF 1 <= m THEN m - 1 + 1 ELSE 0
    BY <2>1, <2>2, SubSeqProperties
  <2> HIDE DEF m
  <2>4. (IF 1 <= m THEN m - 1 + 1 ELSE 0) = m
    BY <2>1
  <2> QED
    BY <1>4, <2>1, <2>3, <2>4 DEF m
<1>8. rest \in Seq(Nat) /\ Len(rest) = (IF room < n THEN n - room ELSE 0) /\ (n <= room => rest = <<>>)
  <2>1. \A i \in room + 1 .. n : data[i] \in Nat
    BY <1>2, <1>5, <1>6
  <2> HIDE DEF room
  <2>2. /\ SubSeq(data, room + 1, n) \in Seq(Nat)
        /\ Len(SubSeq(data, room + 1, n)) = IF room + 1 <= n THEN n - (room + 1) + 1 ELSE 0
    BY <1>2, <1>5, <2>1, SubSeqProperties
  <2>3. (IF room + 1 <= n THEN n - (room + 1) + 1 ELSE 0) = (IF room < n THEN n - room ELSE 0)
    BY <1>2, <1>5
  <2>4. n <= room => SubSeq(data, room + 1, n) = <<>>
    BY <1>2, <1>5, SubSeqEmpty
  <2> QED
    BY <1>4, <2>2, <2>3, <2>4
<1>9. /\ f.buf \o part \in Seq(Nat) /\ Len(f.buf \o part) = K - room + m
      /\ f.all \o data \in Seq(Nat)
  <2>1. /\ f.buf \o part \in Seq(Nat) /\ Len(f.buf \o part) = Len(f.buf) + Len(part)
        /\ f.all \o data \in Seq(Nat)
    BY <1>1, <1>4, <1>7, ConcatProperties
  <2>2. PICK b \in Nat : b = Len(f.buf)
    BY <1>1, LenProperties
  <2>3. b = K - (K - b)
    BY <1>2
  <2>4. Len(f.buf) = K - room
    BY <2>2, <2>3
  <2> QED
    BY <1>7, <2>1, <2>4
<1> HIDE DEF part, rest, room, m
<1>10. /\ filled.buf = f.buf \o part /\ filled.all = f.all \o data /\ filled.os = f.os /\ filled.synced = f.synced
       /\ filled.disk = f.disk /\ filled.failed = f.failed /\ filled.open /\ filled \in WritableFiles
  BY <1>1, <1>3, <1>9 DEF WritableFiles
<1> HIDE DEF filled
<1>11. Len(filled.buf) <= K /\ (room <= n => Len(filled.buf) = K) /\ (rest # <<>> => room < n)
  <2>1. Len(filled.buf) = K - room + m
    BY <1>9, <1>10, Zenon
  <2>2. K - room + m <= K /\ (room <= n => K - room + m = K)
    BY <1>2, <1>5 DEF m
  <2>3. rest # <<>> => room < n
    BY <1>2, <1>5, <1>8
  <2> QED
    BY <2>1, <2>2, <2>3
\* The file, while the rest of the data is still to come.
<1>12. ~f.failed => /\ f.os \o (f.buf \o part) = (f.os \o f.buf) \o part
                    /\ f.os \o f.buf = f.all
                    /\ IsPrefix(f.os, f.all \o data) /\ f.synced <= f.disk
  <2>1. f.os \o (f.buf \o part) = (f.os \o f.buf) \o part
    BY <1>1, <1>7, Regrouped
  <2>2. ASSUME ~f.failed PROVE f.os \o f.buf = f.all /\ f.synced <= f.disk
    BY <1>3, <2>2 DEF FileOK
  <2>3. ASSUME ~f.failed PROVE f.all \o data = f.os \o (f.buf \o data)
    <3>1. (f.os \o f.buf) \o data = f.os \o (f.buf \o data)
      BY <1>1, <1>4, Regrouped
    <3> QED
      BY <2>2, <2>3, <3>1
  <2>4. f.buf \o data \in Seq(Nat)
    BY <1>1, <1>4, ConcatProperties
  <2>5. IsPrefix(f.os, f.os \o (f.buf \o data))
    BY <1>1, <2>4, ConcatPrefix
  <2> QED
    BY <2>1, <2>2, <2>3, <2>5
<1>13. part \o rest = data
  <2>1. CASE n <= room
    <3>1. m = n
      BY <1>2, <1>5, <2>1 DEF m
    <3>2. part = data /\ rest = <<>>
      BY <1>4, <1>7, <1>8, <2>1, <3>1, SubSeqFull
    <3> QED
      BY <1>4, <3>2, ConcatEmptySeq
  <2>2. CASE room < n
    <3>1. m = room
      BY <1>2, <1>5, <2>2 DEF m
    <3>2. 1 \in 1 .. n + 1 /\ room \in 1 - 1 .. n /\ n \in room .. n
      BY <1>2, <1>5, <2>2
    <3>3. SubSeq(data, 1, room) \o SubSeq(data, room + 1, n) = SubSeq(data, 1, n)
      BY <1>4, <3>2, ConcatAdjacentSubSeq
    <3>4. rest = SubSeq(data, room + 1, n)
      BY <1>4 DEF rest
    <3> QED
      BY <1>4, <1>7, <3>1, <3>3, <3>4, SubSeqFull
  <2> QED
    BY <1>2, <1>5, <2>1, <2>2
<1>14. ~f.failed => f.os \o ((f.buf \o part) \o rest) = f.all \o data
  <2>1. (f.buf \o part) \o rest = f.buf \o data
    BY <1>1, <1>7, <1>8, <1>13, Regrouped
  <2>2. f.os \o (f.buf \o data) = (f.os \o f.buf) \o data
    BY <1>1, <1>4, Regrouped
  <2> QED
    BY <1>12, <2>1, <2>2
<1> DEFINE os == f.os \o SubSeq(filled.buf, 1, k)
           bad == f.failed \/ k < Len(filled.buf)
<1>15. rest # <<>> => /\ k \in 0 .. Len(filled.buf) /\ os \in Seq(Nat) /\ Len(f.os) <= Len(os)
                      /\ k = Len(filled.buf) => os = f.os \o (f.buf \o part)
  <2>1. rest # <<>> => k \in 0 .. Len(filled.buf)
    BY <1>2, <1>5, <1>11
  <2>2. filled.buf \in Seq(Nat)
    BY <1>9, <1>10
  <2>3. ASSUME NEW d \in Seq(Nat), k \in 0 .. Len(d)
        PROVE  /\ f.os \o SubSeq(d, 1, k) \in Seq(Nat) /\ Len(f.os) <= Len(f.os \o SubSeq(d, 1, k))
               /\ k = Len(d) => f.os \o SubSeq(d, 1, k) = f.os \o d
    BY <1>1, <2>3, WrittenFile
  <2> QED
    BY <1>10, <2>1, <2>2, <2>3, Zenon
<1>16. /\ flushed = [f EXCEPT !.buf = <<>>, !.os = os, !.all = f.all \o data, !.failed = bad]
       /\ bad \in BOOLEAN /\ <<>> \in Seq(Nat) /\ Len(<<>>) = 0
  BY <1>1, <1>10, EmptySeq DEF FlushBuffer, WriteUnbuffered, WritableFiles, filled
<1> HIDE DEF flushed
<1>17. CASE rest = <<>>
  <2>1. (f.buf \o part) \o rest = f.buf \o part
    BY <1>9, <1>17, ConcatEmptySeq
  <2>2. filled = [f EXCEPT !.buf = f.buf \o part, !.os = f.os, !.all = f.all \o data, !.failed = f.failed]
    BY <1>1 DEF WritableFiles, filled
  <2>3. Len(f.os) <= Len(f.os)
    BY <1>1, LenProperties
  <2>4. FileOK([f EXCEPT !.buf = f.buf \o part, !.os = f.os, !.all = f.all \o data, !.failed = f.failed])
    <3>1. /\ f.buf \o part \in Seq(Nat) /\ f.os \in Seq(Nat) /\ f.all \o data \in Seq(Nat) /\ f.failed \in BOOLEAN
          /\ Len(f.buf \o part) <= kWritableFileBufferSize
      BY <1>1, <1>9, <1>10, <1>11
    <3>2. ~f.failed => f.os \o (f.buf \o part) = f.all \o data
      BY <1>14, <2>1
    <3> QED
      BY <1>1, <1>3, <2>3, <3>1, <3>2, FileGrown
  <2> QED
    BY <1>3, <1>17, <2>2, <2>4
<1>18. CASE rest # <<>> /\ k < Len(filled.buf)
  <2>1. bad = TRUE /\ Len(<<>>) <= K
    BY <1>2, <1>16, <1>18
  <2> HIDE DEF os
  <2>2. FileOK([f EXCEPT !.buf = <<>>, !.os = os, !.all = f.all \o data, !.failed = TRUE])
    BY <1>1, <1>3, <1>9, <1>15, <1>16, <1>18, <2>1, FileGrown
  <2> QED
    BY <1>3, <1>16, <1>18, <2>1, <2>2
<1>19. CASE rest # <<>> /\ ~(k < Len(filled.buf))
  <2>1. k = Len(filled.buf) /\ bad = f.failed /\ os = f.os \o (f.buf \o part)
    <3>1. k = Len(filled.buf)
      BY <1>2, <1>5, <1>11, <1>19
    <3> QED
      BY <1>1, <1>15, <1>19, <3>1
  <2>2. ~f.failed => os \o rest = f.all \o data
    <3>1. (f.os \o (f.buf \o part)) \o rest = f.os \o ((f.buf \o part) \o rest)
      BY <1>1, <1>8, <1>9, Regrouped
    <3> QED
      BY <1>14, <2>1, <3>1
  <2> HIDE DEF os, bad
  <2>3. CASE Len(rest) < K
    <3>1. output' = [flushed EXCEPT !.buf = rest]
      BY <1>3, <1>19, <2>3
    <3>2. output' = [f EXCEPT !.buf = rest, !.os = os, !.all = f.all \o data, !.failed = f.failed]
      BY <1>1, <1>16, <2>1, <3>1 DEF WritableFiles
    <3>3. Len(rest) <= K
      BY <1>2, <1>5, <1>8, <2>3
    <3>4. FileOK([f EXCEPT !.buf = rest, !.os = os, !.all = f.all \o data, !.failed = f.failed])
      BY <1>1, <1>3, <1>8, <1>9, <1>15, <1>19, <2>2, <3>3, FileGrown
    <3> QED
      BY <3>2, <3>4
  <2>4. CASE ~(Len(rest) < K)
    <3> DEFINE end == os \o SubSeq(rest, 1, l)
    <3>1. output' = WriteUnbuffered(flushed, rest, l)
      BY <1>3, <1>19, <2>4
    <3>2. l \in 0 .. Len(rest)
      BY <1>2, <1>3, <1>5, <1>8, <1>11, <1>19
    <3>3. end \in Seq(Nat) /\ Len(os) <= Len(end) /\ (l = Len(rest) => end = os \o rest)
      BY <1>8, <1>15, <1>19, <3>2, WrittenFile
    <3>4. Len(f.os) <= Len(end)
      <4>1. PICK a \in Nat, b \in Nat, c \in Nat : a = Len(f.os) /\ b = Len(os) /\ c = Len(end)
        BY <1>1, <1>15, <1>19, <3>3, LenProperties
      <4>2. a <= b /\ b <= c
        BY <1>15, <1>19, <3>3, <4>1
      <4>3. a <= c
        BY <4>2
      <4> QED
        BY <4>1, <4>3
    <3> HIDE DEF end
    <3>5. output' = [f EXCEPT !.buf = <<>>, !.os = end, !.all = f.all \o data, !.failed = (f.failed \/ l < Len(rest))]
      <4>1. flushed.os = os /\ flushed.failed = f.failed
        BY <1>1, <1>16, <2>1 DEF WritableFiles
      <4>2. output' = [flushed EXCEPT !.os = end, !.failed = (f.failed \/ l < Len(rest))]
        BY <3>1, <4>1 DEF WriteUnbuffered, end
      <4> QED
        BY <1>1, <1>16, <4>2 DEF WritableFiles
    <3>6. ASSUME ~(f.failed \/ l < Len(rest)) PROVE ~f.failed /\ end \o <<>> = f.all \o data
      <4>1. ~f.failed /\ ~(l < Len(rest))
        BY <3>6, Zenon
      <4>2. l = Len(rest)
        BY <3>2, <4>1
      <4> QED
        BY <2>2, <3>3, <4>1, <4>2, ConcatEmptySeq
    <3>7. Len(<<>>) <= K /\ (f.failed \/ l < Len(rest)) \in BOOLEAN
      BY <1>2, <1>16
    <3>8. FileOK([f EXCEPT !.buf = <<>>, !.os = end, !.all = f.all \o data, !.failed = (f.failed \/ l < Len(rest))])
      BY <1>1, <1>3, <1>9, <1>16, <3>3, <3>4, <3>6, <3>7, FileGrown
    <3> QED
      BY <3>5, <3>8
  <2> QED
    BY <2>3, <2>4
<1> QED
  BY <1>17, <1>18, <1>19

LEMMA FileStep == FileOK(output) /\ FileNext => FileOK(output')
<1> SUFFICES ASSUME FileOK(output), FileNext PROVE FileOK(output')
  OBVIOUS
<1>1. /\ output \in WritableFiles /\ output.buf \in Seq(Nat) /\ output.os \in Seq(Nat) /\ output.all \in Seq(Nat)
      /\ output.synced \in Nat /\ output.disk \in Nat
  BY DEF FileOK, WritableFiles
<1>2. PICK b \in Nat, c \in Nat : b = Len(output.os) /\ c = Len(output.all)
  BY <1>1, LenProperties
<1>3. <<>> \in Seq(Nat) /\ Len(<<>>) <= kWritableFileBufferSize
  BY EmptySeq, EnvAssumption
<1>4. ASSUME NEW n \in AppendSizes, NEW k \in 0 .. kWritableFileBufferSize, NEW l \in 0 .. MaxWritten, append(n, k, l)
      PROVE  FileOK(output')
  BY <1>4, AppendStep, EnvAssumption
<1>5. ASSUME NEW k \in 0 .. kWritableFileBufferSize, flushFile(k)
      PROVE  FileOK(output')
  BY <1>5, FlushStep DEF flushFile
<1>6. ASSUME NEW k \in 0 .. kWritableFileBufferSize, close(k)
      PROVE  FileOK(output')
  BY <1>6, FlushStep DEF close
<1>7. ASSUME NEW k \in 0 .. kWritableFileBufferSize, NEW dirSynced \in BOOLEAN, NEW fdSynced \in BOOLEAN,
             sync(dirSynced, k, fdSynced)
      PROVE  FileOK(output')
  <2> DEFINE f == FlushBuffer(output, k)
  <2>1. /\ FileOK(f) /\ f.open /\ (~f.failed => f.os = f.all)
        /\ output' = output \/ output' = f \/ output' = [f EXCEPT !.synced = Len(f.all), !.disk = Len(f.os)]
    BY <1>7, FlushStep DEF sync
  <2> HIDE DEF f
  <2>2. f \in WritableFiles /\ Len(f.os) \in Nat /\ Len(f.all) \in Nat
    BY <2>1, LenProperties DEF FileOK, WritableFiles
  <2>3. FileOK([f EXCEPT !.synced = Len(f.all), !.disk = Len(f.os)])
    <3> DEFINE g == [f EXCEPT !.synced = Len(f.all), !.disk = Len(f.os)]
    <3>1. /\ g \in WritableFiles /\ g.buf = f.buf /\ g.os = f.os /\ g.all = f.all /\ g.failed = f.failed
          /\ g.synced = Len(f.all) /\ g.disk = Len(f.os) /\ g.open = f.open
      BY <2>2 DEF WritableFiles
    <3> HIDE DEF g
    <3>2. g.disk <= Len(g.os) /\ (~g.failed => g.synced <= g.disk)
      BY <2>1, <2>2, <3>1
    <3>3. FileOK(g)
      BY <2>1, <3>1, <3>2 DEF FileOK
    <3> QED
      BY <3>3 DEF g
  <2> QED
    BY <2>1, <2>3
<1>8. CASE ProcessDies
  <2>1. output' = [output EXCEPT !.buf = <<>>, !.open = FALSE]
    BY <1>8 DEF ProcessDies
  <2> QED
    BY <1>1, <1>3, <2>1 DEF FileOK, WritableFiles
<1>9. ASSUME NEW n \in 0 .. MaxWritten, MachineDies(n)
      PROVE  FileOK(output')
  <2> DEFINE os == SubSeq(output.os, 1, n)
  <2>1. output' = [output EXCEPT !.buf = <<>>, !.os = os, !.open = FALSE] /\ n \in output.disk .. b
    BY <1>2, <1>9 DEF MachineDies
  <2>2. n \in 0 .. b /\ output.disk <= n
    BY <1>1, <2>1
  <2>3. os \in Seq(Nat) /\ Len(os) = n
    <3>1. \A i \in 1 .. n : output.os[i] \in Nat
      BY <1>1, <1>2, <2>2, ElementOfSeq
    <3> QED
      BY <2>2, <3>1, SubSeqProperties
  <2>4. IsPrefix(output.os, output.all) => IsPrefix(os, output.all)
    BY <1>1, <1>2, <2>2, PrefixOf
  <2> HIDE DEF os
  <2>5. /\ output' \in WritableFiles /\ output'.buf = <<>> /\ output'.os = os /\ output'.all = output.all /\ ~output'.open
        /\ output'.failed = output.failed /\ output'.synced = output.synced /\ output'.disk = output.disk
    BY <1>1, <1>3, <2>1, <2>3 DEF WritableFiles
  <2> QED
    BY <1>3, <2>2, <2>3, <2>4, <2>5 DEF FileOK
<1>10. ASSUME NEW truncate \in BOOLEAN, NewWritableFile(truncate)
       PROVE  FileOK(output')
  <2>1. PICK bytes : output' = NewFile(bytes) /\ bytes \in Seq(Nat)
    <3>1. [i \in 1 .. b |-> i] \in Seq(Nat)
      <4>1. [i \in 1 .. b |-> i] \in [1 .. b -> Nat]
        OBVIOUS
      <4> QED
        BY <4>1
    <3> QED
      BY <1>2, <1>3, <1>10, <3>1 DEF NewWritableFile
  <2>2. Len(bytes) \in Nat /\ bytes \o <<>> = bytes /\ IsPrefix(bytes, bytes)
    BY <2>1, LenProperties, ConcatEmptySeq, SeqIsPrefix
  <2> QED
    BY <1>3, <2>1, <2>2 DEF FileOK, WritableFiles, NewFile
<1> QED
  BY <1>4, <1>5, <1>6, <1>7, <1>8, <1>9, <1>10 DEF FileNext

-----------------------------------------------------------------------------
(* The limits.                                                             *)

\* A reader enters a set of states, leaves it, or neither.
LEMMA Moves ==
    ASSUME ReadTypeOK, NEW t \in Readers, NEW s \in States, opened' = [opened EXCEPT ![t] = s], NEW S \in SUBSET States
    PROVE  /\ Using(S) \in Nat /\ Using(S)' \in Nat
           /\ Using(S)' = Using(S) + (IF s \in S THEN 1 ELSE 0) - (IF opened[t] \in S THEN 1 ELSE 0)
<1> DEFINE A == {r \in Readers : opened[r] \in S}
           B == {r \in Readers : opened'[r] \in S}
<1>1. IsFiniteSet(A) /\ IsFiniteSet(B)
  BY FS_Subset, EnvAssumption
<1>2. Cardinality(A) \in Nat /\ Cardinality(B) \in Nat
  BY <1>1, FS_CardinalityType
<1>3. Using(S) = Cardinality(A) /\ Using(S)' = Cardinality(B)
  BY DEF Using
<1>4. opened'[t] = s /\ \A r \in Readers : r # t => opened'[r] = opened[r]
  BY DEF ReadTypeOK
<1>5. t \in A <=> opened[t] \in S
  OBVIOUS
<1>6. CASE s \in S
  <2>1. B = A \cup {t}
    BY <1>4, <1>6
  <2>2. Cardinality(B) = IF t \in A THEN Cardinality(A) ELSE Cardinality(A) + 1
    BY <1>1, <2>1, FS_AddElement
  <2> HIDE DEF A, B
  <2> QED
    BY <1>2, <1>3, <1>5, <1>6, <2>2
<1>7. CASE s \notin S
  <2>1. B = A \ {t}
    BY <1>4, <1>7
  <2>2. Cardinality(B) = IF t \in A THEN Cardinality(A) - 1 ELSE Cardinality(A)
    BY <1>1, <2>1, FS_RemoveElement
  <2> HIDE DEF A, B
  <2> QED
    BY <1>2, <1>3, <1>5, <1>7, <2>2
<1> QED
  BY <1>6, <1>7

\* Whoever maps a table has acquired it.
LEMMA FewerUse ==
    /\ Using({"mapping", "mmap"}) <= Using({"mapping", "mmap", "nommap"})
    /\ Using({"pread"}) <= Using({"pread", "nofd"})
<1> DEFINE A(S) == {r \in Readers : opened[r] \in S}
<1>1. IsFiniteSet(A({"mapping", "mmap", "nommap"})) /\ IsFiniteSet(A({"pread", "nofd"}))
  BY FS_Subset, EnvAssumption
<1>2. /\ A({"mapping", "mmap"}) \subseteq A({"mapping", "mmap", "nommap"})
      /\ A({"pread"}) \subseteq A({"pread", "nofd"})
  OBVIOUS
<1>3. /\ Cardinality(A({"mapping", "mmap"})) <= Cardinality(A({"mapping", "mmap", "nommap"}))
      /\ Cardinality(A({"pread"})) <= Cardinality(A({"pread", "nofd"}))
  BY <1>1, <1>2, FS_Subset
<1> QED
  BY <1>3 DEF Using

LEMMA ReadStep == ReadTypeOK /\ LimitsKept /\ ReadNext => ReadTypeOK' /\ LimitsKept'
<1> SUFFICES ASSUME ReadTypeOK, LimitsKept, ReadNext PROVE ReadTypeOK' /\ LimitsKept'
  OBVIOUS
<1> DEFINE Maps == {"mapping", "mmap"}
           Mmaps == {"mapping", "mmap", "nommap"}
           Reads == {"pread"}
           Fds == {"pread", "nofd"}
<1>1. PICK t \in Readers : \/ NewRandomAccessFile(t) \/ GiveBack(t) \/ PosixRandomAccessFile(t) \/ CloseTable(t)
                           \/ \E ok \in BOOLEAN : Mmap(t, ok)
  BY DEF ReadNext
<1>2. opened[t] \in States /\ acquires \in [mmap : Int, fd : Int] /\ acquires.mmap \in Int /\ acquires.fd \in Int
      /\ MmapLimit \in Nat /\ FdLimit \in Nat
  BY EnvAssumption DEF ReadTypeOK
<1>3. /\ Using(Maps) <= MmapLimit /\ Using(Reads) <= FdLimit
      /\ acquires.mmap + Using(Mmaps) = MmapLimit /\ acquires.fd + Using(Fds) = FdLimit
  BY DEF LimitsKept
<1>4. /\ Using(Maps) <= Using(Mmaps) /\ Using(Reads) <= Using(Fds)
  BY FewerUse
<1> DEFINE s == opened'[t]
           a == acquires'.mmap
           b == acquires'.fd
<1>5. ASSUME s \in States, opened' = [opened EXCEPT ![t] = s], acquires' \in [mmap : Int, fd : Int],
             a = acquires.mmap + (IF opened[t] \in Mmaps THEN 1 ELSE 0) - (IF s \in Mmaps THEN 1 ELSE 0),
             b = acquires.fd + (IF opened[t] \in Fds THEN 1 ELSE 0) - (IF s \in Fds THEN 1 ELSE 0),
             s \in Maps => opened[t] \in Maps \/ (opened[t] \notin Mmaps /\ acquires.mmap > 0),
             s \in Reads => opened[t] \in Reads \/ (opened[t] \notin Fds /\ acquires.fd > 0)
      PROVE  ReadTypeOK' /\ LimitsKept'
  <2>1. /\ Maps \in SUBSET States /\ Mmaps \in SUBSET States /\ Reads \in SUBSET States /\ Fds \in SUBSET States
    BY DEF States
  <2>2. ASSUME NEW S \in SUBSET States
        PROVE  /\ Using(S) \in Nat /\ Using(S)' \in Nat
               /\ Using(S)' = Using(S) + (IF s \in S THEN 1 ELSE 0) - (IF opened[t] \in S THEN 1 ELSE 0)
    BY <1>5, Moves
  <2> HIDE DEF Maps, Mmaps, Reads, Fds, s, a, b
  <2>3. /\ Using(Maps) \in Nat /\ Using(Maps)' \in Nat
        /\ Using(Maps)' = Using(Maps) + (IF s \in Maps THEN 1 ELSE 0) - (IF opened[t] \in Maps THEN 1 ELSE 0)
    BY <2>1, <2>2
  <2>4. /\ Using(Mmaps) \in Nat /\ Using(Mmaps)' \in Nat
        /\ Using(Mmaps)' = Using(Mmaps) + (IF s \in Mmaps THEN 1 ELSE 0) - (IF opened[t] \in Mmaps THEN 1 ELSE 0)
    BY <2>1, <2>2
  <2>5. /\ Using(Reads) \in Nat /\ Using(Reads)' \in Nat
        /\ Using(Reads)' = Using(Reads) + (IF s \in Reads THEN 1 ELSE 0) - (IF opened[t] \in Reads THEN 1 ELSE 0)
    BY <2>1, <2>2
  <2>6. /\ Using(Fds) \in Nat /\ Using(Fds)' \in Nat
        /\ Using(Fds)' = Using(Fds) + (IF s \in Fds THEN 1 ELSE 0) - (IF opened[t] \in Fds THEN 1 ELSE 0)
    BY <2>1, <2>2
  <2>7. ReadTypeOK'
    BY <1>5 DEF ReadTypeOK, s
  <2>8. a + Using(Mmaps)' = MmapLimit /\ b + Using(Fds)' = FdLimit
    BY <1>2, <1>3, <1>5, <2>4, <2>6
  <2>9. Using(Maps)' <= MmapLimit
    BY <1>2, <1>3, <1>4, <1>5, <2>3, <2>4
  <2>10. Using(Reads)' <= FdLimit
    BY <1>2, <1>3, <1>4, <1>5, <2>5, <2>6
  <2> QED
    BY <2>7, <2>8, <2>9, <2>10 DEF LimitsKept, Maps, Mmaps, Reads, Fds, a, b
<1>6. ASSUME NEW u \in States, opened' = [opened EXCEPT ![t] = u]
      PROVE  s = u /\ opened' = [opened EXCEPT ![t] = s]
  BY <1>6 DEF ReadTypeOK
<1> HIDE DEF s, a, b
<1>8. CASE NewRandomAccessFile(t)
  <2>1. /\ opened[t] = "none" /\ s = (IF acquires.mmap > 0 THEN "mapping" ELSE "nommap")
        /\ opened' = [opened EXCEPT ![t] = s]
    BY <1>2, <1>6, <1>8 DEF NewRandomAccessFile, Acquire, States
  <2>2. /\ a = acquires.mmap - 1 /\ b = acquires.fd /\ acquires' \in [mmap : Int, fd : Int]
    BY <1>2, <1>8 DEF NewRandomAccessFile, Acquire, a, b
  <2> QED
    BY <1>2, <1>5, <2>1, <2>2 DEF States
<1>9. CASE PosixRandomAccessFile(t)
  <2>1. /\ opened[t] = "fd" /\ s = (IF acquires.fd > 0 THEN "pread" ELSE "nofd")
        /\ opened' = [opened EXCEPT ![t] = s]
    BY <1>2, <1>6, <1>9 DEF PosixRandomAccessFile, Acquire, States
  <2>2. /\ a = acquires.mmap /\ b = acquires.fd - 1 /\ acquires' \in [mmap : Int, fd : Int]
    BY <1>2, <1>9 DEF PosixRandomAccessFile, Acquire, a, b
  <2> QED
    BY <1>2, <1>5, <2>1, <2>2 DEF States
<1>10. CASE GiveBack(t) /\ opened[t] = "nommap"
  <2>1. /\ s = "fd" /\ opened' = [opened EXCEPT ![t] = s]
    BY <1>2, <1>6, <1>10 DEF GiveBack, Release, States
  <2>2. /\ a = acquires.mmap + 1 /\ b = acquires.fd /\ acquires' \in [mmap : Int, fd : Int]
    BY <1>2, <1>10 DEF GiveBack, Release, a, b
  <2> QED
    BY <1>2, <1>5, <1>10, <2>1, <2>2 DEF States
<1>11. CASE GiveBack(t) /\ opened[t] = "nofd"
  <2>1. /\ s = "none" /\ opened' = [opened EXCEPT ![t] = s]
    BY <1>2, <1>6, <1>11 DEF GiveBack, Release, States
  <2>2. /\ a = acquires.mmap /\ b = acquires.fd + 1 /\ acquires' \in [mmap : Int, fd : Int]
    BY <1>2, <1>11 DEF GiveBack, Release, a, b
  <2> QED
    BY <1>2, <1>5, <1>11, <2>1, <2>2 DEF States
<1>12. CASE CloseTable(t) /\ opened[t] = "mmap"
  <2>1. /\ s = "none" /\ opened' = [opened EXCEPT ![t] = s]
    BY <1>2, <1>6, <1>12 DEF CloseTable, Release, States
  <2>2. /\ a = acquires.mmap + 1 /\ b = acquires.fd /\ acquires' \in [mmap : Int, fd : Int]
    BY <1>2, <1>12 DEF CloseTable, Release, a, b
  <2> QED
    BY <1>2, <1>5, <1>12, <2>1, <2>2 DEF States
<1>13. CASE CloseTable(t) /\ opened[t] = "pread"
  <2>1. /\ s = "none" /\ opened' = [opened EXCEPT ![t] = s]
    BY <1>2, <1>6, <1>13 DEF CloseTable, Release, States
  <2>2. /\ a = acquires.mmap /\ b = acquires.fd + 1 /\ acquires' \in [mmap : Int, fd : Int]
    BY <1>2, <1>13 DEF CloseTable, Release, a, b
  <2> QED
    BY <1>2, <1>5, <1>13, <2>1, <2>2 DEF States
<1>14. ASSUME Mmap(t, TRUE)
       PROVE  ReadTypeOK' /\ LimitsKept'
  <2>1. /\ opened[t] = "mapping" /\ s = "mmap" /\ opened' = [opened EXCEPT ![t] = s]
    BY <1>2, <1>6, <1>14 DEF Mmap, States
  <2>2. /\ a = acquires.mmap /\ b = acquires.fd /\ acquires' \in [mmap : Int, fd : Int]
    BY <1>2, <1>14 DEF Mmap, a, b
  <2> QED
    BY <1>2, <1>5, <2>1, <2>2 DEF States
<1>15. ASSUME Mmap(t, FALSE)
       PROVE  ReadTypeOK' /\ LimitsKept'
  <2>1. /\ opened[t] = "mapping" /\ s = "none" /\ opened' = [opened EXCEPT ![t] = s]
    BY <1>2, <1>6, <1>15 DEF Mmap, Release, States
  <2>2. /\ a = acquires.mmap + 1 /\ b = acquires.fd /\ acquires' \in [mmap : Int, fd : Int]
    BY <1>2, <1>15 DEF Mmap, Release, a, b
  <2> QED
    BY <1>2, <1>5, <2>1, <2>2 DEF States
<1>16. /\ GiveBack(t) => opened[t] \in {"nommap", "nofd"}
       /\ CloseTable(t) => opened[t] \in {"mmap", "pread"}
  BY DEF GiveBack, CloseTable
<1> QED
  BY <1>1, <1>8, <1>9, <1>10, <1>11, <1>12, <1>13, <1>14, <1>15, <1>16

-----------------------------------------------------------------------------
(* The LOCK file.                                                          *)

\* A process that gives the fcntl lock up is remembered when one of its
\* databases is open.
LEMMA DropStep ==
    ASSUME LockFileInv, NEW o \in Openers, Drop(o, OpenIn(ProcessOf[o])), NEW p \in Openers, p # o, lockpc[p] = "held"
    PROVE  owner' = ProcessOf[p] \/ ProcessOf[p] \in dropped'
<1>1. owner = ProcessOf[p] \/ ProcessOf[p] \in dropped
  BY DEF LockFileInv
<1>2. ProcessOf[p] = ProcessOf[o] => p \in OpenIn(ProcessOf[o]) \ {o}
  BY DEF OpenIn
<1> QED
  BY <1>1, <1>2 DEF Drop

LEMMA LockStep == LockFileInv /\ LockFileNext => LockFileInv'
<1> SUFFICES ASSUME LockFileInv, LockFileNext PROVE LockFileInv'
  OBVIOUS
<1>1. PICK o \in Openers : LockFile(o) \/ InsertLock(o) \/ SetLock(o) \/ UnlockFile(o) \/ RemoveLock(o)
  BY DEF LockFileNext
<1>2. CASE LockFile(o)
  BY <1>2 DEF LockFile, LockFileInv, InTable
<1>3. CASE InsertLock(o) /\ EnvOf[o] \in lockTable
  <2>1. lockpc' = [lockpc EXCEPT ![o] = "closed"] /\ lockTable' = lockTable /\ Drop(o, OpenIn(ProcessOf[o]))
    BY <1>3 DEF InsertLock
  <2>2. \A p \in Openers : lockpc'[p] = "held" => owner' = ProcessOf[p] \/ ProcessOf[p] \in dropped'
    BY <2>1, DropStep DEF LockFileInv
  <2> QED
    BY <2>1, <2>2 DEF LockFileInv, InTable
<1>4. CASE InsertLock(o) /\ EnvOf[o] \notin lockTable
  BY <1>4 DEF InsertLock, LockFileInv, InTable
<1>5. CASE SetLock(o)
  BY <1>5, EnvAssumption DEF SetLock, LockFileInv, InTable
<1>6. CASE UnlockFile(o)
  <2>1. lockpc' = [lockpc EXCEPT ![o] = "unlocked"] /\ lockTable' = lockTable /\ Drop(o, OpenIn(ProcessOf[o])) /\ lockpc[o] = "held"
    BY <1>6 DEF UnlockFile
  <2>2. \A p \in Openers : lockpc'[p] = "held" => owner' = ProcessOf[p] \/ ProcessOf[p] \in dropped'
    BY <2>1, DropStep DEF LockFileInv
  <2> QED
    BY <2>1, <2>2 DEF LockFileInv, InTable
<1>7. CASE RemoveLock(o)
  <2>1. /\ lockpc' = [lockpc EXCEPT ![o] = "closed"] /\ lockTable' = lockTable \ {EnvOf[o]} /\ Drop(o, OpenIn(ProcessOf[o]))
        /\ lockpc[o] = "unlocked"
    BY <1>7 DEF RemoveLock
  <2>2. \A p \in Openers : lockpc'[p] = "held" => owner' = ProcessOf[p] \/ ProcessOf[p] \in dropped'
    BY <2>1, DropStep DEF LockFileInv
  <2> QED
    BY <2>1, <2>2 DEF LockFileInv, InTable
<1> QED
  BY <1>1, <1>2, <1>3, <1>4, <1>5, <1>6, <1>7

-----------------------------------------------------------------------------
LEMMA InitEnv == EnvInit => EnvInv
<1> SUFFICES ASSUME EnvInit PROVE EnvInv
  OBVIOUS
<1>1. FileOK(output)
  <2>1. <<>> \in Seq(Nat) /\ Len(<<>>) = 0 /\ <<>> \o <<>> = <<>> /\ IsPrefix(<<>>, <<>>)
    BY EmptySeq, ConcatEmptySeq, SeqIsPrefix
  <2> QED
    BY <2>1, EnvAssumption DEF EnvInit, NewFile, FileOK, WritableFiles
<1>2. ReadTypeOK
  BY EnvAssumption DEF EnvInit, ReadTypeOK, States
<1>3. LimitsKept
  <2>1. ASSUME NEW S, "none" \notin S PROVE Using(S) = 0
    <3>1. {t \in Readers : opened[t] \in S} = {}
      BY <2>1 DEF EnvInit
    <3> QED
      BY <3>1, FS_EmptySet DEF Using
  <2>2. /\ Using({"mapping", "mmap"}) = 0 /\ Using({"pread"}) = 0
        /\ Using({"mapping", "mmap", "nommap"}) = 0 /\ Using({"pread", "nofd"}) = 0
    BY <2>1
  <2>3. acquires.mmap = MmapLimit /\ acquires.fd = FdLimit
    BY DEF EnvInit
  <2> QED
    BY <2>2, <2>3, EnvAssumption DEF LimitsKept
<1>4. LockFileInv
  BY DEF EnvInit, LockFileInv, InTable
<1> QED
  BY <1>1, <1>2, <1>3, <1>4 DEF EnvInv

(* Whatever the threads, the processes and the system do, the parts of the *)
(* file layer keep to the invariant (WritableFile, Limiter, LockFile).     *)
THEOREM EnvCorrect == EnvSpec => []EnvInv
<1>1. EnvInv /\ [EnvNext]_envVars => EnvInv'
  <2> SUFFICES ASSUME EnvInv, [EnvNext]_envVars PROVE EnvInv'
    OBVIOUS
  <2>1. UNCHANGED fileVars => FileOK(output')
    BY DEF EnvInv, fileVars
  <2>2. UNCHANGED readVars => ReadTypeOK' /\ LimitsKept'
    BY DEF EnvInv, readVars, ReadTypeOK, LimitsKept, Using
  <2>3. UNCHANGED dblockVars => LockFileInv'
    BY DEF EnvInv, dblockVars, LockFileInv, InTable
  <2>4. CASE FileNext /\ UNCHANGED <<readVars, dblockVars>>
    BY <2>2, <2>3, <2>4, FileStep DEF EnvInv
  <2>5. CASE ReadNext /\ UNCHANGED <<fileVars, dblockVars>>
    BY <2>1, <2>3, <2>5, ReadStep DEF EnvInv
  <2>6. CASE LockFileNext /\ UNCHANGED <<fileVars, readVars>>
    BY <2>1, <2>2, <2>6, LockStep DEF EnvInv
  <2>7. CASE UNCHANGED envVars
    BY <2>1, <2>2, <2>3, <2>7 DEF EnvInv, envVars
  <2> QED
    BY <2>4, <2>5, <2>6, <2>7 DEF EnvNext
<1> QED
  BY <1>1, InitEnv, PTL DEF EnvSpec

(* The three promises of the file layer: a file holds what was appended to *)
(* it, the limits are kept, and a database is open once for each Env.      *)
THEOREM EnvKeepsCorrect == EnvSpec => []EnvKeeps
<1>1. EnvInv => EnvKeeps
  <2> SUFFICES ASSUME EnvInv PROVE EnvKeeps
    OBVIOUS
  <2>1. FileHoldsAppended
    <3>1. output.disk \in Nat /\ output.synced \in Nat /\ output.os \in Seq(Nat) /\ output.disk <= Len(output.os)
      BY DEF EnvInv, FileOK, WritableFiles
    <3>2. Len(output.os) \in Nat
      BY <3>1, LenProperties
    <3>3. output.synced <= output.disk => output.synced <= Len(output.os)
      BY <3>1, <3>2
    <3> QED
      BY <3>3 DEF EnvInv, FileOK, FileHoldsAppended
  <2>2. LockExclusive
    BY DEF EnvInv, LockFileInv, LockExclusive, InTable
  <2> QED
    BY <2>1, <2>2 DEF EnvInv, EnvKeeps
<1> QED
  BY <1>1, EnvCorrect, PTL
================================================================================
