------------------------------- MODULE SkipList -------------------------------
(***************************************************************************)
(* The skip list of a memtable: one writer links nodes while a reader      *)
(* walks the same pointers without a lock.                                 *)
(*                                                                         *)
(* A node is its key, 1 .. MaxKey.  Loads and stores of nextnode are       *)
(* acquire and release and taken in one order; a reader may start from any *)
(* value that maxheight has had, because that load is relaxed.             *)
(***************************************************************************)
EXTENDS Integers, FiniteSets, FiniteSetsExt

CONSTANTS MaxKey, kMaxHeight

ASSUME SkipListAssumption == MaxKey \in Nat \ {0} /\ kMaxHeight \in Nat \ {0}

Keys == 1 .. MaxKey
head == 0
nullnode == MaxKey + 1      \* nullptr, which sorts after all keys
Garbage == -1          \* a link of a node that nobody has set yet
Links == 0 .. kMaxHeight - 1

VARIABLES nextnode,    \* nextnode[n][i]
          maxheights,  \* the values of SkipList::maxheight, up to the present one
          insert,      \* the writer's call of Insert
          finished,    \* keys whose Insert has returned
          search       \* the reader's SkipList::Iterator and the call it is in

skipVars == <<nextnode, maxheights, insert, finished, search>>

NoInsert == [pc |-> "none"]

SkipInit ==
    /\ nextnode = [n \in {head} \cup Keys |-> [i \in Links |-> IF n = head THEN nullnode ELSE Garbage]]
    /\ maxheights = {1} /\ finished = {} /\ insert = NoInsert
    /\ search = [pc |-> "idle", op |-> "new", key |-> nullnode, x |-> nullnode, level |-> 0, before |-> {}]

KeyIsAfterNode(key, n) == n < key

-----------------------------------------------------------------------------
(* Insert, the calls of which are serialised from outside.                 *)

StartInsert(key) ==
    /\ insert = NoInsert /\ key \notin finished
    /\ insert' = [pc |-> "find", key |-> key, x |-> head, level |-> Max(maxheights) - 1,
                  Prev |-> [i \in Links |-> head], height |-> 0]
    /\ UNCHANGED <<nextnode, maxheights, finished, search>>

\* One round of FindGreaterOrEqual, which fills Prev.
FindPrev ==
    LET n == nextnode[insert.x][insert.level]
    IN  /\ insert.pc = "find"
        /\ insert' = IF KeyIsAfterNode(insert.key, n) THEN [insert EXCEPT !.x = n]
                     ELSE [insert EXCEPT !.Prev[insert.level] = insert.x,
                                         !.pc = IF insert.level = 0 THEN "height" ELSE "find",
                                         !.level = Max({0, insert.level - 1})]
        /\ UNCHANGED <<nextnode, maxheights, finished, search>>

\* RandomHeight and, above the height of the list, a new maxheight.
RaiseHeight(height) ==
    /\ insert.pc = "height"
    /\ maxheights' = IF height > Max(maxheights) THEN maxheights \cup {height} ELSE maxheights
    /\ insert' = [insert EXCEPT !.pc = "link", !.level = 0, !.height = height]
    /\ UNCHANGED <<nextnode, finished, search>>

\* Mutant: the new node is linked from its highest level down.
LinkFromTheTop ==
    LET i == insert.height - 1 - insert.level
        prev == insert.Prev[i]
    IN  /\ insert.pc = "link"
        /\ nextnode' = [nextnode EXCEPT ![insert.key][i] = nextnode[prev][i], ![prev][i] = insert.key]
        /\ IF insert.level + 1 = insert.height
           THEN insert' = NoInsert /\ finished' = finished \cup {insert.key}
           ELSE insert' = [insert EXCEPT !.level = @ + 1] /\ UNCHANGED finished
        /\ UNCHANGED <<maxheights, search>>

\* One round of the last loop: the node's link, then the link to the node.
LinkLevel ==
    LET i == insert.level
        prev == insert.Prev[i]
    IN  /\ insert.pc = "link"
        /\ nextnode' = [nextnode EXCEPT ![insert.key][i] = nextnode[prev][i], ![prev][i] = insert.key]
        /\ IF i + 1 = insert.height
           THEN insert' = NoInsert /\ finished' = finished \cup {insert.key}
           ELSE insert' = [insert EXCEPT !.level = @ + 1] /\ UNCHANGED finished
        /\ UNCHANGED <<maxheights, search>>

-----------------------------------------------------------------------------
(* The reader.  key is the target, or the node the iterator stands on.     *)

\* Seek, SeekToLast and Prev search from the head, at a height read racily.
StartSearch(op, key, height) ==
    /\ search.pc = "idle"
    /\ op = "Prev" => search.key # nullnode /\ key = search.key
    /\ search' = [pc |-> "search", op |-> op, key |-> key, x |-> head, level |-> height - 1,
                  before |-> finished]
    /\ UNCHANGED <<nextnode, maxheights, insert, finished>>

\* SeekToFirst and Next load one pointer.
Load(op) ==
    /\ search.pc = "idle"
    /\ op = "Next" => search.key # nullnode
    /\ LET from == IF op = "Next" THEN search.key ELSE head
       IN  search' = [pc |-> "done", op |-> op, key |-> from, x |-> nextnode[from][0], level |-> 0,
                      before |-> finished]
    /\ UNCHANGED <<nextnode, maxheights, insert, finished>>

\* FindGreaterOrEqual, FindLessThan and FindLast go on while this holds.
GoesOn(n) == n # nullnode /\ (search.op = "SeekToLast" \/ KeyIsAfterNode(search.key, n))

SearchStep ==
    LET n == nextnode[search.x][search.level]
        result == IF search.op = "Seek" THEN n ELSE IF search.x = head THEN nullnode ELSE search.x
    IN  /\ search.pc = "search" /\ search.x # Garbage
        /\ search' = IF GoesOn(n) THEN [search EXCEPT !.x = n]
                     ELSE IF search.level > 0 THEN [search EXCEPT !.level = @ - 1]
                     ELSE [search EXCEPT !.pc = "done", !.x = result]
        /\ UNCHANGED <<nextnode, maxheights, insert, finished>>

\* The iterator stands on the node that was found.
ReturnNode == /\ search.pc = "done" /\ search.x # Garbage
              /\ search' = [search EXCEPT !.pc = "idle", !.key = search.x, !.before = {}]
              /\ UNCHANGED <<nextnode, maxheights, insert, finished>>

SkipNext ==
    \/ \E k \in Keys : StartInsert(k)
    \/ FindPrev
    \/ \E h \in 1 .. kMaxHeight : RaiseHeight(h)
    \/ LinkLevel
    \/ \E k \in Keys, h \in maxheights : StartSearch("Seek", k, h) \/ StartSearch("Prev", k, h)
    \/ \E h \in maxheights : StartSearch("SeekToLast", nullnode, h)
    \/ Load("SeekToFirst") \/ Load("Next")
    \/ SearchStep \/ ReturnNode

SkipSpec == SkipInit /\ [][SkipNext]_skipVars

-----------------------------------------------------------------------------
\* What the call asks for.
Wanted(k) == CASE search.op = "Seek" -> k >= search.key
               [] search.op \in {"Next", "SeekToFirst"} -> k > search.key
               [] search.op = "Prev" -> k < search.key
               [] search.op = "SeekToLast" -> TRUE

\* A search that runs into an Insert follows no link that is not set, and what
\* it finds is wanted and is or will be in the list; it passes by no key whose
\* Insert had returned before the search began.
SearchMissesNothing ==
    /\ search.x # Garbage
    /\ search.pc = "done" =>
         LET wanted == {k \in search.before : Wanted(k)}
         IN  IF search.x = nullnode THEN wanted = {}
             ELSE /\ Wanted(search.x)
                  /\ search.x \in finished \/ (insert # NoInsert /\ search.x = insert.key)
                  /\ \A k \in wanted : IF search.op \in {"Prev", "SeekToLast"} THEN k <= search.x
                                       ELSE search.x <= k
=============================================================================
