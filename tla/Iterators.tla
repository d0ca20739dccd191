------------------------------ MODULE Iterators ------------------------------
(***************************************************************************)
(* What a client sees that walks the database: DBIter over the merge of    *)
(* the memtables, the tables of level 0 and the files of level 1, while    *)
(* writes, flushes and compactions go on.                                  *)
(*                                                                         *)
(* An iterator is a record with the fields of its class; Move dispatches   *)
(* on its kind as a virtual call does.  A memtable is the set of its       *)
(* entries (SkipList shows why), read as it is at the time of the move.    *)
(* Tables are mapped into memory, so that their blocks are not cachable    *)
(* and BlockReader never fills the block cache.                            *)
(***************************************************************************)
EXTENDS TableFormat, TLC

CONSTANTS Batches,        \* the batches a client may write: sequences of puts and deletes
          MaxBatches,     \* bound: calls of Write
          MaxMoves,       \* bound: moves of the iterator
          TableEntries    \* entries that fill a table of a compaction

ASSUME IteratorAssumption == MaxBatches \in Nat /\ MaxMoves \in Nat /\ TableEntries \in Nat \ {0}

VARIABLES mems,           \* memtables ever made: the set of the entries of each
          imm,            \* mems[Len(mems) - 1] is DB::imm
          lastsequence,
          files,          \* Version::files: the numbers of the tables of each level
          tables,         \* tables ever built
          snapshots,      \* sequence numbers the client got a snapshot of
          compacted,      \* lastsequence at the last compaction
          batches, moves,
          iter,           \* the client's DBIter, or NoIter
          at              \* where the client should be: a position in its view

iterVars == <<mems, imm, lastsequence, files, tables, snapshots, compacted, batches, moves,
              iter, at>>

NoIter == [kind |-> "none"]
ErrorIter == [kind |-> "error"]     \* never valid
NoKey == <<>>

-----------------------------------------------------------------------------
(* The iterators over one memtable and over the file list of a level.      *)

MemIter(i) == [kind |-> "mem", id |-> i, at |-> NoKey]
MemKeys(it) == {e.key : e \in mems[it.id]}
First(S) == IF S = {} THEN NoKey ELSE CHOOSE k \in S : \A l \in S \ {k} : Less(k, l)
LastOf(S) == IF S = {} THEN NoKey ELSE CHOOSE k \in S : \A l \in S \ {k} : Less(l, k)

MemMove(it, op, target) ==
    [it EXCEPT !.at =
        CASE op = "SeekToFirst" -> First(MemKeys(it))
          [] op = "SeekToLast" -> LastOf(MemKeys(it))
          [] op = "Seek" -> First({k \in MemKeys(it) : ~ Less(k, target)})
          [] op = "Next" -> First({k \in MemKeys(it) : Less(it.at, k)})
          [] op = "Prev" -> LastOf({k \in MemKeys(it) : Less(k, it.at)})]

\* The block of a table, 0 for its index.
BlockOf(t, i) == IF i = 0 THEN tables[t].index ELSE tables[t].blocks[i]
TableBlockIter(t, i) == BlockIter(BlockOf(t, i)) @@ [table |-> t, block |-> i]

Smallest(t) == tables[t].blocks[1].buffer[1].delta
Largest(t) == tables[t].lastkey

\* A position behind the last file is not valid.
FilesIter(list) == [kind |-> "files", list |-> list, index |-> Len(list) + 1]

FilesMove(it, op, target) ==
    LET n == Len(it.list)
    IN  [it EXCEPT !.index =
            CASE op = "SeekToFirst" -> 1
              [] op = "SeekToLast" -> IF n = 0 THEN 1 ELSE n
              [] op = "Seek" -> Min({i \in 1 .. n : ~ Less(Largest(it.list[i]), target)}
                                    \cup {n + 1})
              [] op = "Next" -> it.index + 1
              [] op = "Prev" -> IF it.index = 1 THEN n + 1 ELSE it.index - 1]

\* A table, or a level of files: an index and the block or file it points to.
TableIter(t) == [kind |-> "two", table |-> t, index |-> TableBlockIter(t, 0),
                 data |-> NoIter, handle |-> 0]
LevelIter(list) == [kind |-> "two", table |-> 0, index |-> FilesIter(list),
                    data |-> NoIter, handle |-> 0]

MergingIter(children) == IF Len(children) = 1 THEN children[1]
                         ELSE [kind |-> "merge", children |-> children, current |-> 0,
                               direction |-> "forward"]

-----------------------------------------------------------------------------
(* What all of them offer.                                                 *)

RECURSIVE Valid(_), Key(_), Value(_)
Valid(it) == CASE it.kind = "block" -> BlockValid(BlockOf(it.table, it.block), it)
               [] it.kind = "mem" -> it.at # NoKey
               [] it.kind = "files" -> it.index <= Len(it.list)
               [] it.kind = "two" -> Valid(it.data)
               [] it.kind = "merge" -> it.current # 0
               [] it.kind \in {"none", "error"} -> FALSE

Key(it) == CASE it.kind = "block" -> it.k
             [] it.kind = "mem" -> it.at
             [] it.kind = "two" -> Key(it.data)
             [] it.kind = "merge" -> Key(it.children[it.current])

Value(it) == CASE it.kind = "block" -> BlockOf(it.table, it.block).buffer[it.cur].value
               [] it.kind = "mem" -> (CHOOSE e \in mems[it.id] : e.key = it.at).value
               [] it.kind = "files" -> it.list[it.index]
               [] it.kind = "two" -> Value(it.data)
               [] it.kind = "merge" -> Value(it.children[it.current])

RECURSIVE Move(_, _, _)
MoveData(it, op, target) == IF it.data = NoIter THEN it
                            ELSE [it EXCEPT !.data = Move(@, op, target)]

\* The tables of the current version: DeleteObsoleteFiles removes all others.
LiveTables == UNION {Range(files[l]) : l \in DOMAIN files}

\* The block or file the index points to, opened unless it is open already.
InitDataBlock(it) ==
    LET handle == Value(it.index)
    IN  IF ~ Valid(it.index) THEN [it EXCEPT !.data = NoIter]
        ELSE IF it.data # NoIter /\ it.handle = handle THEN it
        ELSE [it EXCEPT !.handle = handle,
                        !.data = IF it.table = 0
                                 THEN IF handle \in LiveTables THEN TableIter(handle) ELSE ErrorIter
                                 ELSE TableBlockIter(it.table, handle)]

RECURSIVE SkipEmptyDataBlocks(_, _)
SkipEmptyDataBlocks(it, forward) ==
    LET index == Move(it.index, IF forward THEN "Next" ELSE "Prev", NoKey)
        next == InitDataBlock([it EXCEPT !.index = index])
    IN  IF Valid(it.data) THEN it
        ELSE IF ~ Valid(it.index) THEN [it EXCEPT !.data = NoIter]
        ELSE SkipEmptyDataBlocks(
                MoveData(next, IF forward THEN "SeekToFirst" ELSE "SeekToLast", NoKey), forward)

TwoLevelMove(it, op, target) ==
    LET there == IF op \in {"Next", "Prev"} THEN it
                 ELSE InitDataBlock([it EXCEPT !.index = Move(@, op, target)])
    IN  SkipEmptyDataBlocks(MoveData(there, op, target), op \notin {"Prev", "SeekToLast"})

\* findSmallest takes the first of equal children, findLargest the last.
findSmallest(children) ==
    LET valid == {i \in DOMAIN children : Valid(children[i])}
    IN  IF valid = {} THEN 0
        ELSE Min({i \in valid : \A j \in valid : ~ Less(Key(children[j]), Key(children[i]))})

findLargest(children) ==
    LET valid == {i \in DOMAIN children : Valid(children[i])}
    IN  IF valid = {} THEN 0
        ELSE Max({i \in valid : \A j \in valid : ~ Less(Key(children[i]), Key(children[j]))})

\* The other children when the direction changes to forward: past the key.
AfterKey(child, key) ==
    LET c == Move(child, "Seek", key)
    IN  IF Valid(c) /\ Key(c) = key THEN Move(c, "Next", NoKey) ELSE c

\* Mutant: a child without entries from the key on is left where it is.
BeforeKeyUnlessEnd(child, key) ==
    LET c == Move(child, "Seek", key)
    IN  IF Valid(c) THEN Move(c, "Prev", NoKey) ELSE c

\* And to reverse: before the key, at the end when the key is above all.
BeforeKey(child, key) ==
    LET c == Move(child, "Seek", key)
    IN  IF Valid(c) THEN Move(c, "Prev", NoKey) ELSE Move(c, "SeekToLast", NoKey)

MergingMove(it, op, target) ==
    LET Each(F(_)) == Eager([i \in DOMAIN it.children |-> F(it.children[i])])
        Others(F(_, _)) == Eager([i \in DOMAIN it.children |->
            IF i = it.current THEN it.children[i] ELSE F(it.children[i], Key(it))])
        turned == IF op = "Next" /\ it.direction # "forward" THEN Others(AfterKey)
                  ELSE IF op = "Prev" /\ it.direction # "reverse" THEN Others(BeforeKey)
                  ELSE it.children
        moved == IF op \in {"Next", "Prev"}
                 THEN [turned EXCEPT ![it.current] = Move(@, op, NoKey)]
                 ELSE Each(LAMBDA c : Move(c, op, target))
        forward == op \notin {"Prev", "SeekToLast"}
    IN  [it EXCEPT !.children = moved,
                   !.current = IF forward THEN findSmallest(moved) ELSE findLargest(moved),
                   !.direction = IF forward THEN "forward" ELSE "reverse"]

Move(it, op, target) == CASE it.kind = "block" -> BlockMove(BlockOf(it.table, it.block), it, op, target)
                          [] it.kind = "mem" -> MemMove(it, op, target)
                          [] it.kind = "error" -> it
                          [] it.kind = "files" -> FilesMove(it, op, target)
                          [] it.kind = "two" -> TwoLevelMove(it, op, target)
                          [] it.kind = "merge" -> MergingMove(it, op, target)

-----------------------------------------------------------------------------
(* DBIter: d.it is the internal iterator, skip the saved key.              *)

DBIter(it, sequence) == [kind |-> "db", it |-> it, sequence |-> sequence, vali |-> FALSE,
                         direction |-> "forward", savedkey |-> NoKey, savedvalue |-> NoKey]

Step(d, op) == [d EXCEPT !.it = Move(@, op, NoKey)]
UserKeyOf(d) == ExtractUserKey(Key(d.it))
Visible(d) == SequenceOf(Key(d.it)) <= d.sequence
Done(d) == [d EXCEPT !.vali = FALSE, !.savedkey = NoKey]

RECURSIVE FindNextUserEntry(_, _)
FindNextUserEntry(d, skipping) ==
    LET deletion == Visible(d) /\ TypeOf(Key(d.it)) = kTypeDeletion
        hidden == skipping /\ ~ UserLess(d.savedkey, UserKeyOf(d))
        e == IF deletion THEN [d EXCEPT !.savedkey = UserKeyOf(d)] ELSE d
    IN  IF ~ Valid(d.it) THEN Done(d)
        ELSE IF Visible(d) /\ ~ deletion /\ ~ hidden
        THEN [d EXCEPT !.vali = TRUE, !.savedkey = NoKey]
        ELSE FindNextUserEntry(Step(e, "Next"), skipping \/ deletion)

\* The saved entry is what the client sees, unless a deletion came after it.
RECURSIVE FindPrevUserEntry(_, _)
FindPrevUserEntry(d, valueType) ==
    LET other == valueType # kTypeDeletion /\ UserLess(UserKeyOf(d), d.savedkey)
        type == TypeOf(Key(d.it))
        e == IF type = kTypeDeletion THEN [d EXCEPT !.savedkey = NoKey, !.savedvalue = NoKey]
             ELSE [d EXCEPT !.savedkey = UserKeyOf(d), !.savedvalue = Value(d.it)]
    IN  IF ~ Valid(d.it) \/ (Visible(d) /\ other)
        THEN IF valueType = kTypeDeletion
             THEN [Done(d) EXCEPT !.savedvalue = NoKey, !.direction = "forward"]
             ELSE [d EXCEPT !.vali = TRUE]
        ELSE IF Visible(d) THEN FindPrevUserEntry(Step(e, "Prev"), type)
        ELSE FindPrevUserEntry(Step(d, "Prev"), valueType)

DBNext(d) ==
    LET reverse == d.direction = "reverse"
        e == IF ~ reverse THEN Step([d EXCEPT !.savedkey = UserKeyOf(d)], "Next")
             ELSE Step([d EXCEPT !.direction = "forward"],
                       IF Valid(d.it) THEN "Next" ELSE "SeekToFirst")
    IN  IF Valid(e.it) THEN FindNextUserEntry(e, TRUE) ELSE Done(e)

\* Back over the entries of the current key.
RECURSIVE BeforeSavedKey(_)
BeforeSavedKey(d) ==
    LET e == Step(d, "Prev")
    IN  IF ~ Valid(e.it) \/ UserLess(UserKeyOf(e), e.savedkey) THEN e ELSE BeforeSavedKey(e)

DBPrev(d) ==
    LET e == BeforeSavedKey([d EXCEPT !.savedkey = UserKeyOf(d)])
    IN  IF d.direction = "reverse" THEN FindPrevUserEntry(d, kTypeDeletion)
        ELSE IF ~ Valid(e.it) THEN [Done(e) EXCEPT !.savedvalue = NoKey]
        ELSE FindPrevUserEntry([e EXCEPT !.direction = "reverse"], kTypeDeletion)

DBSeek(d, op, target) ==
    LET fresh == [d EXCEPT !.savedvalue = NoKey]
    IN  IF op = "SeekToLast"
        THEN FindPrevUserEntry([Step(fresh, op) EXCEPT !.direction = "reverse"], kTypeDeletion)
        ELSE LET k == InternalKey(target, d.sequence, kTypeValue)
                 e == [fresh EXCEPT !.direction = "forward", !.it = Move(@, op, k)]
             IN  IF Valid(e.it) THEN FindNextUserEntry(e, FALSE) ELSE [e EXCEPT !.vali = FALSE]

DBMove(d, op, target) == CASE op = "Next" -> DBNext(d)
                           [] op = "Prev" -> DBPrev(d)
                           [] OTHER -> DBSeek(d, op, target)

DBKey(d) == IF d.direction = "forward" THEN UserKeyOf(d) ELSE d.savedkey
DBValue(d) == IF d.direction = "forward" THEN Value(d.it) ELSE d.savedvalue

-----------------------------------------------------------------------------
(* The database around them.                                               *)

Levels == 0 .. 2

IterInit == /\ mems = <<{}>> /\ imm = FALSE /\ lastsequence = 0
            /\ files = [l \in Levels |-> <<>>] /\ tables = <<>>
            /\ snapshots = {} /\ compacted = 0
            /\ batches = 0 /\ moves = 0 /\ iter = NoIter /\ at = 0

EntriesOf(batch) ==
    {[key |-> InternalKey(batch[i].key, lastsequence + i, batch[i].type),
      value |-> <<lastsequence + i>>] : i \in DOMAIN batch}

\* One call of Write: the entries of the batch get consecutive numbers.
WriteBatch(batch) ==
    /\ batches < MaxBatches
    /\ batches' = batches + 1
    /\ mems' = [mems EXCEPT ![Len(mems)] = @ \cup EntriesOf(batch)]
    /\ lastsequence' = lastsequence + Len(batch)
    /\ UNCHANGED <<imm, files, tables, snapshots, compacted, moves, iter, at>>

\* The memtable is full: it becomes imm.
Switch == /\ ~ imm /\ mems[Len(mems)] # {}
          /\ mems' = Append(mems, {}) /\ imm' = TRUE
          /\ UNCHANGED <<lastsequence, files, tables, snapshots, compacted, batches, moves,
                         iter, at>>

Overlaps(t, smallest, largest) == /\ ~ UserLess(largest, ExtractUserKey(Smallest(t)))
                                  /\ ~ UserLess(ExtractUserKey(Largest(t)), smallest)

OverlapInLevel(l, smallest, largest) ==
    \E i \in DOMAIN files[l] : Overlaps(files[l][i], smallest, largest)

PickLevelForMemTableOutput(smallest, largest) ==
    LET free == {l \in Levels : \A j \in 0 .. l : ~ OverlapInLevel(j, smallest, largest)}
    IN  Max({0} \cup free)

\* BySmallestKey: by the smallest key, then by number.
BySmallestKey(T, t, u) == LET s == [x \in {t, u} |-> T[x].blocks[1].buffer[1].delta]
                          IN  Less(s[t], s[u]) \/ (s[t] = s[u] /\ t < u)

\* Builder::Apply and SaveTo: the files of a level after an edit.
SaveTo(T, base, deleted, added) ==
    Sorted((Range(base) \ deleted) \cup added, LAMBDA t, u : BySmallestKey(T, t, u))

\* CompactMemTable: BuildTable from imm, into the level that is free for it.
CompactMemTable ==
    LET entries == Sorted(mems[Len(mems) - 1], LAMBDA e, f : Less(e.key, f.key))
        T == Append(tables, BuildTable(entries))
        level == PickLevelForMemTableOutput(ExtractUserKey(Head(entries).key),
                                            ExtractUserKey(Last(entries).key))
    IN  /\ imm
        /\ imm' = FALSE
        /\ tables' = T
        /\ files' = [files EXCEPT ![level] = SaveTo(T, @, {}, {Len(T)})]
        /\ UNCHANGED <<mems, lastsequence, snapshots, compacted, batches, moves, iter, at>>

\* AddIterators: each table of level 0, the other levels as one list each.
AddIterators(version) ==
    [i \in DOMAIN version[0] |-> TableIter(version[0][i])]
    \o FlattenSeq([l \in 1 .. Max(Levels) |->
                      IF version[l] = <<>> THEN <<>> ELSE <<LevelIter(version[l])>>])

\* SeekToFirst and Next to the end.
RECURSIVE Walk(_)
Walk(it) == IF ~ Valid(it) THEN <<>>
            ELSE <<[key |-> Key(it), value |-> Value(it)]>> \o Walk(Move(it, "Next", NoKey))

\* The entries that DoCompactionWork keeps.  NewSnapshot adds to no list: the
\* smallest snapshot is always the last sequence.
Kept(entries, level) ==
    LET User(i) == ExtractUserKey(entries[i].key)
        hidden(i) == i > 1 /\ User(i - 1) = User(i) /\ SequenceOf(entries[i - 1].key) <= lastsequence
        base(i) == \A l \in Levels : l > level + 1 => ~ OverlapInLevel(l, User(i), User(i))
        dropped(i) == hidden(i) \/ (TypeOf(entries[i].key) = kTypeDeletion /\ base(i))
        kept == Sorted({i \in DOMAIN entries : ~ dropped(i)}, <)
    IN  Eager([j \in DOMAIN kept |-> entries[kept[j]]])

Cut(seq) == [i \in 1 .. (Len(seq) + TableEntries - 1) \div TableEntries |->
                SubSeq(seq, (i - 1) * TableEntries + 1, Min({i * TableEntries, Len(seq)}))]

\* A compaction of all of a level with what overlaps it in the next one.
Compact(level) ==
    LET inputs == Range(files[level])
        lo == ExtractUserKey(First({Smallest(t) : t \in inputs}))
        hi == ExtractUserKey(LastOf({Largest(t) : t \in inputs}))
        below == SelectSeq(files[level + 1], LAMBDA t : Overlaps(t, lo, hi))
        input == MergingIter(AddIterators([l \in Levels |-> IF l = level THEN files[level]
                                             ELSE IF l = level + 1 THEN below ELSE <<>>]))
        kept == Kept(Walk(Move(input, "SeekToFirst", NoKey)), level)
        cuts == Cut(kept)
        T == tables \o [i \in DOMAIN cuts |-> BuildTable(cuts[i])]
    IN  /\ inputs # {}
        /\ tables' = T
        /\ files' = [files EXCEPT ![level] = <<>>,
                        ![level + 1] = SaveTo(T, @, Range(below), Len(tables) + 1 .. Len(T))]
        /\ compacted' = lastsequence
        /\ iter' = IF iter # NoIter /\ iter.later \cap (inputs \cup Range(below)) # {}
                   THEN [iter EXCEPT !.removed = TRUE] ELSE iter
        /\ UNCHANGED <<mems, imm, lastsequence, snapshots, batches, moves, at>>

GetSnapshot == /\ snapshots' = snapshots \cup {lastsequence}
               /\ snapshots' # snapshots
               /\ UNCHANGED <<mems, imm, lastsequence, files, tables, compacted, batches, moves,
                              iter, at>>

\* NewIterator, of a snapshot or of the present: it keeps memtables and version,
\* and the tables of level 0, but opens the others (later) when it needs them.
NewIterator(sequence) ==
    LET list == <<MemIter(Len(mems))>> \o (IF imm THEN <<MemIter(Len(mems) - 1)>> ELSE <<>>)
                \o AddIterators(files)
    IN  /\ iter = NoIter
        /\ iter' = DBIter(MergingIter(list), sequence) @@
                    [outdated |-> sequence < compacted, removed |-> FALSE,
                     later |-> UNION {Range(files[l]) : l \in Levels \ {0}}]
        /\ UNCHANGED <<mems, imm, lastsequence, files, tables, snapshots, compacted, batches,
                       moves, at>>

-----------------------------------------------------------------------------
(* The reference: the newest entries not after a sequence number.          *)

AllEntries == UNION Range(mems)

View(sequence) ==
    LET upto == {e \in AllEntries : SequenceOf(e.key) <= sequence}
        newest == {e \in upto : \A f \in upto : ExtractUserKey(f.key) = ExtractUserKey(e.key)
                                   => SequenceOf(f.key) <= SequenceOf(e.key)}
    IN  Sorted({e \in newest : TypeOf(e.key) = kTypeValue}, LAMBDA e, f : Less(e.key, f.key))

ViewMove(view, op, target) ==
    CASE op = "SeekToFirst" -> IF view = <<>> THEN 0 ELSE 1
      [] op = "SeekToLast" -> Len(view)
      [] op = "Next" -> IF at = Len(view) THEN 0 ELSE at + 1
      [] op = "Prev" -> Max({0, at - 1})
      [] op = "Seek" -> LET S == {i \in DOMAIN view : ~ UserLess(ExtractUserKey(view[i].key), target)}
                        IN  IF S = {} THEN 0 ELSE Min(S)

UserKeys == UNION {{b[i].key : i \in DOMAIN b} : b \in Batches}

MoveIterator(op, target) ==
    /\ iter # NoIter /\ moves < MaxMoves
    /\ op \in {"Next", "Prev"} => iter.vali
    /\ moves' = moves + 1
    /\ iter' = DBMove(iter, op, target)
    /\ at' = ViewMove(View(iter.sequence), op, target)
    /\ UNCHANGED <<mems, imm, lastsequence, files, tables, snapshots, compacted, batches>>

IterNext ==
    \/ \E b \in Batches : WriteBatch(b)
    \/ Switch \/ CompactMemTable \/ GetSnapshot
    \/ \E l \in {0, 1} : Compact(l)
    \/ \E s \in snapshots \cup {lastsequence} : NewIterator(s)
    \/ \E op \in {"SeekToFirst", "SeekToLast", "Next", "Prev"} : MoveIterator(op, NoKey)
    \/ \E k \in UserKeys : MoveIterator("Seek", k)

-----------------------------------------------------------------------------
\* The entry of a table that answers a lookup.
TableAnswer(t, user, seq) ==
    LET e == InternalGet(tables[t], InternalKey(user, seq, kTypeValue))
    IN  IF e # <<>> /\ ExtractUserKey(e[1].key) = user THEN e[1].value ELSE <<>>

\* The newest entry of the key in the table, not after seq.
TableReference(t, user, seq) ==
    LET list == TableIter(t)
        S == {e \in Range(Walk(Move(list, "SeekToFirst", NoKey))) :
                ExtractUserKey(e.key) = user /\ SequenceOf(e.key) <= seq}
    IN  IF S = {} THEN <<>> ELSE (CHOOSE e \in S : \A f \in S : SequenceOf(f.key) <= SequenceOf(e.key)).value

ShowsView == LET view == View(iter.sequence)
             IN  /\ iter.vali <=> at # 0
                 /\ iter.vali => /\ DBKey(iter) = ExtractUserKey(view[at].key)
                                 /\ DBValue(iter) = view[at].value

\* However a client walks the database, in both directions, with writes, a
\* switch of memtables, flushes and compactions between its moves, it sees the
\* newest values not after its sequence number, each key once and in order;
\* and a lookup in a table, by index key, restart point and prefix, finds what
\* a walk through the table finds.  Not covered, because the code gives them
\* up: a snapshot older than the last compaction before the iterator was made,
\* and an iterator whose tables above level 0 a later compaction removed.
IteratorShowsView ==
    /\ iter # NoIter /\ ~ iter.outdated /\ ~ iter.removed /\ moves > 0 => ShowsView
    /\ iter = NoIter => \A t \in DOMAIN tables : \A u \in UserKeys : \A s \in 0 .. lastsequence :
         TableAnswer(t, u, s) = TableReference(t, u, s)

\* snapshot.h:37 says of NewSnapshot: "Creates a SnapshotImpl and appends it to
\* the end of the list", the list whose oldest member bounds what a compaction
\* may drop: a snapshot shows the newest values not after it.
SnapshotShowsView == iter # NoIter /\ iter.outdated /\ ~ iter.removed /\ moves > 0 => ShowsView
=============================================================================
