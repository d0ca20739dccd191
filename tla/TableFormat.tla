----------------------------- MODULE TableFormat -----------------------------
(***************************************************************************)
(* Internal keys, the blocks of a table with their restart points and key  *)
(* prefixes, the index block with its shortened keys, and BlockIterator.   *)
(*                                                                         *)
(* A user key is a sequence of bytes 1 .. MaxByte; an internal key is the  *)
(* user key followed by one item for the packed sequence number and type.  *)
(* An offset in a block is the number of the entry, the size of a block    *)
(* the number of its entries.  Checksums and corrupt blocks are left out.  *)
(***************************************************************************)
EXTENDS Integers, Sequences, SequencesExt, FiniteSets, FiniteSetsExt

CONSTANTS MaxByte,                \* stands for 0xff
          blocksize,              \* entries that fill a block
          blockrestartinterval

ASSUME TableAssumption == /\ MaxByte \in Nat \ {0} /\ blocksize \in Nat \ {0}
                          /\ blockrestartinterval \in Nat \ {0}

\* The sequence itself; TLC evaluates its elements here, and once.
Eager(seq) == <<>> \o seq

\* The members of a set in order; Before is a strict total order.
Sorted(S, Before(_, _)) ==
    Eager([i \in 1 .. Cardinality(S) |-> CHOOSE x \in S : Cardinality({y \in S : Before(y, x)}) = i - 1])

kTypeDeletion == 0
kTypeValue == 1

\* Above every byte, so that prefixes of user keys and of tags never mix.
packSequenceAndType(seq, type) == MaxByte + 1 + 2 * seq + type
kMaxTag == packSequenceAndType(1000, kTypeValue)

InternalKey(user, seq, type) == Append(user, packSequenceAndType(seq, type))
ExtractUserKey(ikey) == Front(ikey)
SequenceOf(ikey) == (Last(ikey) - MaxByte - 1) \div 2
TypeOf(ikey) == (Last(ikey) - MaxByte - 1) % 2

-----------------------------------------------------------------------------
(* Comparators.                                                            *)

CommonPrefix(a, b) ==
    Max({n \in 0 .. Min({Len(a), Len(b)}) : SubSeq(a, 1, n) = SubSeq(b, 1, n)})

UserLess(a, b) == \E n \in DOMAIN b : /\ \A i \in 1 .. n - 1 : i <= Len(a) /\ a[i] = b[i]
                                     /\ (n > Len(a) \/ a[n] < b[n])

\* By user key, the newest entry of a key first.
Less(a, b) == LET u == ExtractUserKey(a)
                  v == ExtractUserKey(b)
              IN  IF u = v THEN Last(a) > Last(b) ELSE UserLess(u, v)

\* A user key from start on and below limit.
UserSeparator(start, limit) ==
    LET n == CommonPrefix(start, limit) + 1
    IN  IF n <= Len(start) /\ n <= Len(limit) /\ start[n] < MaxByte /\ start[n] + 1 < limit[n]
        THEN Append(SubSeq(start, 1, n - 1), start[n] + 1) ELSE start

UserSuccessor(key) ==
    LET can == {i \in DOMAIN key : key[i] # MaxByte}
    IN  IF can = {} THEN key
        ELSE Append(SubSeq(key, 1, Min(can) - 1), key[Min(can)] + 1)

\* The shortened user key gets the earliest tag, if it is shorter and larger.
Shortened(ikey, user) ==
    LET old == ExtractUserKey(ikey)
    IN  IF Len(user) < Len(old) /\ UserLess(old, user) THEN Append(user, kMaxTag) ELSE ikey

FindShortestSeparator(start, limit) ==
    Shortened(start, UserSeparator(ExtractUserKey(start), ExtractUserKey(limit)))

FindShortSuccessor(key) == Shortened(key, UserSuccessor(ExtractUserKey(key)))

-----------------------------------------------------------------------------
(* BlockBuilder and TableBuilder.                                          *)

NewBlock == [buffer |-> <<>>, restarts |-> <<1>>, counter |-> 0, lastkey |-> <<>>]

BlockAdd(b, key, value, interval) ==
    LET again == b.counter >= interval
        shared == IF again THEN 0 ELSE CommonPrefix(b.lastkey, key)
    IN  [buffer |-> Append(b.buffer, [shared |-> shared, value |-> value,
                                      delta |-> SubSeq(key, shared + 1, Len(key))]),
         restarts |-> IF again THEN Append(b.restarts, Len(b.buffer) + 1) ELSE b.restarts,
         counter |-> IF again THEN 1 ELSE b.counter + 1,
         lastkey |-> key]

NewTable == [blocks |-> <<>>, index |-> NewBlock, data |-> NewBlock, lastkey |-> <<>>,
             pendingindexentry |-> FALSE]

\* The index entry of the last block, under a key that ends it.
IndexEntry(t, key) ==
    [t EXCEPT !.index = BlockAdd(@, key, Len(t.blocks), 1), !.pendingindexentry = FALSE]

flush(t) ==
    IF t.data.buffer = <<>> THEN t
    ELSE [t EXCEPT !.blocks = Append(@, t.data), !.data = NewBlock, !.pendingindexentry = TRUE]

TableAdd(t, entry) ==
    LET u == IF t.pendingindexentry
             THEN IndexEntry(t, FindShortestSeparator(t.lastkey, entry.key)) ELSE t
        v == [u EXCEPT !.lastkey = entry.key,
                       !.data = BlockAdd(@, entry.key, entry.value, blockrestartinterval)]
    IN  IF Len(v.data.buffer) >= blocksize THEN flush(v) ELSE v

Finish(t) ==
    LET f == flush(t)
    IN  IF f.pendingindexentry THEN IndexEntry(f, FindShortSuccessor(f.lastkey)) ELSE f

\* The table of entries given in order.
BuildTable(entries) == Finish(FoldLeft(TableAdd, NewTable, entries))

-----------------------------------------------------------------------------
(* BlockIterator over the block b.  cur and restartIndex are behind the    *)
(* end when not valid; next is where parseNextKey reads.                   *)

BlockIter(b) == [kind |-> "block", cur |-> Len(b.buffer) + 1,
                 restartIndex |-> Len(b.restarts) + 1, k |-> <<>>, next |-> 1]

BlockEnd(b, it) == [it EXCEPT !.cur = Len(b.buffer) + 1, !.restartIndex = Len(b.restarts) + 1]

BlockValid(b, it) == it.cur <= Len(b.buffer)

seekToRestartPoint(b, it, i) ==
    [it EXCEPT !.k = <<>>, !.restartIndex = i, !.next = b.restarts[i]]

parseNextKey(b, it) ==
    LET cur == it.next
        e == b.buffer[cur]
        behind == {i \in DOMAIN b.restarts : i > it.restartIndex /\ b.restarts[i] < cur}
    IN  IF cur > Len(b.buffer) THEN BlockEnd(b, it)
        ELSE [it EXCEPT !.cur = cur, !.k = SubSeq(it.k, 1, e.shared) \o e.delta,
                        !.next = cur + 1, !.restartIndex = Max({it.restartIndex} \cup behind)]

\* Entry after entry, up to the one that ends at the limit.
RECURSIVE ParseUpTo(_, _, _)
ParseUpTo(b, it, limit) ==
    LET n == parseNextKey(b, it)
    IN  IF BlockValid(b, n) /\ n.next < limit THEN ParseUpTo(b, n, limit) ELSE n

RECURSIVE ParseFrom(_, _, _)
ParseFrom(b, it, target) ==
    LET n == parseNextKey(b, it)
    IN  IF BlockValid(b, n) /\ Less(n.k, target) THEN ParseFrom(b, n, target) ELSE n

\* The last restart point whose key is below the target, by bisection.
RECURSIVE LastRestartBefore(_, _, _, _)
LastRestartBefore(b, target, left, right) ==
    LET mid == (left + right + 1) \div 2
    IN  IF left >= right THEN left
        ELSE IF Less(b.buffer[b.restarts[mid]].delta, target)
        THEN LastRestartBefore(b, target, mid, right)
        ELSE LastRestartBefore(b, target, left, mid - 1)

\* Back to the restart point before the entry, and forward up to it.
BlockPrev(b, it) ==
    LET before == {i \in 1 .. it.restartIndex : b.restarts[i] < it.cur}
    IN  IF before = {} THEN BlockEnd(b, it)
        ELSE ParseUpTo(b, seekToRestartPoint(b, it, Max(before)), it.cur)

BlockMove(b, it, op, target) ==
    LET From(i) == seekToRestartPoint(b, it, i)
        n == Len(b.restarts)
    IN  CASE op = "Next" -> parseNextKey(b, it)
          [] op = "Prev" -> BlockPrev(b, it)
          [] op = "SeekToFirst" -> parseNextKey(b, From(1))
          [] op = "SeekToLast" -> ParseUpTo(b, From(n), Len(b.buffer) + 1)
          [] op = "Seek" -> ParseFrom(b, From(LastRestartBefore(b, target, 1, n)), target)

\* Table::InternalGet: the first entry from key on in the block that the index
\* names, if there is one.
InternalGet(t, key) ==
    LET i == BlockMove(t.index, BlockIter(t.index), "Seek", key)
        b == t.blocks[t.index.buffer[i.cur].value]
        e == BlockMove(b, BlockIter(b), "Seek", key)
    IN  IF BlockValid(t.index, i) /\ BlockValid(b, e)
        THEN <<[key |-> e.k, value |-> b.buffer[e.cur].value]>> ELSE <<>>
=============================================================================
