---------------------------- MODULE RedisRecords ----------------------------
(***************************************************************************)
(* The records of the Redis data types: what serialize.h writes into the   *)
(* databases and reads back, and the orders in which comparator.h makes    *)
(* the iterators return the records of lists and sorted sets.              *)
(*                                                                         *)
(* A stored value is the sequence of its fields; the parsers find a field  *)
(* by its distance from the end of the value, as the code does, and the    *)
(* count in front.  A stored key is the tuple of its fields.  User keys,   *)
(* members and scores are integers, ordered as the code orders bytes.      *)
(***************************************************************************)
EXTENDS Integers, Sequences, SequencesExt, FiniteSets

CONSTANTS InitalLeftIndex   \* stands for 2^63 - 1; the right index is one above

ASSUME IndexAssumption == InitalLeftIndex \in Nat \ {0}

InitalRightIndex == InitalLeftIndex + 1

\* No record: db->Get says NotFound.
NoRec == <<>>

\* The k-th field from the end of a stored value.
FromEnd(value, k) == value[Len(value) + 1 - k]

-----------------------------------------------------------------------------
\* Strings: the user's bytes and the time at which the value expires.  The
\* encoder leaves the version out.
StringsMetaValue(user, timestamp) == <<user, timestamp>>

ParsedStringsMetaValue(value) ==
    [user |-> value[1], timestamp |-> FromEnd(value, 1)]

\* Hashes, sets and sorted sets: how many elements, and under which version.
BaseMetaValue(count, version, timestamp) == <<count, version, timestamp>>

ParsedBaseMetaValue(value) ==
    [count |-> value[1], version |-> FromEnd(value, 2),
     timestamp |-> FromEnd(value, 1)]

\* The setters of a parsed value write through to the stored one.
ToBase(m) == BaseMetaValue(m.count, m.version, m.timestamp)

\* A new list: AppendIndex writes the left index twice.
ListsMetaValue(count, version, timestamp, left, right) ==
    <<count, version, timestamp, left, left>>

ParsedListsMetaValue(value) ==
    [count |-> value[1], version |-> FromEnd(value, 4),
     timestamp |-> FromEnd(value, 3),
     left |-> FromEnd(value, 2), right |-> FromEnd(value, 1)]

ToList(m) == <<m.count, m.version, m.timestamp, m.left, m.right>>

-----------------------------------------------------------------------------
\* A timestamp of zero never expires; at its own second a record still lives.
IsStale(m, now) == m.timestamp # 0 /\ m.timestamp < now

RelativeTimestamp(ttl, now) == now + ttl

\* Mutant: two versions of one second are the same.
VersionIsNow(version, now) == now

\* Versions are seconds, moved on by one when two follow within a second.
UpdateVersion(version, now) == IF version >= now THEN version + 1 ELSE now

\* Starts a meta record afresh: nothing under the new version.
InitialMetaValue(m, now) ==
    [m EXCEPT !.count = 0, !.timestamp = 0,
              !.version = UpdateVersion(m.version, now)]

InitialListMetaValue(m, now) ==
    [InitialMetaValue(m, now) EXCEPT !.left = InitalLeftIndex,
                                     !.right = InitalRightIndex]

ModifyCount(m, delta) == [m EXCEPT !.count = m.count + delta]

\* A collection has something to show.
Readable(m, now) == ~ IsStale(m, now) /\ m.count # 0

-----------------------------------------------------------------------------
\* The keys of the element records.
BaseDataKey(key, version, data) == <<key, version, data>>

ListsDataKey(key, version, index) == <<key, version, index>>

ZSetsScoreKey(key, version, score, member) == <<key, version, score, member>>

\* The order of ListsDataKeyComparatorImpl: key, version, index.
ListsDataKeyLess(a, b) ==
    \/ a[1] < b[1]
    \/ a[1] = b[1] /\ a[2] < b[2]
    \/ a[1] = b[1] /\ a[2] = b[2] /\ a[3] < b[3]

\* The order of ZSetsScoreKeyComparatorImpl: key and version, score, member.
ZSetsScoreKeyLess(a, b) ==
    \/ a[1] < b[1]
    \/ a[1] = b[1] /\ a[2] < b[2]
    \/ a[1] = b[1] /\ a[2] = b[2] /\ a[3] < b[3]
    \/ a[1] = b[1] /\ a[2] = b[2] /\ a[3] = b[3] /\ a[4] < b[4]

\* Seek(start) and Next until the end: the keys from start on, in order.
SeekAndNext(db, start, Less(_, _)) ==
    LET ahead == {k \in DOMAIN db : ~ Less(k, start)}
    IN  [i \in 1 .. Cardinality(ahead) |->
            CHOOSE k \in ahead : Cardinality({j \in ahead : Less(j, k)}) = i - 1]

\* The puts of a WriteBatch: of one record, and of two batches together.
OnePut(key, value) == [k \in {key} |-> value]
BothPuts(p, q) == [k \in DOMAIN p \cup DOMAIN q |-> IF k \in DOMAIN p THEN p[k] ELSE q[k]]

\* What a WriteBatch does: the deletions, and the puts on top of them.
ApplyBatch(db, puts, deletes) ==
    [k \in (DOMAIN db \ deletes) \cup DOMAIN puts |->
        IF k \in DOMAIN puts THEN puts[k] ELSE db[k]]

DbGet(db, key) == IF key \in DOMAIN db THEN db[key] ELSE NoRec
=============================================================================
