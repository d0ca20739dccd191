-------------------------- MODULE RedisCollections --------------------------
(***************************************************************************)
(* The commands of redishash.cc, redisset.cc, redislist.cc and             *)
(* rediszset.cc.  A command is a function of m, the meta record it read,   *)
(* of db, the database as its later reads see it, and of the time; its     *)
(* outcome is a status, a result and a write batch.                        *)
(***************************************************************************)
EXTENDS RedisRecords, FiniteSetsExt

CONSTANT Lowest          \* the lowest double, below every score

None == [k \in {} |-> NoRec]

\* Ends without a write, or with one batch.
Return(status, ret) ==
    [status |-> status, ret |-> ret, puts |-> None, dels |-> {}]
WriteBatch(ret, puts, dels) ==
    [status |-> "OK", ret |-> ret, puts |-> puts, dels |-> dels]

NotFound(ret) == Return("NotFound", ret)

Meta(m) == ParsedBaseMetaValue(m)
Shows(m, now) == m # NoRec /\ Readable(Meta(m), now)
ListShows(m, now) == m # NoRec /\ Readable(ParsedListsMetaValue(m), now)

-----------------------------------------------------------------------------
(* Hashes: the meta record under <<key>>, a field under BaseDataKey.       *)

FieldsAt(db, key, version) ==
    {k \in DOMAIN db : Len(k) = 3 /\ k[1] = key /\ k[2] = version}

\* The last value given for a field wins.
HMSetFields(fvs) == {fvs[i].field : i \in DOMAIN fvs}
HMSetValue(fvs, f) == fvs[Max({i \in DOMAIN fvs : fvs[i].field = f})].value
HMSetValues(fvs) == [f \in HMSetFields(fvs) |-> HMSetValue(fvs, f)]

HashPuts(key, version, values) ==
    [k \in {BaseDataKey(key, version, f) : f \in DOMAIN values} |-> values[k[3]]]

\* The value of an unchanged field is not written again.
HSet(m, db, key, a, now) ==
    LET version == Meta(m).version
        old == DbGet(db, BaseDataKey(key, version, a.field))
        values == OnePut(a.field, a.value)
        With(meta, v) == BothPuts(OnePut(<<key>>, meta), HashPuts(key, v, values))
        fresh == InitialMetaValue(Meta(m), now)
        first == UpdateVersion(0, now)
    IN  IF m = NoRec THEN WriteBatch(1, With(BaseMetaValue(1, first, 0), first), {})
        ELSE IF ~ Shows(m, now)
        THEN WriteBatch(1, With(ToBase([fresh EXCEPT !.count = 1]), fresh.version), {})
        ELSE IF old = a.value THEN Return("OK", 0)
        ELSE IF old # NoRec THEN WriteBatch(0, HashPuts(key, version, values), {})
        ELSE WriteBatch(1, With(ToBase(ModifyCount(Meta(m), 1)), version), {})

\* Mutant: every field given counts as new.
HMSetCountsAll(m, db, key, a, now) ==
    LET fields == HMSetFields(a.fvs)
        first == UpdateVersion(0, now)
        meta == IF m = NoRec THEN [count |-> 0, version |-> first, timestamp |-> 0] ELSE Meta(m)
    IN  WriteBatch(0, BothPuts(OnePut(<<key>>, ToBase(ModifyCount(meta, Cardinality(fields)))),
                               HashPuts(key, meta.version, HMSetValues(a.fvs))), {})

HMSet(m, db, key, a, now) ==
    LET fields == HMSetFields(a.fvs)
        n == Cardinality(fields)
        With(meta, v) == BothPuts(OnePut(<<key>>, meta), HashPuts(key, v, HMSetValues(a.fvs)))
        fresh == InitialMetaValue(Meta(m), now)
        first == UpdateVersion(0, now)
        version == Meta(m).version
        added == {f \in fields : DbGet(db, BaseDataKey(key, version, f)) = NoRec}
    IN  IF m = NoRec THEN WriteBatch(0, With(BaseMetaValue(n, first, 0), first), {})
        ELSE IF ~ Shows(m, now)
        THEN WriteBatch(0, With(ToBase([fresh EXCEPT !.count = n]), fresh.version), {})
        ELSE WriteBatch(0, With(ToBase(ModifyCount(Meta(m), Cardinality(added))), version), {})

HGet(m, db, key, field, now) ==
    LET value == DbGet(db, BaseDataKey(key, Meta(m).version, field))
    IN  IF Shows(m, now) /\ value # NoRec THEN Return("OK", value) ELSE NotFound(NoRec)

HMGet(m, db, key, fields, now) == [f \in fields |-> HGet(m, db, key, f, now)]

HExists(m, db, key, field, now) == HGet(m, db, key, field, now).status = "OK"

\* Looks at the version where the others look at the count.
HGetall(m, db, key, now) ==
    IF m = NoRec \/ IsStale(Meta(m), now) \/ Meta(m).version = 0 THEN {}
    ELSE {<<k[3], db[k]>> : k \in FieldsAt(db, key, Meta(m).version)}

\* Mutant: a field that is not there is counted as removed.
HDelCountsAsked(m, db, key, a, now) ==
    LET gone == {BaseDataKey(key, Meta(m).version, f) : f \in a.fields}
    IN  IF ~ Shows(m, now) THEN Return("OK", 0)
        ELSE WriteBatch(0, OnePut(<<key>>, ToBase(ModifyCount(Meta(m), -Cardinality(gone)))), gone)

HDel(m, db, key, a, now) ==
    LET gone == {BaseDataKey(key, Meta(m).version, f) : f \in a.fields} \cap DOMAIN db
        n == Cardinality(gone)
    IN  IF ~ Shows(m, now) THEN Return("OK", 0)
        ELSE WriteBatch(n, OnePut(<<key>>, ToBase(ModifyCount(Meta(m), -n))), gone)

\* An absent hash is "deleted" too: the empty batch is written.
HashDel(m, db, key, now) ==
    IF m = NoRec THEN WriteBatch(0, None, {})
    ELSE IF ~ Shows(m, now) THEN NotFound(0)
    ELSE WriteBatch(0, None, {<<key>>} \cup FieldsAt(db, key, Meta(m).version))

-----------------------------------------------------------------------------
(* Sets: a member is a record without a value.                             *)

SetPuts(key, version, members) ==
    [k \in {BaseDataKey(key, version, x) : x \in members} |-> <<"present">>]

\* A set that was emptied keeps its version, and its members go under 0.
SAdd(m, db, key, a, now) ==
    LET version == IF Shows(m, now) THEN Meta(m).version ELSE 0
        n == Cardinality(a.members)
        added == {x \in a.members : DbGet(db, BaseDataKey(key, version, x)) = NoRec}
        first == UpdateVersion(0, now)
    IN  IF m = NoRec
        THEN WriteBatch(n, BothPuts(OnePut(<<key>>, BaseMetaValue(n, first, 0)),
                                    SetPuts(key, first, a.members)), {})
        ELSE IF ~ Shows(m, now)
        THEN WriteBatch(n, BothPuts(OnePut(<<key>>, ToBase([Meta(m) EXCEPT !.count = n])),
                                    SetPuts(key, version, a.members)), {})
        ELSE IF added = {} THEN Return("OK", 0)
        ELSE WriteBatch(Cardinality(added),
                        BothPuts(OnePut(<<key>>, ToBase(ModifyCount(Meta(m), Cardinality(added)))),
                                 SetPuts(key, version, added)), {})

SCard(m, now) == IF Shows(m, now) THEN Return("OK", Meta(m).count) ELSE NotFound(0)

SMembers(m, db, key, now) ==
    IF ~ Shows(m, now) THEN {}
    ELSE {k[3] : k \in FieldsAt(db, key, Meta(m).version)}

\* Only the meta record changes: the members stay under the old version.
SetDel(m, key, now) ==
    IF ~ Shows(m, now) THEN NotFound(0)
    ELSE WriteBatch(0, OnePut(<<key>>, ToBase(InitialMetaValue(Meta(m), now))), {})

-----------------------------------------------------------------------------
(* Lists: the meta record is kept as element 0 of version 0.               *)

ListMetaKey(key) == ListsDataKey(key, 0, 0)
ListMeta(m) == ParsedListsMetaValue(m)

ListPuts(key, version, from, values) ==
    [k \in {ListsDataKey(key, version, from + i - 1) : i \in DOMAIN values} |->
        values[k[3] - from + 1]]

\* Each value goes in front of the one before.
LPush(m, key, a, now) ==
    LET n == Len(a.values)
        base == IF m = NoRec
                THEN [count |-> 0, version |-> UpdateVersion(0, now), timestamp |-> 0,
                      left |-> InitalLeftIndex, right |-> InitalRightIndex]
                ELSE IF ListShows(m, now) THEN ListMeta(m)
                ELSE InitialListMetaValue(ListMeta(m), now)
        left == base.left - n
        puts == ListPuts(key, base.version, left + 1, Reverse(a.values))
        stored == IF m = NoRec
                  THEN ListsMetaValue(n, base.version, 0, left, base.right)
                  ELSE ToList([base EXCEPT !.left = left, !.count = base.count + n])
    IN  WriteBatch(IF m = NoRec THEN base.right - left - 1 ELSE base.count + n,
                   BothPuts(OnePut(ListMetaKey(key), stored), puts), {})

\* Looks for the meta record under the bare key, where no list has one.
LPop(db, key, now) == LET m == DbGet(db, <<key>>) IN
    IF m = NoRec \/ ~ ListShows(m, now) THEN NotFound(NoRec)
    ELSE LET meta == ListMeta(m)
             first == ListsDataKey(key, meta.version, meta.left + 1)
         IN  IF first \notin DOMAIN db THEN NotFound(NoRec)
             ELSE WriteBatch(db[first],
                     OnePut(ListMetaKey(key), ToList([meta EXCEPT !.count = @ - 1, !.left = @ + 1])),
                     {first})

\* The values from a record on, at most n: no check that they are the list's.
ValuesFrom(db, start, n) ==
    LET keys == SeekAndNext(db, start, ListsDataKeyLess)
    IN  [i \in 1 .. Min({Max({n, 0}), Len(keys)}) |-> db[keys[i]]]

LRange(m, db, key, start, stop, now) ==
    LET meta == ListMeta(m)
        first == meta.left + 1
        last == meta.right - 1
        Sub(off) == IF off >= 0 THEN first + off ELSE last + off + 1
        from == Max({Sub(start), first})
        to == Min({Sub(stop), last})
    IN  IF ~ ListShows(m, now) THEN NotFound(<<>>)
        ELSE IF Sub(start) > Sub(stop) \/ Sub(start) > last \/ Sub(stop) < first
        THEN Return("OK", <<>>)
        ELSE Return("OK", ValuesFrom(db, ListsDataKey(key, meta.version, from),
                                     to - from + 1))

LLen(m, now) == IF ListShows(m, now) THEN Return("OK", ListMeta(m).count) ELSE NotFound(0)

\* The shorter side of the list moves over by one.  The pivot is compared as a
\* C string, past the end of a stored value: a.blind tells that this misses it.
LInsert(m, db, key, a, now) ==
    LET meta == ListMeta(m)
        At(i) == ListsDataKey(key, meta.version, i)
        Walk(i) == ValuesFrom(db, At(i), meta.right - i)
        first == meta.left + 1
        hits == {i \in DOMAIN Walk(first) : Walk(first)[i] = a.pivot /\ ~ a.blind}
        pivot == first + Min(hits) - 1
        mid == meta.left + (meta.right - meta.left) \div 2
        target == IF pivot <= mid
                  THEN IF a.before THEN pivot - 1 ELSE pivot
                  ELSE IF a.before THEN pivot ELSE pivot + 1
        nodes == IF pivot <= mid
                 THEN SubSeq(Walk(first), 1, pivot - first + (IF a.before THEN 0 ELSE 1))
                 ELSE IF a.before THEN Walk(pivot) ELSE Tail(Walk(pivot))
        moved == ListPuts(key, meta.version,
                          IF pivot <= mid THEN meta.left ELSE target + 1, nodes)
        grown == IF pivot <= mid THEN [meta EXCEPT !.left = @ - 1]
                 ELSE [meta EXCEPT !.right = @ + 1]
    IN  IF ~ ListShows(m, now) THEN NotFound(0)
        ELSE IF hits = {} THEN NotFound(-1)
        ELSE WriteBatch(meta.count + 1,
                        BothPuts(OnePut(At(target), a.value),
                                 BothPuts(OnePut(ListMetaKey(key), ToList(ModifyCount(grown, 1))), moved)), {})

ListDel(m, key, now) ==
    IF ~ ListShows(m, now) THEN NotFound(0)
    ELSE WriteBatch(0, OnePut(ListMetaKey(key), ToList(InitialListMetaValue(ListMeta(m), now))), {})

-----------------------------------------------------------------------------
(* Sorted sets: one record tells the score of a member, another orders the *)
(* members by score.  "" is 0 and below every member.                      *)

ZSetMetaKey(key) == ZSetsScoreKey(key, 0, 0, 0)
ZMemberKey(key, version, member) == ZSetsScoreKey(key, 0, version, member)

ScorePuts(key, version, scores) ==
    BothPuts([k \in {ZMemberKey(key, version, x) : x \in DOMAIN scores} |-> <<scores[k[4]]>>],
             [k \in {ZSetsScoreKey(key, version, scores[x], x) : x \in DOMAIN scores} |-> <<"present">>])

\* The first score given for a member counts.
FirstScores(sms) ==
    [x \in {sms[i].member : i \in DOMAIN sms} |->
        sms[Min({i \in DOMAIN sms : sms[i].member = x})].score]

\* Mutant: the record of the old score stays.
ZAddKeepsOld(m, db, key, a, now) ==
    LET score == FirstScores(a.sms)
        first == UpdateVersion(0, now)
        meta == IF m = NoRec THEN [count |-> 0, version |-> first, timestamp |-> 0] ELSE Meta(m)
        added == {x \in DOMAIN score : DbGet(db, ZMemberKey(key, meta.version, x)) = NoRec}
    IN  WriteBatch(0, BothPuts(OnePut(ZSetMetaKey(key), ToBase(ModifyCount(meta, Cardinality(added)))),
                               ScorePuts(key, meta.version, score)), {})

ZAdd(m, db, key, a, now) ==
    LET score == FirstScores(a.sms)
        members == DOMAIN score
        vaild == Shows(m, now)
        meta == IF vaild THEN Meta(m) ELSE InitialMetaValue(Meta(m), now)
        Old(x) == IF vaild THEN DbGet(db, ZMemberKey(key, meta.version, x)) ELSE NoRec
        added == {x \in members : Old(x) = NoRec}
        moved == {x \in members \ added : Old(x)[1] # score[x]}
        changed == [x \in added \cup moved |-> score[x]]
        first == UpdateVersion(0, now)
    IN  IF m = NoRec
        THEN WriteBatch(Cardinality(members),
                BothPuts(OnePut(ZSetMetaKey(key), BaseMetaValue(Cardinality(members), first, 0)),
                         ScorePuts(key, first, score)), {})
        ELSE WriteBatch(Cardinality(added),
                BothPuts(OnePut(ZSetMetaKey(key), ToBase(ModifyCount(meta, Cardinality(added)))),
                         ScorePuts(key, meta.version, changed)),
                {ZSetsScoreKey(key, meta.version, Old(x)[1], x) : x \in moved})

\* The meta record of a new sorted set is put under the bare key, which the
\* comparator cannot parse: its assertion ends the process.
ZIncrby(m, db, key, a, now) ==
    LET meta == IF Shows(m, now) THEN Meta(m) ELSE InitialMetaValue(Meta(m), now)
        old == DbGet(db, ZMemberKey(key, meta.version, a.member))
        new == (IF old = NoRec THEN 0 ELSE old[1]) + a.score
        puts == ScorePuts(key, meta.version, OnePut(a.member, new))
    IN  IF m = NoRec THEN Return("abort", 0)
        ELSE IF old # NoRec
        THEN WriteBatch(new, puts, {ZSetsScoreKey(key, meta.version, old[1], a.member)})
        ELSE WriteBatch(new, BothPuts(OnePut(ZSetMetaKey(key), ToBase(ModifyCount(meta, 1))), puts), {})

ZCard(m, now) == IF Shows(m, now) THEN Return("OK", Meta(m).count) ELSE NotFound(0)

\* The score records from the lowest on, at most as many as the count says.
ZWalk(m, db, key) ==
    LET keys == SeekAndNext(db, ZSetsScoreKey(key, Meta(m).version, Lowest, 0),
                            ZSetsScoreKeyLess)
    IN  SubSeq(keys, 1, Min({Len(keys), Meta(m).count}))

ZRange(m, db, key, start, stop, now) ==
    LET count == Meta(m).count
        from == Max({0, IF start >= 0 THEN start ELSE count + start})
        to == Min({count - 1, IF stop >= 0 THEN stop ELSE count + stop})
        walk == ZWalk(m, db, key)
    IN  IF ~ Shows(m, now) THEN NotFound(<<>>)
        ELSE IF from > to \/ from >= count \/ to < 0 THEN Return("OK", <<>>)
        ELSE Return("OK", [i \in 1 .. Max({0, Min({to + 1, Len(walk)}) - from}) |->
                             <<walk[from + i][4], walk[from + i][3]>>])

ZRank(m, db, key, member, now) ==
    LET walk == ZWalk(m, db, key)
        hits == {i \in DOMAIN walk : walk[i][4] = member}
    IN  IF ~ Shows(m, now) \/ hits = {} THEN NotFound(-1) ELSE Return("OK", Min(hits) - 1)

ZSetExpire(m, key, a, now) ==
    IF ~ Shows(m, now) THEN NotFound(0)
    ELSE WriteBatch(0, OnePut(ZSetMetaKey(key), ToBase(
            IF a.ttl > 0
            THEN [Meta(m) EXCEPT !.timestamp = RelativeTimestamp(a.ttl, now)]
            ELSE InitialMetaValue(Meta(m), now))), {})

ZSetDel(m, key, now) ==
    IF ~ Shows(m, now) THEN NotFound(0)
    ELSE WriteBatch(0, OnePut(ZSetMetaKey(key), ToBase(InitialMetaValue(Meta(m), now))), {})
=============================================================================
