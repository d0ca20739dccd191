------------------------------- MODULE RedisDB ------------------------------
(***************************************************************************)
(* Clients of RedisDB calling the commands of one data type at a time from *)
(* several threads.  A command is not atomic: it takes the lock stripe of  *)
(* its key (lockmgr.h), reads the meta record, reads elements, and writes  *)
(* one batch; HDel, Setrange and the test of MSetnx take no lock at all.   *)
(*                                                                         *)
(* `live' is the reference: what a client that was told of every finished  *)
(* command believes a key to hold.                                         *)
(***************************************************************************)
EXTENDS RedisStrings, RedisCollections

CONSTANTS Threads, Keys, Stripes,
          MaxCalls,       \* bound: commands in a behaviour, for every kind of client
          MaxTime         \* bound: the clock, in seconds

NoThread == "nobody"

ASSUME RedisAssumption == /\ Keys \subseteq Nat \ {0} /\ Keys # {}
                          /\ NoThread \notin Threads
                          /\ \A k \in DOMAIN MaxCalls : MaxCalls[k] \in Nat
                          /\ MaxTime \in Nat \ {0}

Scenarios == DOMAIN MaxCalls

VARIABLES kind,     \* the data type in use
          stripe,   \* the hash of each key, modulo the number of stripes
          db,       \* the database of each type
          now,      \* time(0)
          held,     \* the thread that holds each stripe
          th,       \* the command each thread executes
          calls, live, spoiled, deleted, badUnlock, reply

vars == <<kind, stripe, db, now, held, th, calls, live, spoiled, deleted,
          badUnlock, reply>>

Types == {"strings", "hash", "set", "list", "zset"}
Idle == [op |-> "none", keys |-> <<>>, a |-> <<>>, pc |-> "idle", m |-> NoRec,
         d |-> None, next |-> 1, dirty |-> FALSE]

TypeOf(op) ==
    CASE op \in {"HSet", "HMSet", "HDel", "HashDel", "HashExpire"} -> "hash"
      [] op \in {"SAdd", "SetDel", "SetExpire"} -> "set"
      [] op \in {"LPush", "LPop", "LInsert", "ListDel", "ListExpire"} -> "list"
      [] op \in {"ZAdd", "ZIncrby", "ZSetDel", "ZSetExpire"} -> "zset"
      [] OTHER -> "strings"

\* The commands that write without the lock of their key.
Locked(op) == op \notin {"HDel", "Setrange"}

\* Commands that look at elements after the meta record, each in a read of
\* its own; HDel reads both in one snapshot.
ReadsElements(op) == op \in {"HSet", "HMSet", "HashDel", "SAdd", "LInsert", "ZAdd", "ZIncrby"}

MetaKey(op, key) == CASE TypeOf(op) = "list" -> ListMetaKey(key)
                      [] TypeOf(op) = "zset" -> ZSetMetaKey(key)
                      [] OTHER -> <<key>>

Current(op, key) == DbGet(db[TypeOf(op)], MetaKey(op, key))

\* Expire of hashes, sets and lists is an empty body.
Outcome(c, key) ==
    LET o == c.op
    IN  CASE o = "HSet" -> HSet(c.m, c.d, key, c.a, now)
          [] o = "HMSet" -> HMSet(c.m, c.d, key, c.a, now)
          [] o = "HDel" -> HDel(c.m, c.d, key, c.a, now)
          [] o = "HashDel" -> HashDel(c.m, c.d, key, now)
          [] o = "SAdd" -> SAdd(c.m, c.d, key, c.a, now)
          [] o = "SetDel" -> SetDel(c.m, key, now)
          [] o = "LPush" -> LPush(c.m, key, c.a, now)
          [] o = "LPop" -> LPop(db["list"], key, now)
          [] o = "LInsert" -> LInsert(c.m, c.d, key, c.a, now)
          [] o = "ListDel" -> ListDel(c.m, key, now)
          [] o = "ZAdd" -> ZAdd(c.m, c.d, key, c.a, now)
          [] o = "ZIncrby" -> ZIncrby(c.m, c.d, key, c.a, now)
          [] o = "ZSetDel" -> ZSetDel(c.m, key, now)
          [] o = "ZSetExpire" -> ZSetExpire(c.m, key, c.a, now)
          [] o \in {"HashExpire", "SetExpire", "ListExpire"} -> Return("OK", 0)

StringOutcome(c) ==
    LET o == c.op
    IN  CASE o = "Set" -> Set(c.m, c.a, now)
          [] o = "Setxx" -> Setxx(c.m, c.a, now)
          [] o = "GetSet" -> GetSet(c.m, c.a, now)
          [] o = "SetBit" -> SetBit(c.m, c.a, now)
          [] o = "Setnx" -> Setnx(c.m, c.a, now)
          [] o = "Setvx" -> Setvx(c.m, c.a, now)
          [] o = "Del" -> Del(c.m, now)
          [] o = "Delvx" -> Delvx(c.m, c.a, now)
          [] o = "Setrange" -> Setrange(c.m, c.a, now)
          [] o = "Expire" -> Expire(c.m, c.a, now)
          [] o = "Expireat" -> Expireat(c.m, c.a, now)
          [] o = "Persist" -> Persist(c.m, now)
          [] o = "Incrby" -> Incrby(c.m, c.a, now)
          [] o = "Decrby" -> Decrby(c.m, c.a, now)
          [] o = "Incrbyfloat" -> Incrbyfloat(c.m, c.a, now)
          [] o = "Append" -> StringAppend(c.m, c.a, now)

\* A string command writes its one record; the others write their batch.
AsBatch(r, key) ==
    [status |-> r.status, ret |-> r.ret,
     puts |-> IF r.write = "put" THEN OnePut(<<key>>, r.rec) ELSE None,
     dels |-> IF r.write = "del" THEN {<<key>>} ELSE {}]

\* MSet puts every pair; the last of a repeated key stays.
MSet(c) ==
    [status |-> "OK", ret |-> 1, dels |-> {},
     puts |-> [k \in {<<c.keys[i]>> : i \in DOMAIN c.keys} |-> StringsMetaValue(c.a.v, 0)]]

Result(c) == IF c.op \in {"MSet", "MSetnx"} THEN MSet(c)
             ELSE IF TypeOf(c.op) = "strings" THEN AsBatch(StringOutcome(c), c.keys[1])
             ELSE Outcome(c, c.keys[1])

-----------------------------------------------------------------------------
(* Lock stripes.                                                           *)

\* A vector of keys without the repetitions that stand next to each other.
Adjacent(keys) ==
    LET keep == {i \in DOMAIN keys : i = 1 \/ keys[i] # keys[i - 1]}
    IN  [j \in 1 .. Cardinality(keep) |->
            keys[CHOOSE i \in keep : Cardinality({x \in keep : x <= i}) = j]]

\* Mutant: MultiHashLock does not sort its keys.
LockAsGiven(keys) == [i \in DOMAIN Adjacent(keys) |-> stripe[Adjacent(keys)[i]]]

\* std::sort.
Sorted(keys) ==
    CHOOSE s \in [DOMAIN keys -> Range(keys)] :
       /\ \A i, j \in DOMAIN keys : i <= j => s[i] <= s[j]
       /\ \E p \in Bijection(DOMAIN keys, DOMAIN keys) : \A i \in DOMAIN keys : s[i] = keys[p[i]]

\* HashLock takes one stripe; MultiHashLock those of the keys in their order.
LockOrder(keys) == [i \in DOMAIN Adjacent(Sorted(keys)) |-> stripe[Adjacent(Sorted(keys))[i]]]

\* The destructor goes through its own copy of the keys, made before the sort.
UnlockOrder(keys) == [i \in DOMAIN Adjacent(keys) |-> stripe[Adjacent(keys)[i]]]

\* Some stripe is unlocked once more than it was locked.
Surplus(keys) == Len(UnlockOrder(keys)) > Len(LockOrder(keys))

-----------------------------------------------------------------------------
(* The reference.                                                          *)

Pairs(fvs) == {<<f, HMSetValue(fvs, f)>> : f \in HMSetFields(fvs)}
Override(old, new) == {p \in old : \A q \in new : p[1] # q[1]} \cup new

\* What the list holds after value was put next to the first pivot.
Inserted(seq, a) ==
    LET i == Min({j \in DOMAIN seq : seq[j] = a.pivot})
        cut == IF a.before THEN i - 1 ELSE i
    IN  SubSeq(seq, 1, cut) \o <<a.value>> \o SubSeq(seq, cut + 1, Len(seq))

Reference(c, r, old) ==
    LET o == c.op
    IN  CASE r.status # "OK" -> old
          [] o = "HSet" -> Override(old, {<<c.a.field, c.a.value>>})
          [] o = "HMSet" -> Override(old, Pairs(c.a.fvs))
          [] o = "HDel" -> {p \in old : p[1] \notin c.a.fields}
          [] o \in {"HashDel", "SetDel", "ZSetDel"} -> {}
          [] o = "SAdd" -> old \cup c.a.members
          [] o = "LPush" -> Reverse(c.a.values) \o old
          [] o = "LInsert" -> Inserted(old, c.a)
          [] o = "ListDel" -> <<>>
          [] o = "ZAdd" -> LET score == FirstScores(c.a.sms)
                         IN  Override(old, {<<x, score[x]>> : x \in DOMAIN score})
          [] o = "ZIncrby" -> Override(old, {<<c.a.member, r.ret>>})
          [] o = "ZSetExpire" -> IF c.a.ttl > 0 THEN old ELSE {}
          [] OTHER -> old

Empty(type) == IF type = "list" THEN <<>> ELSE {}

\* An expired sorted set holds nothing.
Expired(type, key) ==
    type = "zset" /\ LET m == DbGet(db["zset"], ZSetMetaKey(key))
                     IN  m # NoRec /\ IsStale(Meta(m), now)

Believed(type, key) == IF Expired(type, key) THEN Empty(type) ELSE live[type][key]

-----------------------------------------------------------------------------
Init ==
    /\ kind \in Scenarios
    /\ stripe \in [Keys -> Stripes]
    /\ kind # "mset" => \A k, l \in Keys : stripe[k] = stripe[l]
    /\ db = [t \in Types |-> None]
    /\ now = 1
    /\ held = [s \in Stripes |-> NoThread]
    /\ th = [t \in Threads |-> Idle]
    /\ calls = 0
    /\ live = [t \in Types |-> [k \in Keys |-> Empty(t)]]
    /\ spoiled = [k \in Keys |-> FALSE]
    /\ deleted = {}
    /\ badUnlock = {}
    /\ reply = <<>>

\* A client calls a command.  MSetnx begins by looking at its keys.
Call(t, op, keys, a) ==
    /\ th[t].pc = "idle" /\ calls < MaxCalls[kind]
    /\ calls' = calls + 1
    /\ th' = [th EXCEPT ![t] = [Idle EXCEPT
                !.op = op, !.keys = keys, !.a = a,
                !.pc = IF op = "MSetnx" THEN "probe"
                       ELSE IF Locked(op) THEN "lock" ELSE "meta"]]
    /\ UNCHANGED <<kind, stripe, db, now, held, live, spoiled, deleted, badUnlock, reply>>

\* MSetnx gives up at the first key that exists, and is an MSet otherwise.
Probe(t) ==
    LET c == th[t]
        exists == Fresh(DbGet(db["strings"], <<c.keys[c.next]>>), now)
    IN  /\ c.pc = "probe"
        /\ th' = [th EXCEPT ![t] =
                    IF exists THEN Idle
                    ELSE IF c.next = Len(c.keys) THEN [c EXCEPT !.pc = "lock", !.next = 1]
                    ELSE [c EXCEPT !.next = c.next + 1]]
        /\ UNCHANGED <<kind, stripe, db, now, held, calls, live, spoiled, deleted,
                       badUnlock, reply>>

\* Mutant: a stripe that is held is taken all the same.
LockUnguarded(t) ==
    LET c == th[t]
        order == LockOrder(c.keys)
    IN  /\ c.pc = "lock"
        /\ held' = [held EXCEPT ![order[c.next]] = t]
        /\ th' = [th EXCEPT ![t].pc = IF c.op \in {"MSet", "MSetnx"} THEN "write" ELSE "meta"]
        /\ UNCHANGED <<kind, stripe, db, now, calls, live, spoiled, deleted, badUnlock, reply>>

Lock(t) ==
    LET c == th[t]
        order == LockOrder(c.keys)
    IN  /\ c.pc = "lock" /\ held[order[c.next]] = NoThread
        /\ held' = [held EXCEPT ![order[c.next]] = t]
        /\ th' = [th EXCEPT ![t] =
                    IF c.next < Len(order) THEN [c EXCEPT !.next = c.next + 1]
                    ELSE [c EXCEPT !.pc = IF c.op \in {"MSet", "MSetnx"} THEN "write"
                                          ELSE "meta"]]
        /\ UNCHANGED <<kind, stripe, db, now, calls, live, spoiled, deleted, badUnlock, reply>>

ReadMeta(t) ==
    LET c == th[t] IN
    /\ c.pc = "meta"
    /\ th' = [th EXCEPT ![t].m = Current(c.op, c.keys[1]),
                        ![t].d = IF c.op = "HDel" THEN db["hash"] ELSE None,
                        ![t].pc = IF ReadsElements(c.op) THEN "data" ELSE "write"]
    /\ UNCHANGED <<kind, stripe, db, now, held, calls, live, spoiled, deleted,
                   badUnlock, reply>>

ReadElements(t) ==
    /\ th[t].pc = "data"
    /\ th' = [th EXCEPT ![t].d = db[TypeOf(th[t].op)], ![t].pc = "write"]
    /\ UNCHANGED <<kind, stripe, db, now, held, calls, live, spoiled, deleted,
                   badUnlock, reply>>

\* HDel counts in a snapshot what it will delete: one of its fields has come
\* or gone since.
Outdated(c, key) ==
    /\ c.op = "HDel" /\ c.m # NoRec
    /\ \E f \in c.a.fields : LET k == BaseDataKey(key, Meta(c.m).version, f)
                             IN  (k \in DOMAIN c.d) # (k \in DOMAIN db["hash"])

\* The batch is written and the destructors of the locks run.  An uncaught
\* exception or a failed assertion would end the process: nothing follows.
FinishWith(t, c, r) ==
    LET type == TypeOf(c.op)
        key == c.keys[1]
        stale == \/ c.op \notin {"MSet", "MSetnx"} /\ c.m # Current(c.op, key)
                 \/ Outdated(c, key)
        misled == c.op = "LInsert" /\ r.status = "OK" /\ <<type, key>> \notin deleted
        mine == {s \in Stripes : held[s] = t}
    IN  /\ r.status \notin {"abort", "out_of_range"}
        /\ db' = [db EXCEPT ![type] = ApplyBatch(@, r.puts, r.dels)]
        /\ th' = [u \in Threads |->
                    IF u = t THEN Idle
                    ELSE [th[u] EXCEPT !.dirty = th[u].dirty \/ ~ Locked(c.op)]]
        /\ held' = [s \in Stripes |-> IF s \in mine THEN NoThread ELSE held[s]]
        /\ live' = IF type = "strings" THEN live
                   ELSE [live EXCEPT ![type][key] = Reference(c, r, Believed(type, key))]
        /\ spoiled' = [spoiled EXCEPT ![key] = @ \/ stale \/ misled]
        /\ deleted' = IF c.op \in {"SetDel", "ListDel"} /\ r.status = "OK"
                      THEN deleted \cup {<<type, key>>} ELSE deleted
        /\ badUnlock' = IF Locked(c.op) /\ Surplus(c.keys)
                        THEN badUnlock \cup {c.keys} ELSE badUnlock
        /\ reply' = IF c.op = "MSetnx"
                    THEN <<c.op, \E i \in DOMAIN c.keys :
                                    Fresh(DbGet(db["strings"], <<c.keys[i]>>), now)>>
                    ELSE <<c.op, r.ret>>
        /\ UNCHANGED <<kind, stripe, now, calls>>
Finish(t) == th[t].pc = "write" /\ FinishWith(t, th[t], Result(th[t]))

\* RedisDB::Del and RedisDB::Expire ask every type in turn and count the OKs.
\* One client, which waits for the answer.
Sub(op, key, a) == [Idle EXCEPT !.op = op, !.keys = <<key>>, !.a = a,
                                !.m = Current(op, key), !.d = db[TypeOf(op)]]
KeyCommandWith(ops, key, a, r) ==
    LET OpOf(type) == CHOOSE op \in ops : TypeOf(op) = type
    IN  /\ \A t \in Threads : th[t].pc = "idle"
        /\ calls < MaxCalls[kind]
        /\ calls' = calls + 1
        /\ db' = [type \in Types |-> ApplyBatch(db[type], r[OpOf(type)].puts, r[OpOf(type)].dels)]
        /\ live' = [type \in Types |-> [live[type] EXCEPT ![key] =
                      Reference(Sub(OpOf(type), key, a), r[OpOf(type)], Believed(type, key))]]
        /\ deleted' = deleted \cup {<<TypeOf(op), key>> : op \in
                          {x \in ops \cap {"SetDel", "ListDel"} : r[x].status = "OK"}}
        /\ reply' = <<IF "Del" \in ops THEN "RedisDel" ELSE "RedisExpire",
                      Cardinality({op \in ops : r[op].status = "OK"})>>
        /\ UNCHANGED <<kind, stripe, now, held, th, spoiled, badUnlock>>

KeyCommand(ops, key, a) == KeyCommandWith(ops, key, a, [op \in ops |-> Result(Sub(op, key, a))])

RedisDel(key) == KeyCommand({"Del", "HashDel", "SetDel", "ListDel", "ZSetDel"}, key, <<>>)
RedisExpire(key, ttl) ==
    KeyCommand({"Expire", "HashExpire", "SetExpire", "ListExpire", "ZSetExpire"}, key,
               [ttl |-> ttl])

Tick == /\ now < MaxTime
        /\ now' = now + 1
        /\ UNCHANGED <<kind, stripe, db, held, th, calls, live, spoiled, deleted,
                       badUnlock, reply>>

-----------------------------------------------------------------------------
(* The commands a run explores, with their arguments.                      *)

One == Numeral(1)

StringCalls ==
    {<<op, [v |-> One, ttl |-> ttl, old |-> One]>> :
        op \in {"Setxx", "Setnx", "Setvx"}, ttl \in {0, 1}}
    \cup {<<op, [v |-> One, ttl |-> 1, old |-> One]>> :
            op \in {"Set", "GetSet", "Append", "Delvx", "Del", "Persist", "Expireat"}}
    \cup {<<"Set", [v |-> <<>>]>>}
    \cup {<<"SetBit", [offset |-> o, bit |-> 1]>> : o \in {0, 4}}
    \cup {<<"Setrange", [offset |-> o, v |-> One]>> : o \in {0, 2}}
    \cup {<<"Expire", [ttl |-> n]>> : n \in {0, 1}}
    \cup {<<op, [n |-> n]>> : op \in {"Incrby", "Decrby", "Incrbyfloat"}, n \in {-1, 2}}

HashCalls ==
    {<<"HSet", [field |-> f, value |-> v]>> : f \in {1, 2}, v \in {<<"v">>, <<"w">>}}
    \cup {<<"HMSet", [fvs |-> <<[field |-> 1, value |-> <<"v">>], [field |-> 2, value |-> <<"v">>],
                               [field |-> 1, value |-> <<"w">>]>>]>>}
    \cup {<<"HDel", [fields |-> fs]>> : fs \in {{1}, {1, 2}}}
    \cup {<<"HashDel", <<>>>>}

SetCalls == {<<"SAdd", [members |-> ms]>> : ms \in {{1}, {2}, {1, 2}}}
            \cup {<<"SetDel", <<>>>>}

ListCalls == {<<"LPush", [values |-> vs]>> : vs \in {<<<<1>>>>, <<<<2>>, <<3>>>>}}
             \cup {<<"LInsert", [pivot |-> <<p>>, value |-> <<4>>, before |-> b, blind |-> x]>> :
                     p \in {1, 2}, b \in BOOLEAN, x \in BOOLEAN}
             \cup {<<"LPop", <<>>>>, <<"ListDel", <<>>>>}

ZSetCalls == {<<"ZAdd", [sms |-> s]>> :
                s \in {<<[member |-> 1, score |-> 2]>>,
                       <<[member |-> 1, score |-> -1], [member |-> 2, score |-> 0]>>,
                       <<[member |-> 2, score |-> 2], [member |-> 2, score |-> 1]>>}}
             \cup {<<"ZIncrby", [member |-> m, score |-> n]>> : m \in {1, 2}, n \in {0, 2}}
             \cup {<<"ZSetExpire", [ttl |-> n]>> : n \in {0, 1}}
             \cup {<<"ZSetDel", <<>>>>}

FacadeCalls == {<<"Set", [v |-> One]>>, <<"HSet", [field |-> 1, value |-> <<"v">>]>>,
                <<"SAdd", [members |-> {1}]>>, <<"LPush", [values |-> <<<<1>>>>]>>,
                <<"ZAdd", [sms |-> <<[member |-> 1, score |-> 2]>>]>>}

CallsOf(k) == CASE k = "strings" -> StringCalls [] k = "hash" -> HashCalls
                [] k = "set" -> SetCalls [] k = "list" -> ListCalls
                [] k = "zset" -> ZSetCalls [] OTHER -> FacadeCalls

FirstKey == Min(Keys)
KeyVectors == {<<k, l>> : k, l \in Keys} \cup {<<k, l, k>> : k, l \in Keys}

Client(t) ==
    \/ /\ kind # "mset"
       /\ kind = "facade" => \A u \in Threads : th[u].pc = "idle"
       /\ \E c \in CallsOf(kind) : Call(t, c[1], <<FirstKey>>, c[2])
    \/ /\ kind = "mset"
       /\ \E op \in {"MSet", "MSetnx"}, ks \in KeyVectors : Call(t, op, ks, [v |-> One])

Next == \/ \E t \in Threads : \/ Client(t) \/ Probe(t) \/ Lock(t) \/ ReadMeta(t)
                              \/ ReadElements(t) \/ Finish(t)
        \/ kind = "facade" /\ (RedisDel(FirstKey) \/ \E n \in {0, 1} : RedisExpire(FirstKey, n))
        \/ kind # "mset" /\ Tick

Spec == Init /\ [][Next]_vars
-----------------------------------------------------------------------------
\* No update is lost under the lock: when a command that holds the stripe of
\* its key writes, the meta record (or string) is still the one it read,
\* unless HDel or Setrange, which take no lock, wrote in between.
LockProtects ==
    \A t \in Threads : LET c == th[t] IN
        c.pc = "write" /\ c.op \notin {"MSet", "MSetnx"} /\ Locked(c.op) /\ ~ c.dirty
            => c.m = Current(c.op, c.keys[1])

HashMeta(k) == DbGet(db["hash"], <<k>>)
SetMeta(k) == DbGet(db["set"], <<k>>)
ListRec(k) == DbGet(db["list"], ListMetaKey(k))
ZSetRec(k) == DbGet(db["zset"], ZSetMetaKey(k))

ListIndexes(k) == {r[3] : r \in FieldsAt(db["list"], k, ListMeta(ListRec(k)).version)}
ScoreRecords(k) == {r \in DOMAIN db["zset"] : r[1] = k /\ r[2] = Meta(ZSetRec(k)).version}
MemberRecords(k) == {r \in DOMAIN db["zset"] :
                        r[1] = k /\ r[2] = 0 /\ r[3] = Meta(ZSetRec(k)).version}

\* The count in a meta record is the number of element records under its
\* version, and those of a list have consecutive indexes: over any sequence of
\* commands, re-creations within one second included, as long as no command
\* wrote over a record newer than the one it read or inserted into a list by
\* the right index it was created with, and a set was not deleted.  From its
\* first deletion on a list also has its right index right.
CountExact ==
    \A k \in Keys : ~ spoiled[k] =>
        /\ HashMeta(k) # NoRec =>
              Meta(HashMeta(k)).count
                = Cardinality(FieldsAt(db["hash"], k, Meta(HashMeta(k)).version))
        /\ SetMeta(k) # NoRec /\ <<"set", k>> \notin deleted =>
              Meta(SetMeta(k)).count
                = Cardinality(FieldsAt(db["set"], k, Meta(SetMeta(k)).version))
        /\ ListRec(k) # NoRec =>
              LET m == ListMeta(ListRec(k))
              IN  /\ ListIndexes(k) = (m.left + 1) .. (m.left + m.count)
                  /\ <<"list", k>> \in deleted => m.right = m.left + m.count + 1
        /\ ZSetRec(k) # NoRec => Meta(ZSetRec(k)).count = Cardinality(ScoreRecords(k))

\* The two indexes of a sorted set agree: a member has one score record, that
\* of its score.
ZIndexesAgree ==
    \A k \in Keys : ZSetRec(k) # NoRec =>
        {<<r[4], db["zset"][r][1]>> : r \in MemberRecords(k)}
            = {<<r[4], r[3]>> : r \in ScoreRecords(k)}

ByScore(seq) == \A i \in 1 .. Len(seq) - 1 :
    seq[i][2] < seq[i + 1][2] \/ (seq[i][2] = seq[i + 1][2] /\ seq[i][1] < seq[i + 1][1])

ListValues(k) == LET m == ListMeta(ListRec(k)) IN
    [i \in 1 .. m.count |-> db["list"][ListsDataKey(k, m.version, m.left + i)]]

\* What the readers return is what the finished commands left: nothing of a
\* deleted or expired collection comes back, LInsert and ZAdd keep the order,
\* and no element is lost.  A set that was deleted may lose members; a list
\* read by index is right only once it was deleted (its right index is wrong
\* before).
ReadsMatch ==
    \A k \in Keys : ~ spoiled[k] =>
        /\ HGetall(HashMeta(k), db["hash"], k, now) = Believed("hash", k)
        /\ \A f \in {1, 2} : HExists(HashMeta(k), db["hash"], k, f, now)
                             <=> \E p \in Believed("hash", k) : p[1] = f
        /\ LET seen == SMembers(SetMeta(k), db["set"], k, now)
           IN  /\ seen \subseteq Believed("set", k)
               /\ <<"set", k>> \notin deleted =>
                    /\ seen = Believed("set", k)
                    /\ SCard(SetMeta(k), now).ret = Cardinality(seen)
        /\ ListRec(k) # NoRec => ListValues(k) = Believed("list", k)
        /\ LLen(ListRec(k), now).ret = Len(Believed("list", k))
        /\ <<"list", k>> \in deleted /\ Believed("list", k) # <<>> =>
              LRange(ListRec(k), db["list"], k, 0, -1, now).ret = Believed("list", k)
        /\ LET all == ZRange(ZSetRec(k), db["zset"], k, 0, -1, now).ret
           IN  /\ {all[i] : i \in DOMAIN all} = Believed("zset", k)
               /\ ByScore(all)
               /\ Len(all) = ZCard(ZSetRec(k), now).ret
               /\ \A i \in DOMAIN all :
                     ZRank(ZSetRec(k), db["zset"], k, all[i][1], now).ret = i - 1

Bits(m) == {o \in 0 .. ByteBits * Len(User(m)) - 1 : GetBit(m, o, now).ret = 1}

\* The scan that is asked for one key at a time, until it says it is done.
PageByPage[start \in Nat] ==
    LET all == [match |-> DOMAIN db["strings"], upto |-> DOMAIN db["strings"]]
        page == Scan(db["strings"], <<start>>, all, 1, now)
    IN  page.keys \o (IF page.next = NoRec THEN <<>> ELSE PageByPage[page.next[1]])

\* The ways to read a string agree with each other: BitCount with GetBit, the
\* parts of Getrange with the whole, Strlen, MGet and TTL with Get, and a scan
\* in pages with the list of the keys.
StringReadersAgree ==
    /\ \A k \in Keys :
        LET m == DbGet(db["strings"], <<k>>)
            value == Get(m, now).ret
        IN  /\ Strlen(m, now).ret = Len(value)
            /\ TTL(m, now).ret = -2 <=> Get(m, now).status = "NotFound"
            /\ MGet(db["strings"], <<<<k>>>>, now)[1] = Get(m, now)
            /\ Fresh(m, now) =>
                 /\ BitCount(m, 0, 0, FALSE, now).ret = Cardinality(Bits(m))
                 /\ \A i \in 1 .. Len(value) - 1 :
                      /\ Getrange(m, 0, i - 1, now).ret \o Getrange(m, i, -1, now).ret = value
                      /\ BitCount(m, 0, i - 1, TRUE, now).ret
                           + BitCount(m, i, -1, TRUE, now).ret = Cardinality(Bits(m))
    /\ {PageByPage[1][i] : i \in DOMAIN PageByPage[1]}
        = ScanKeys(db["strings"], DOMAIN db["strings"], now)
    /\ LET n == ScanKeyNum(db["strings"], now)
       IN  n.invaildkeys + Cardinality(ScanKeys(db["strings"], DOMAIN db["strings"], now))
            = Cardinality(DOMAIN db["strings"])

WaitsFor(t, u) == /\ th[t].pc = "lock"
                  /\ held[LockOrder(th[t].keys)[th[t].next]] = u

\* MultiHashLock in the order of the keys: threads wait for each other in a
\* circle only when two keys share a stripe, and a stripe is unlocked twice
\* only by a command that names a key again after another one.
StripesSafe ==
    /\ (\E t, u \in Threads : WaitsFor(t, u) /\ WaitsFor(u, t))
         => \E j, k \in Keys : j # k /\ stripe[j] = stripe[k]
    /\ \A ks \in badUnlock : \E i, j, x \in DOMAIN ks :
         i < x /\ x < j /\ ks[i] = ks[j] /\ ks[x] # ks[i]

\* The striped locks keep what they protect and do not block for ever
\* (LockMgr, HashLock, MultiHashLock).
LocksSafe == LockProtects /\ StripesSafe

\* Meta records and element records agree, over any sequence of commands
\* (RedisHash, RedisSet, RedisList, RedisZset).
CollectionsExact == CountExact /\ ZIndexesAgree

\* What is read is what was written, whichever command reads it (the readers
\* of all types, DB iterators included).
ReadersAgree == ReadsMatch /\ StringReadersAgree

\* redisdb.h: "Specified members that are already a member of this set are
\* ignored": the cardinality is the number of distinct members.
SAddIgnoresMembers ==
    \A k \in Keys : SCard(SetMeta(k), now).ret = Cardinality(Believed("set", k))
=============================================================================
