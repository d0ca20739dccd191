---------------------------- MODULE RedisStrings ----------------------------
(***************************************************************************)
(* The string commands of redistring.cc, each as what it makes of the      *)
(* record it read: a status, a result and the write it asks for.           *)
(*                                                                         *)
(* A user value is a sequence of bytes of three bits: NUL, the digits 0 to *)
(* 5, and the minus sign.  64-bit integers are -MaxInt .. MaxInt.          *)
(***************************************************************************)
EXTENDS RedisRecords, FiniteSetsExt

MaxInt == 2
ByteBits == 3
Radix == 6
Nul == 0
Minus == 7

\* How a command ends: keep what is stored, put a record, or delete it.
Keep(status, ret) == [status |-> status, ret |-> ret, write |-> "none", rec |-> NoRec]
Put(ret, rec) == [status |-> "OK", ret |-> ret, write |-> "put", rec |-> rec]
Delete(ret) == [status |-> "OK", ret |-> ret, write |-> "del", rec |-> NoRec]

Found(m) == m # NoRec
Fresh(m, now) == Found(m) /\ ~ IsStale(ParsedStringsMetaValue(m), now)
User(m) == ParsedStringsMetaValue(m).user
Timestamp(m) == ParsedStringsMetaValue(m).timestamp

\* What the commands answer for a record that is absent or has expired.
Missing(ret) == Keep("NotFound", ret)

Ttl(ttl, now) == IF ttl > 0 THEN RelativeTimestamp(ttl, now) ELSE 0

-----------------------------------------------------------------------------
\* std::to_string and strtoll, which stops at a NUL and saturates.
DigitsOf[n \in Nat] == IF n < Radix THEN <<n + 1>>
                       ELSE DigitsOf[n \div Radix] \o <<(n % Radix) + 1>>

Numeral(n) == IF n < 0 THEN <<Minus>> \o DigitsOf[-n] ELSE DigitsOf[n]

CString(s) == LET nuls == {i \in DOMAIN s : s[i] = Nul}
              IN  IF nuls = {} THEN s ELSE SubSeq(s, 1, Min(nuls) - 1)

Negative(s) == s # <<>> /\ s[1] = Minus
Digits(s) == IF Negative(s) THEN Tail(s) ELSE s

IsNumeral(s) == /\ \A i \in DOMAIN Digits(s) : Digits(s)[i] \in 1 .. Radix
                /\ s # <<Minus>>

NumberOf(s) == LET n == FoldLeft(LAMBDA acc, d : Radix * acc + d - 1, 0, Digits(s))
               IN  IF Negative(s) THEN -n ELSE n

Strtoll(s) == LET n == NumberOf(CString(s))
              IN  IF n > MaxInt THEN MaxInt ELSE IF n < -MaxInt THEN -MaxInt ELSE n

-----------------------------------------------------------------------------
Set(m, a, now) == Put(0, StringsMetaValue(a.v, 0))

Get(m, now) == IF Fresh(m, now) THEN Keep("OK", User(m)) ELSE Missing(<<>>)

Setxx(m, a, now) ==
    IF Fresh(m, now) THEN Put(1, StringsMetaValue(a.v, Ttl(a.ttl, now)))
    ELSE Keep(IF Found(m) THEN "OK" ELSE "NotFound", 0)

GetSet(m, a, now) ==
    Put(IF Fresh(m, now) THEN User(m) ELSE <<>>, StringsMetaValue(a.v, 0))

\* The bit at an offset: the first bit of a byte is its most significant.
BitOf(byte, bit) == (byte \div 2^bit) % 2

BitAt(value, offset) ==
    LET i == (offset \div ByteBits) + 1
    IN  IF i > Len(value) THEN 0
        ELSE BitOf(value[i], ByteBits - 1 - (offset % ByteBits))

WithBit(value, offset, b) ==
    LET i == (offset \div ByteBits) + 1
        bit == ByteBits - 1 - (offset % ByteBits)
        old == IF i > Len(value) THEN 0 ELSE value[i]
        new == old - BitOf(old, bit) * 2^bit + b * 2^bit
    IN  [j \in 1 .. (IF i > Len(value) THEN i ELSE Len(value)) |->
            IF j = i THEN new ELSE IF j <= Len(value) THEN value[j] ELSE 0]

\* The timestamp of the old record is not carried over.
SetBit(m, a, now) ==
    LET value == IF Fresh(m, now) THEN User(m) ELSE <<>>
        old == BitAt(value, a.offset)
    IN  IF a.offset < 0 THEN Keep("InvalidArgument", 0)
        ELSE IF old = a.bit THEN Keep("OK", old)
        ELSE Put(old, StringsMetaValue(WithBit(value, a.offset, a.bit), 0))

GetBit(m, offset, now) ==
    Keep("OK", BitAt(IF Fresh(m, now) THEN User(m) ELSE <<>>, offset))

Setnx(m, a, now) ==
    IF Fresh(m, now) THEN Keep("OK", 0)
    ELSE Put(1, StringsMetaValue(a.v, Ttl(a.ttl, now)))

Setvx(m, a, now) ==
    IF ~ Fresh(m, now) THEN Keep("OK", 0)
    ELSE IF User(m) = a.old THEN Put(1, StringsMetaValue(a.v, Ttl(a.ttl, now)))
    ELSE Keep("OK", -1)

Del(m, now) == IF Fresh(m, now) THEN Delete(0) ELSE Missing(0)

Delvx(m, a, now) ==
    IF ~ Fresh(m, now) THEN Missing(0)
    ELSE IF User(m) = a.old THEN Delete(1) ELSE Keep("OK", -1)

Padding(n) == [i \in 1 .. n |-> Nul]

\* What follows the overwritten range is kept; the lengths are unsigned, so
\* that an empty argument at the start takes no tail.
Tailing(old, start, v) ==
    IF start + Len(v) \in 1 .. Len(old) - 1
    THEN SubSeq(old, start + Len(v) + 1, Len(old)) ELSE <<>>

\* No lock is taken.  With an empty old value the unsigned length minus one
\* is the largest number, and substr throws.
Setrange(m, a, now) ==
    LET v == CString(a.v)
        old == IF Fresh(m, now) THEN User(m) ELSE <<>>
        new == IF a.offset > Len(old) THEN old \o Padding(a.offset - Len(old)) \o v
               ELSE SubSeq(old, 1, a.offset) \o v \o Tailing(old, a.offset, a.v)
    IN  IF a.offset < 0 THEN Keep("InvalidArgument", 0)
        ELSE IF Fresh(m, now) /\ old = <<>> /\ a.offset = 0 /\ a.v # <<>>
        THEN Keep("out_of_range", 0)
        ELSE Put(Len(new), StringsMetaValue(new, 0))

Getrange(m, startoffset, endoffset, now) ==
    LET size == Len(User(m))
        start == IF startoffset >= 0 THEN startoffset ELSE size + startoffset
        endt == IF endoffset >= 0 THEN endoffset ELSE size + endoffset
        from == IF start < 0 THEN 0 ELSE start
        upto == IF endt >= size THEN size - 1 ELSE endt
        to == IF from = 0 /\ upto < 0 THEN 0 ELSE upto
    IN  IF ~ Fresh(m, now) THEN Missing(<<>>)
        ELSE IF start > size - 1 \/ (start # 0 /\ (start > endt \/ endt < 0))
        THEN Keep("OK", <<>>)
        ELSE Keep("OK", SubSeq(User(m), from + 1, to + 1))

Strlen(m, now) == LET g == Get(m, now) IN [g EXCEPT !.ret = Len(g.ret)]

Expire(m, a, now) ==
    IF ~ Fresh(m, now) THEN Missing(0)
    ELSE IF a.ttl > 0
    THEN Put(0, StringsMetaValue(User(m), RelativeTimestamp(a.ttl, now)))
    ELSE Delete(0)

Expireat(m, a, now) ==
    IF ~ Fresh(m, now) THEN Missing(0)
    ELSE IF a.ttl > 0 THEN Put(0, StringsMetaValue(User(m), a.ttl)) ELSE Delete(0)

Persist(m, now) ==
    IF ~ Fresh(m, now) \/ Timestamp(m) = 0 THEN Missing(0)
    ELSE Put(0, StringsMetaValue(User(m), 0))

TTL(m, now) ==
    IF ~ Fresh(m, now) THEN Missing(-2)
    ELSE Keep("OK", IF Timestamp(m) = 0 THEN -1 ELSE Timestamp(m) - now)

Overflows(ival, value) == \/ value >= 0 /\ MaxInt - value < ival
                          \/ value < 0 /\ -MaxInt - value > ival

Incrby(m, a, now) ==
    LET ival == Strtoll(User(m)) IN
    IF ~ Fresh(m, now) THEN Put(a.n, StringsMetaValue(Numeral(a.n), 0))
    ELSE IF ~ IsNumeral(CString(User(m))) THEN Keep("Corruption", 0)
    ELSE IF Overflows(ival, a.n) THEN Keep("InvalidArgument", 0)
    ELSE Put(ival + a.n, StringsMetaValue(Numeral(ival + a.n), Timestamp(m)))

\* The result of a new key is minus the value that is stored, and the check
\* for overflow is the one of the addition: what it lets through wraps around.
Wrap(n) == IF n > MaxInt THEN n - 2 * MaxInt - 1
           ELSE IF n < -MaxInt THEN n + 2 * MaxInt + 1 ELSE n

Decrby(m, a, now) ==
    LET ival == Strtoll(User(m)) IN
    IF ~ Fresh(m, now) THEN Put(-a.n, StringsMetaValue(Numeral(a.n), 0))
    ELSE IF ~ IsNumeral(CString(User(m))) THEN Keep("Corruption", 0)
    ELSE IF Overflows(ival, a.n) THEN Keep("InvalidArgument", 0)
    ELSE Put(Wrap(ival - a.n),
             StringsMetaValue(Numeral(Wrap(ival - a.n)), Timestamp(m)))

\* Long doubles do not overflow in this range.
Incrbyfloat(m, a, now) ==
    LET total == NumberOf(User(m)) + a.n IN
    IF ~ Fresh(m, now) THEN Put(Numeral(a.n), StringsMetaValue(Numeral(a.n), 0))
    ELSE IF ~ IsNumeral(User(m)) THEN Keep("Corruption", 0)
    ELSE Put(Numeral(total), StringsMetaValue(Numeral(total), Timestamp(m)))

StringAppend(m, a, now) ==
    LET new == (IF Fresh(m, now) THEN User(m) ELSE <<>>) \o a.v IN
    Put(Len(new), StringsMetaValue(new, IF Fresh(m, now) THEN Timestamp(m) ELSE 0))

-----------------------------------------------------------------------------
PopCount(byte) == Cardinality({bit \in 0 .. ByteBits - 1 : BitOf(byte, bit) = 1})

\* Mutant: the last byte of the range is left out.
BitCountExclusive(m, startoffset, endoffset, haverange, now) ==
    LET size == Len(User(m))
        Clamp(off) == Max({0, IF off < 0 THEN off + size ELSE off})
        from == IF haverange THEN Clamp(startoffset) ELSE 0
        to == Min({size - 1, IF haverange THEN Clamp(endoffset) ELSE size - 1})
    IN  IF ~ Fresh(m, now) THEN Missing(0)
        ELSE Keep("OK", FoldLeft(LAMBDA n, byte : n + PopCount(byte), 0,
                                 SubSeq(User(m), from + 1, to)))

BitCount(m, startoffset, endoffset, haverange, now) ==
    LET size == Len(User(m))
        Clamp(off) == Max({0, IF off < 0 THEN off + size ELSE off})
        from == IF haverange THEN Clamp(startoffset) ELSE 0
        to == Min({size - 1, IF haverange THEN Clamp(endoffset) ELSE size - 1})
    IN  IF ~ Fresh(m, now) THEN Missing(0)
        ELSE Keep("OK", FoldLeft(LAMBDA n, byte : n + PopCount(byte), 0,
                                 SubSeq(User(m), from + 1, to + 1)))

\* MGet reads every key in one snapshot.
MGet(db, keys, now) == [i \in DOMAIN keys |-> Get(DbGet(db, keys[i]), now)]

\* One page of a scan: pattern.match are the keys the pattern matches,
\* pattern.upto those that its literal prefix does not rule out as next.
Scan(db, startkey, pattern, count, now) ==
    LET KeyLess(j, k) == j[1] < k[1]
        ahead == SeekAndNext(db, startkey, KeyLess)
        fresh == SelectSeq(ahead, LAMBDA k : Fresh(db[k], now))
        page == SubSeq(fresh, 1, Min({count, Len(fresh)}))
        rest == IF Len(page) < count \/ ahead = <<>> THEN <<>>
                ELSE IF count = 0 THEN ahead
                ELSE SelectSeq(ahead, LAMBDA k : page[count][1] < k[1])
    IN  [keys |-> SelectSeq(page, LAMBDA k : k \in pattern.match),
         next |-> IF rest # <<>> /\ rest[1] \in pattern.upto THEN rest[1] ELSE NoRec]

ScanKeys(db, match, now) == {k \in DOMAIN db : Fresh(db[k], now) /\ k \in match}

\* The number of keys is never counted.
ScanKeyNum(db, now) ==
    LET expiring == {k \in DOMAIN db : Fresh(db[k], now) /\ Timestamp(db[k]) # 0}
    IN  [keys |-> 0, expires |-> Cardinality(expiring),
         invaildkeys |-> Cardinality({k \in DOMAIN db : ~ Fresh(db[k], now)})]
=============================================================================
