------------------------------ MODULE LogFormat ------------------------------
(***************************************************************************)
(* The format of the write-ahead log and of the manifest: LogWriter cuts a *)
(* record into fragments that do not cross a block, LogReader puts them    *)
(* together again, from a file that a crash has cut short, that a later    *)
(* writer went on with, that a failed append has left out of step with its *)
(* writer, or that was damaged.                                            *)
(*                                                                         *)
(* A file is a sequence of bytes.  The header has three: the checksum, the *)
(* length, the type.  A checksum is what it was computed of, a byte of     *)
(* data is its record and its place in it.  All readers of the repository  *)
(* start at offset 0, so resyncing and SkipToInitialBlock are left out.    *)
(***************************************************************************)
EXTENDS Integers, Sequences, SequencesExt, FiniteSets, FiniteSetsExt

CONSTANTS kBlockSize,
          RecordLengths,
          MaxRecords,      \* bound: records written
          MaxFaults        \* bound: crashes, damaged bytes, appends and reads that fail

kHeaderSize == 3

ASSUME LogAssumption == /\ kBlockSize \in Nat /\ kBlockSize > kHeaderSize
                        /\ RecordLengths \subseteq Nat

VARIABLES file,         \* the bytes
          blockoffset,  \* LogWriter::blockoffset
          written,      \* the records given to AddRecord: length, place, fate
          reader,       \* LogReader, open once it is made
          cuts,         \* the lengths to which crashes cut the file
          badAppends,   \* how many appends failed
          damage        \* the offsets of the damaged bytes

logVars == <<file, blockoffset, written, reader, cuts, badAppends, damage>>

MoreFaults == Cardinality(cuts) + badAppends + Cardinality(damage) < MaxFaults

Zero == <<"zero">>
DataByte(rec, j) == <<"data", rec, j>>
Payload(rec) == [j \in 1 .. written[rec].length |-> DataByte(rec, j)]

-----------------------------------------------------------------------------
(* LogWriter                                                               *)

\* EmitPhysicalRecord: the header and the payload.
EmitPhysicalRecord(type, payload) ==
    <<<<"crc", type, payload>>, <<"len", Len(payload)>>, <<"type", type>>>> \o payload

TypeOfFragment(begin, end) == IF begin /\ end THEN "Full" ELSE IF begin THEN "First"
                              ELSE IF end THEN "Last" ELSE "Middle"

\* The bytes with which AddRecord fills the rest of a block that has no room
\* for a header.
Trailer(offset) == IF kBlockSize - offset < kHeaderSize THEN kBlockSize - offset ELSE 0

\* The fragments of a record of n bytes, when `left' bytes of it are to be
\* written at the given offset of a block: the filling, and the bytes.
Fragments(rec, n, offset) ==
    LET cut[left \in 0 .. n, at \in 0 .. kBlockSize] ==
            LET from == IF Trailer(at) > 0 \/ at = kBlockSize THEN 0 ELSE at
                size == Min({left, kBlockSize - from - kHeaderSize})
                payload == [j \in 1 .. size |-> DataByte(rec, n - left + j)]
                \* the writer has begun a record once a fragment of it is out
                type == TypeOfFragment(at = offset /\ left = n, left = size)
                bytes == [i \in 1 .. Trailer(at) |-> Zero] \o EmitPhysicalRecord(type, payload)
                after == from + kHeaderSize + size
            IN  <<[bytes |-> bytes, pad |-> Trailer(at), after |-> after]>>
                \o (IF left > size THEN cut[left - size, after] ELSE <<>>)
    IN  cut[n, offset]

BytesOf(frags) == FlattenSeq([i \in DOMAIN frags |-> frags[i].bytes])

Entry(n, frags, whole) ==
    [length |-> n, off |-> Len(file) + frags[1].pad,
     end |-> Len(file) + Len(BytesOf(frags)), whole |-> whole]

\* A LogReader that has read nothing.
NewReader == [open |-> FALSE, pos |-> 0, buffer |-> <<>>, eof |-> FALSE, endofbufferoffset |-> 0,
              infragmentedrecord |-> FALSE, scratch |-> <<>>, prospectiverecordoffset |-> 0,
              out |-> <<>>, done |-> FALSE, failed |-> FALSE]

LogInit == /\ file = <<>> /\ blockoffset = 0 /\ written = <<>> /\ reader = NewReader
           /\ cuts = {} /\ badAppends = 0 /\ damage = {}

AddRecord(n) ==
    LET frags == Fragments(Len(written) + 1, n, blockoffset)
    IN  /\ ~ reader.open /\ Len(written) < MaxRecords
        /\ file' = file \o BytesOf(frags)
        /\ blockoffset' = Last(frags).after
        /\ written' = Append(written, Entry(n, frags, TRUE))
        /\ UNCHANGED <<reader, cuts, badAppends, damage>>

\* An append to the file fails within fragment f, after k of its bytes; the
\* offset moves on as if the fragment had been written, and AddRecord ends.
AddRecordFails(n, f, k) ==
    LET frags == Fragments(Len(written) + 1, n, blockoffset)
    IN  /\ ~ reader.open /\ Len(written) < MaxRecords /\ MoreFaults
        /\ f \in DOMAIN frags /\ k < Len(frags[f].bytes)
        /\ file' = file \o BytesOf(SubSeq(frags, 1, f - 1)) \o SubSeq(frags[f].bytes, 1, k)
        /\ blockoffset' = frags[f].after
        /\ written' = Append(written, Entry(n, frags, FALSE))
        /\ badAppends' = badAppends + 1
        /\ UNCHANGED <<reader, cuts, damage>>

\* A crash leaves a prefix of the file; LogWriter(dest, destlength) goes on
\* with it, as the options that reuse the log and the manifest ask for.
CrashAndReuse(n) ==
    /\ ~ reader.open /\ MoreFaults /\ n <= Len(file)
    /\ file' = SubSeq(file, 1, n)
    /\ blockoffset' = n % kBlockSize
    /\ written' = [r \in DOMAIN written |->
                      [written[r] EXCEPT !.whole = @ /\ written[r].end <= n]]
    /\ cuts' = cuts \cup {n}
    /\ UNCHANGED <<reader, badAppends, damage>>

\* A byte of the file changes; a length may become any other.
Damaged(byte) ==
    CASE byte[1] = "len" -> {<<"len", n>> : n \in (0 .. kBlockSize) \ {byte[2]}}
      [] byte[1] = "type" -> {<<"type", t>> : t \in {"Full", "First", "Last", "unknown"} \ {byte[2]}}
      [] OTHER -> {<<"data", 0, 0>>}

Damage(i) ==
    /\ ~ reader.open /\ MoreFaults
    /\ \E byte \in Damaged(file[i]) : file' = [file EXCEPT ![i] = byte]
    /\ damage' = damage \cup {i - 1}
    /\ UNCHANGED <<blockoffset, written, reader, cuts, badAppends>>

-----------------------------------------------------------------------------
(* LogReader                                                               *)

Open == /\ ~ reader.open
        /\ reader' = [NewReader EXCEPT !.open = TRUE]
        /\ UNCHANGED <<file, blockoffset, written, cuts, badAppends, damage>>

\* What ReadRecord does with kEof: the record it was in the middle of is left.
AtEof(r) == [r EXCEPT !.buffer = <<>>, !.scratch = <<>>, !.infragmentedrecord = FALSE,
                      !.done = TRUE]

\* Mutant: a bad fragment leaves the reader in the middle of its record.
BadRecordGoesOn(r) == [r EXCEPT !.buffer = <<>>]

\* kBadRecord: the rest of the block is dropped, and the record it was part of.
BadRecord(r) == [r EXCEPT !.buffer = <<>>, !.scratch = <<>>, !.infragmentedrecord = FALSE]

\* The next block; the read may fail, which ends the file.
ReadBlockOf(fails) ==
    LET got == SubSeq(file, reader.pos + 1, Min({reader.pos + kBlockSize, Len(file)}))
    IN  /\ reader.open /\ ~ reader.done /\ ~ reader.eof
        /\ Len(reader.buffer) < kHeaderSize
        /\ fails => MoreFaults
        /\ reader' = IF fails THEN [AtEof(reader) EXCEPT !.eof = TRUE, !.failed = TRUE]
                     ELSE [reader EXCEPT !.buffer = got, !.pos = @ + Len(got),
                                         !.endofbufferoffset = @ + Len(got),
                                         !.eof = Len(got) < kBlockSize]
        /\ UNCHANGED <<file, blockoffset, written, cuts, badAppends, damage>>

\* The header of the buffer.  Bytes of data in its place are some length or
\* other, and no checksum.
LengthField(b) == IF b[2][1] = "len" THEN b[2][2] ELSE 0
TypeField(b) == IF b[3][1] = "type" THEN b[3][2] ELSE IF b[3] = Zero THEN "zero" ELSE "unknown"

\* A record that ReadRecord returns; the next call starts afresh.
Return(r, payload, offset) ==
    [r EXCEPT !.out = Append(@, [payload |-> payload, off |-> offset]),
              !.scratch = <<>>, !.infragmentedrecord = FALSE]

\* ReadRecord for a good fragment, which is already removed from the buffer.
TakeFragment(r, type, fragment) ==
    LET offset == r.endofbufferoffset - Len(r.buffer) - kHeaderSize - Len(fragment)
        more == r.scratch \o fragment
    IN  CASE type = "Full" -> Return(r, fragment, offset)
          [] type = "First" -> [r EXCEPT !.scratch = fragment, !.infragmentedrecord = TRUE,
                                         !.prospectiverecordoffset = offset]
          [] type = "Middle" -> IF r.infragmentedrecord THEN [r EXCEPT !.scratch = more] ELSE r
          [] type = "Last" -> IF r.infragmentedrecord
                              THEN Return(r, more, r.prospectiverecordoffset) ELSE r
          [] OTHER -> [r EXCEPT !.scratch = <<>>, !.infragmentedrecord = FALSE]

\* ReadPhysicalRecord finds a header, or the end.
ReadPhysicalRecord ==
    LET b == reader.buffer
        length == LengthField(b)
        fragment == SubSeq(b, kHeaderSize + 1, kHeaderSize + length)
        rest == [reader EXCEPT !.buffer = SubSeq(b, kHeaderSize + length + 1, Len(b))]
    IN  /\ reader.open /\ ~ reader.done
        /\ Len(b) < kHeaderSize => reader.eof
        /\ reader' =
              IF Len(b) < kHeaderSize THEN AtEof(reader)
              ELSE IF kHeaderSize + length > Len(b)
              THEN IF reader.eof THEN AtEof(reader) ELSE BadRecord(reader)
              ELSE IF TypeField(b) = "zero" /\ length = 0 THEN BadRecord(reader)
              ELSE IF b[1] # <<"crc", TypeField(b), fragment>> THEN BadRecord(reader)
              ELSE TakeFragment(rest, TypeField(b), fragment)
        /\ UNCHANGED <<file, blockoffset, written, cuts, badAppends, damage>>

LogNext ==
    \/ \E n \in RecordLengths :
        \/ AddRecord(n)
        \/ \E f \in 1 .. 3, k \in 0 .. kBlockSize + kHeaderSize : AddRecordFails(n, f, k)
    \/ \E n \in 0 .. Len(file) : CrashAndReuse(n)
    \/ \E i \in DOMAIN file : Damage(i)
    \/ Open
    \/ ReadBlockOf(FALSE) \/ ReadBlockOf(TRUE)
    \/ ReadPhysicalRecord

-----------------------------------------------------------------------------
Blocks(r) == {o \div kBlockSize : o \in written[r].off .. written[r].end - 1}

\* A crash within a record leaves part of a fragment, which spoils what is
\* written behind it up to the end of the block.
Ragged == {n \in cuts : \E r \in DOMAIN written : written[r].off < n /\ n < written[r].end
                                                 /\ ~ written[r].whole}
DamagedBlocks == {d \div kBlockSize : d \in damage \cup {n - 1 : n \in Ragged}}

\* Every record the reader returns is one that was written, whole, made of its
\* own fragments only and reported at its own offset, and they come in the
\* order of the file, whatever crash, failed append or damage there was.  When
\* no append failed and no read did, nothing else is lost than the records that
\* a crash cut and those with a part in a damaged block, or in the block where
\* a writer went on behind part of a fragment.
LogReadsBack ==
    reader.open =>
        /\ \A i \in DOMAIN reader.out :
              /\ \E r \in DOMAIN written : /\ written[r].off = reader.out[i].off
                                           /\ Payload(r) = reader.out[i].payload
              /\ i > 1 => reader.out[i - 1].off < reader.out[i].off
        /\ reader.done /\ ~ reader.failed /\ badAppends = 0 =>
              \A r \in DOMAIN written :
                  written[r].whole /\ Blocks(r) \cap DamagedBlocks = {} =>
                      \E i \in DOMAIN reader.out : reader.out[i].off = written[r].off
==============================================================================
