---------------------------- MODULE ManifestFormat ----------------------------
(***************************************************************************)
(* What a record of the manifest holds: a VersionEdit, as VersionEdit's    *)
(* EncodeTo writes it with the varints of coding.cc and DecodeFrom reads   *)
(* it, from a whole record or from the first part of one.                  *)
(*                                                                         *)
(* A byte is a number below 2 * Radix; Radix is 128 in the code, so that a *)
(* byte carries seven bits and a mark.  A field that is not set is NotSet; *)
(* keys and the name of the comparator are sequences of bytes.             *)
(***************************************************************************)
EXTENDS LogFormat

CONSTANTS Radix,
          Groups32, Groups64,  \* the most bytes GetVarint32 and GetVarint64 read, 5 and 10
          Width32,             \* 2^32
          kNumLevels,
          FieldNumbers,        \* numbers that are put into fields
          Slices,              \* keys and names
          MaxFields            \* bound: fields set in an edit

ASSUME ManifestAssumption ==
    /\ Radix \in Nat \ {0, 1} /\ Groups32 \in Nat \ {0} /\ Groups64 \in Nat \ {0} /\ Width32 \in Nat \ {0}
    /\ kNumLevels \in Nat \ {0} /\ FieldNumbers \subseteq Nat /\ MaxFields \in Nat

NotSet == -1
NoEdit == [comparator |-> <<NotSet>>, lognumber |-> NotSet, prevlognumber |-> NotSet, nextfilenumber |-> NotSet,
           lastsequence |-> NotSet, compactpointers |-> <<>>, deletedfiles |-> {}, newfiles |-> <<>>]

VARIABLES edit,      \* the edit that LogAndApply writes
          fields,    \* how many fields were set
          bytes,     \* its encoding, or the part of it that is left
          whole,     \* bytes is all of it
          decoder    \* DecodeFrom: the edit so far, the input that is left, and msg

manifestVars == <<edit, fields, bytes, whole, decoder>>

Decoder(input, pc) == [edit |-> NoEdit, input |-> input, msg |-> FALSE, pc |-> pc]

ManifestInit ==
    /\ edit = NoEdit /\ fields = 0 /\ bytes = <<>> /\ whole = TRUE /\ decoder = Decoder(<<>>, "none")

-----------------------------------------------------------------------------
(* coding.cc                                                               *)

VarintLength(v) == CHOOSE n \in 1 .. v + 1 : v < Radix ^ n /\ \A k \in 1 .. n - 1 : v >= Radix ^ k

\* EncodeVarint32 and EncodeVarint64 give the same bytes.
PutVarint(v) ==
    [i \in 1 .. VarintLength(v) |-> ((v \div Radix ^ (i - 1)) % Radix) + (IF i < VarintLength(v) THEN Radix ELSE 0)]

PutLengthPrefixedSlice(s) == PutVarint(Len(s)) \o s

\* Mutant: the last of the bytes that a number may have is not read.
OneGroupLess(s, most) == {n \in 1 .. Len(s) : n < most /\ s[n] < Radix /\ \A i \in 1 .. n - 1 : s[i] >= Radix}

\* The length of the varint at the start of s, if there is one.
VarintEnd(s, most) == {n \in 1 .. Len(s) : n <= most /\ s[n] < Radix /\ \A i \in 1 .. n - 1 : s[i] >= Radix}

GetVarint(s, most) ==
    IF VarintEnd(s, most) = {} THEN [ok |-> FALSE, value |-> 0, input |-> s]
    ELSE LET n == CHOOSE k \in VarintEnd(s, most) : TRUE
         IN  [ok |-> TRUE, value |-> SumFunction([i \in 1 .. n |-> (s[i] % Radix) * Radix ^ (i - 1)]),
              input |-> SubSeq(s, n + 1, Len(s))]

GetVarint32(s) == [GetVarint(s, Groups32) EXCEPT !.value = @ % Width32]
GetVarint64(s) == GetVarint(s, Groups64)

\* A slice behind its length, when all of it is there.
SliceOf(len) ==
    IF len.ok /\ Len(len.input) >= len.value
    THEN [ok |-> TRUE, value |-> SubSeq(len.input, 1, len.value), input |-> SubSeq(len.input, len.value + 1, Len(len.input))]
    ELSE [ok |-> FALSE, value |-> <<>>, input |-> len.input]
GetLengthPrefixedSlice(s) == SliceOf(GetVarint32(s))

LevelOf(got) == [got EXCEPT !.ok = @ /\ got.value < kNumLevels]
getLevel(s) == LevelOf(GetVarint32(s))

-----------------------------------------------------------------------------
(* VersionEdit::EncodeTo                                                   *)

Optional(tag, value, encoded) == IF value = NotSet THEN <<>> ELSE PutVarint(tag) \o encoded
Number(tag, v) == Optional(tag, v, PutVarint(v))
CompactPointer(c) == PutVarint(5) \o PutVarint(c.level) \o PutLengthPrefixedSlice(c.key)
DeletedFile(d) == PutVarint(6) \o PutVarint(d.level) \o PutVarint(d.number)
AddedFile(f) ==
    PutVarint(7) \o PutVarint(f.level) \o PutVarint(f.number) \o PutVarint(f.filesize)
    \o PutLengthPrefixedSlice(f.smallest) \o PutLengthPrefixedSlice(f.largest)

\* The order of std::set<std::pair<int, uint64_t>>.
InOrder(files) ==
    SetToSortSeq(files, LAMBDA c, d : c.level < d.level \/ (c.level = d.level /\ c.number < d.number))
Each(Encode(_), s) == FlattenSeq([i \in DOMAIN s |-> Encode(s[i])])

EncodeTo(e) ==
    (IF e.comparator = <<NotSet>> THEN <<>> ELSE PutVarint(1) \o PutLengthPrefixedSlice(e.comparator))
    \o Number(2, e.lognumber) \o Number(9, e.prevlognumber) \o Number(3, e.nextfilenumber) \o Number(4, e.lastsequence)
    \o Each(CompactPointer, e.compactpointers) \o Each(DeletedFile, InOrder(e.deletedfiles)) \o Each(AddedFile, e.newfiles)

-----------------------------------------------------------------------------
(* The edit is built, written, perhaps cut, and read.                      *)

SetField(e) ==
    /\ fields < MaxFields /\ decoder.pc = "none" /\ bytes = <<>>
    /\ edit' = e /\ e # edit /\ fields' = fields + 1
    /\ UNCHANGED <<bytes, whole, decoder>>

SetNumber(v) ==
    \/ SetField([edit EXCEPT !.lognumber = v]) \/ SetField([edit EXCEPT !.prevlognumber = v])
    \/ SetField([edit EXCEPT !.nextfilenumber = v]) \/ SetField([edit EXCEPT !.lastsequence = v])
SetComparatorName(s) == SetField([edit EXCEPT !.comparator = s])
SetCompactPointer(l, k) == SetField([edit EXCEPT !.compactpointers = Append(@, [level |-> l, key |-> k])])
DeleteFile(l, v) == SetField([edit EXCEPT !.deletedfiles = @ \cup {[level |-> l, number |-> v]}])
AddFile(l, v, k) ==
    SetField([edit EXCEPT !.newfiles = Append(@, [level |-> l, number |-> v, filesize |-> v, smallest |-> k, largest |-> k])])

Encode ==
    /\ bytes = <<>> /\ decoder.pc = "none" /\ edit # NoEdit
    /\ bytes' = EncodeTo(edit)
    /\ UNCHANGED <<edit, fields, whole, decoder>>

CutEdit(n) ==
    /\ decoder.pc = "none" /\ whole /\ n < Len(bytes)
    /\ bytes' = SubSeq(bytes, 1, n) /\ whole' = FALSE
    /\ UNCHANGED <<edit, fields, decoder>>

\* DecodeFrom into an edit of its own, as VersionSet::Recover does.
DecodeFrom ==
    /\ bytes # <<>> /\ decoder.pc = "none"
    /\ decoder' = Decoder(bytes, "decode")
    /\ UNCHANGED <<edit, fields, bytes, whole>>

\* The parts of a field with this tag, in the order DecodeFrom asks for them.
PartsOf(tag) == CASE tag = 1 -> <<"slice">>
                  [] tag \in {2, 9, 3, 4} -> <<"number">>
                  [] tag = 5 -> <<"level", "slice">>
                  [] tag = 6 -> <<"level", "number">>
                  [] tag = 7 -> <<"level", "number", "number", "slice", "slice">>
                  [] OTHER -> <<"unknown">>

GetPart(kind, s) == CASE kind = "slice" -> GetLengthPrefixedSlice(s)
                      [] kind = "number" -> GetVarint64(s)
                      [] kind = "level" -> getLevel(s)
                      [] kind = "unknown" -> [ok |-> FALSE, value |-> 0, input |-> s]

\* One part after another; v holds their values.
WithPart(r, got) == [ok |-> r.ok /\ got.ok, v |-> Append(r.v, got.value), input |-> got.input]
ReadParts(kinds, s) ==
    LET read[n \in 0 .. Len(kinds)] ==
            IF n = 0 THEN [ok |-> TRUE, v |-> <<>>, input |-> s]
            ELSE WithPart(read[n - 1], GetPart(kinds[n], read[n - 1].input))
    IN  read[Len(kinds)]

\* The edit with a field whose parts are v.
WithField(e, tag, v) ==
    CASE tag = 1 -> [e EXCEPT !.comparator = v[1]]
      [] tag = 2 -> [e EXCEPT !.lognumber = v[1]]
      [] tag = 9 -> [e EXCEPT !.prevlognumber = v[1]]
      [] tag = 3 -> [e EXCEPT !.nextfilenumber = v[1]]
      [] tag = 4 -> [e EXCEPT !.lastsequence = v[1]]
      [] tag = 5 -> [e EXCEPT !.compactpointers = Append(@, [level |-> v[1], key |-> v[2]])]
      [] tag = 6 -> [e EXCEPT !.deletedfiles = @ \cup {[level |-> v[1], number |-> v[2]]}]
      [] tag = 7 -> [e EXCEPT !.newfiles = Append(@,
            [level |-> v[1], number |-> v[2], filesize |-> v[3], smallest |-> v[4], largest |-> v[5]])]

\* A field that is not all there ends the loop with a message.
DecodeField(d, tag, r) == IF r.ok THEN [d EXCEPT !.edit = WithField(@, tag, r.v), !.input = r.input]
                          ELSE [d EXCEPT !.pc = "done", !.msg = TRUE]

\* One round of the loop, or its end: msg when the input does not end with a field.
DecodeRound(d, tag) == IF tag.ok THEN DecodeField(d, tag.value, ReadParts(PartsOf(tag.value), tag.input))
                       ELSE [d EXCEPT !.pc = "done", !.msg = d.input # <<>>]
DecodeTag ==
    /\ decoder.pc = "decode"
    /\ decoder' = DecodeRound(decoder, GetVarint32(decoder.input))
    /\ UNCHANGED <<edit, fields, bytes, whole>>

ManifestNext ==
    \/ \E v \in FieldNumbers : SetNumber(v)
    \/ \E s \in Slices : SetComparatorName(s)
    \/ \E l \in 0 .. kNumLevels - 1 :
          \/ \E v \in FieldNumbers : DeleteFile(l, v) \/ \E k \in Slices : AddFile(l, v, k)
          \/ \E k \in Slices : SetCompactPointer(l, k)
    \/ Encode \/ DecodeFrom \/ DecodeTag
    \/ \E n \in 1 .. Len(bytes) : CutEdit(n)

-----------------------------------------------------------------------------
(* An edit is read back as it was written.  Of a part of its bytes the     *)
(* decoder makes an error, or the very edit that these bytes encode: no    *)
(* field is made up of what is left of another (VersionEdit::DecodeFrom).  *)
EditReadsBack ==
    decoder.pc = "done" =>
       /\ whole => ~decoder.msg /\ decoder.edit = edit
       /\ ~decoder.msg => EncodeTo(decoder.edit) = bytes

(* The manifest and the logs: records and what is in them.                 *)
RecordsReadBack == LogReadsBack /\ EditReadsBack
=============================================================================
