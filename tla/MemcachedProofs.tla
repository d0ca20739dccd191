---------------------------- MODULE MemcachedProofs ----------------------------
(***************************************************************************)
(* The memcached server for any number of sessions, keys and commands,     *)
(* however the streams are cut and the sessions interleaved.               *)
(*                                                                         *)
(* For the answers the invariant gives each session a history h, which no  *)
(* variable keeps: the commands sent on the connection, the stream of      *)
(* their units, where in it each command begins (from) and how many answers*)
(* are owed before it (owed).  The session has read the stream up to p and *)
(* is at command k: before its line, before the line that its value is read*)
(* as when the value is longer than its line says, in its value, or in a   *)
(* value that is discarded.  For cas it says that all items known to       *)
(* anybody, in the store, in a get that is under way or shown by one, are  *)
(* told apart by their identifiers, all of them given out before.          *)
(***************************************************************************)
EXTENDS Memcached, WellFoundedInduction, SequenceTheorems, TLAPS

(* Types.                                                                  *)

SentCommands == {r \in ClientCommands : WellFormed(r)}
StreamUnits == SentCommands \cup {EOL, Byte}
StoreItems == [key : ItemKeys, value : Seq(StreamUnits), cas : Int, id : Sessions \X Nat \X Nat]
SessionStates == [state : {"kNewCommand", "kReceiveValue", "kDiscardValue"}, command : Keyed \cup {""},
                  noreply : BOOLEAN, policy : Updates \cup {"kInvalid"}, currItem : StoreItems \cup {NoItem},
                  needed : Int, bytesToDiscard : Nat, buf : Seq(StreamUnits), busy : BOOLEAN,
                  keys : Seq(ItemKeys), outputBuf : Seq(StoreItems), connected : BOOLEAN]

\* A value is read into an item, by an update.
ValueAwaited(c) == c.state = "kReceiveValue" => c.currItem \in StoreItems /\ c.policy \in Updates /\ c.needed >= 1

MemTypeOK ==
    /\ items \in [ItemKeys -> StoreItems \cup {NoItem}] /\ nextCas \in Nat
    /\ session \in [Sessions -> SessionStates] /\ \A s \in Sessions : ValueAwaited(session[s])
    /\ wire \in [Sessions -> Seq(StreamUnits)] /\ requests \in [Sessions -> Nat]

\* An item as a gets shows it, and all items that the store, a get under way,
\* a client or a cas knows of.
Shown(i) == [key |-> i.key, cas |-> i.cas, id |-> i.id]
KnownItems == {Shown(items[k]) : k \in {k \in ItemKeys : items[k] # NoItem}}
              \cup (UNION {{Shown(i) : i \in ToSet(session[s].outputBuf)} : s \in Sessions})
              \cup seen \cup swaps

\* An identifier that anybody knows was given out before, to one item.
CasInv ==
    /\ \A k \in ItemKeys : items[k] # NoItem => items[k].key = k
    /\ \A x \in KnownItems : x.cas \in 0 .. nextCas - 1
    /\ \A x, y \in KnownItems : x.cas = y.cas => x = y

-----------------------------------------------------------------------------
LEMMA UnitKinds ==
    /\ \A r \in SentCommands : r \in ClientCommands /\ WellFormed(r) /\ r.op \notin {"eol", "byte"} /\ r # EOL /\ r # Byte
    /\ EOL # Byte /\ EOL.op = "eol" /\ Byte.op = "byte"
  BY DEF SentCommands, ClientCommands, EOL, Byte, Keyed, Updates

LEMMA NoItemIsNone == NoItem \notin StoreItems
  BY DEF NoItem, StoreItems

LEMMA CommandsSent == \A s \in Sessions : Commands[s] \subseteq SentCommands
  BY MemcachedAssumption DEF SentCommands

\* Nat's order: a set of positions has a first one.
LessThan == {ss \in Nat \X Nat : ss[1] < ss[2]}

LEMMA LeastOf ==
    ASSUME NEW S \in SUBSET Nat, S # {}
    PROVE  \E m \in S : \A x \in S : m <= x
<1>1. IsWellFoundedOn(LessThan, Nat)
  BY NatLessThanWellFounded, Zenon DEF OpToRel, LessThan
<1>2. PICK m \in S : \A x \in S : ~(<<x, m>> \in LessThan)
  BY <1>1, WFMin
<1>3. ASSUME NEW x \in S PROVE m <= x
  <2>1. <<x, m>> \in Nat \X Nat /\ ~(<<x, m>> \in LessThan)
    BY <1>2
  <2>2. ~(x < m)
    BY <2>1 DEF LessThan
  <2> QED
    BY <2>1, <2>2
<1> QED
  BY <1>3

\* findCRLF finds the first end of a line.
LEMMA CrlfFinds ==
    ASSUME NEW c, c.buf \in Seq(StreamUnits)
    PROVE  /\ Crlf(c) \in 0 .. Len(c.buf)
           /\ Crlf(c) > 0 => c.buf[Crlf(c)] = EOL /\ \A j \in 1 .. Crlf(c) - 1 : c.buf[j] # EOL
           /\ Crlf(c) = 0 => \A j \in 1 .. Len(c.buf) : c.buf[j] # EOL
<1>1. CASE \A i \in DOMAIN c.buf : c.buf[i] # EOL
  BY <1>1 DEF Crlf
<1>2. CASE \E i \in DOMAIN c.buf : c.buf[i] = EOL
  <2>1. PICK S : S = {i \in 1 .. Len(c.buf) : c.buf[i] = EOL}
    OBVIOUS
  <2>2. S \in SUBSET Nat /\ S # {}
    BY <1>2, <2>1
  <2>3. PICK m \in S : \A x \in S : m <= x
    BY <2>2, LeastOf
  <2>4. m \in DOMAIN c.buf /\ c.buf[m] = EOL /\ \A j \in 1 .. m - 1 : c.buf[j] # EOL
    BY <2>1, <2>2, <2>3
  <2>5. Crlf(c) \in DOMAIN c.buf /\ c.buf[Crlf(c)] = EOL /\ \A j \in 1 .. Crlf(c) - 1 : c.buf[j] # EOL
    BY <1>2, <2>4 DEF Crlf
  <2> QED
    BY <2>5
<1> QED
  BY <1>1, <1>2

\* A line without a command text in it parses as no command.
LEMMA LineParsed ==
    ASSUME NEW c, c.buf \in Seq(StreamUnits), Crlf(c) > 0
    PROVE  /\ Parsed(c) \in SentCommands
           /\ \A r \in SentCommands : Crlf(c) = 2 /\ c.buf[1] = r => Parsed(c) = r
           /\ (\A j \in 1 .. Crlf(c) - 1 : c.buf[j] = Byte) => Parsed(c).op \in {"unknown", "empty"} /\ ~Parsed(c).noreply
<1>1. PICK n \in 1 .. Len(c.buf) : n = Crlf(c)
  BY CrlfFinds
<1>2. \A j \in 1 .. n - 1 : c.buf[j] # EOL
  BY <1>1, CrlfFinds
<1>3. PICK l : l = SubSeq(c.buf, 1, n - 1)
  OBVIOUS
<1>4. l \in Seq(StreamUnits) /\ Len(l) = n - 1 /\ \A j \in 1 .. n - 1 : l[j] = c.buf[j]
  BY <1>3, SubSeqProperties
<1>5. /\ Unknown \in SentCommands /\ Empty \in SentCommands /\ ~Unknown.noreply /\ ~Empty.noreply
      /\ Unknown.op = "unknown" /\ Empty.op = "empty"
  <2>2. <<>> \in Seq(ItemKeys) /\ <<>> \in Seq({Byte}) /\ 0 \in Nat /\ 0 \in Int
    OBVIOUS
  <2>1. Unknown \in ClientCommands
    BY <2>2, Zenon DEF ClientCommands, Unknown
  <2>3. Empty \in ClientCommands
    BY <2>1, Zenon DEF ClientCommands, Empty
  <2>4. /\ ~Unknown.noreply /\ ~Empty.noreply /\ Unknown.op = "unknown" /\ Empty.op = "empty"
    BY DEF Unknown, Empty
  <2>5. WellFormed(Empty) /\ WellFormed(Unknown)
    BY <2>4 DEF WellFormed, Keyed, Updates
  <2> QED
    BY <2>1, <2>3, <2>4, <2>5 DEF SentCommands
<1>6. Parsed(c) = IF l = <<>> THEN Empty ELSE IF Len(l) = 1 /\ Head(l) # Byte THEN Head(l) ELSE Unknown
  BY <1>1, <1>3 DEF Parsed
<1>7. Len(l) = 1 => Head(l) = c.buf[1] /\ c.buf[1] \in StreamUnits /\ c.buf[1] # EOL /\ n = 2
  <2>1. SUFFICES ASSUME Len(l) = 1 PROVE Head(l) = c.buf[1] /\ c.buf[1] \in StreamUnits /\ c.buf[1] # EOL /\ n = 2
    OBVIOUS
  <2>2. n = 2 /\ 1 \in 1 .. n - 1
    <3>1. n \in Int
      BY <1>1
    <3>2. n - 1 = 1
      BY <1>4, <2>1, Zenon
    <3> QED
      BY <3>1, <3>2
  <2>3. l[1] = c.buf[1] /\ c.buf[1] # EOL /\ c.buf[1] \in StreamUnits
    BY <1>2, <1>4, <2>2
  <2> QED
    BY <1>4, <2>1, <2>2, <2>3
<1>8. l = <<>> => n = 1
  BY <1>4
<1>9. Parsed(c) \in SentCommands
  BY <1>5, <1>6, <1>7 DEF StreamUnits
<1>10. ASSUME NEW r \in SentCommands, Crlf(c) = 2, c.buf[1] = r PROVE Parsed(c) = r
  <2>1. Len(l) = 1 /\ l # <<>> /\ Head(l) = r /\ r # Byte
    BY <1>1, <1>4, <1>7, <1>8, <1>10, UnitKinds
  <2> QED
    BY <1>6, <2>1
<1>11. ASSUME \A j \in 1 .. n - 1 : c.buf[j] = Byte PROVE Parsed(c) = Empty \/ Parsed(c) = Unknown
  <2>1. Len(l) = 1 => Head(l) = Byte
    BY <1>7, <1>11
  <2> QED
    BY <1>6, <2>1
<1> QED
  BY <1>1, <1>5, <1>9, <1>10, <1>11

-----------------------------------------------------------------------------
(* The fields of a session                                                 *)

SessionFields == {"state", "command", "noreply", "policy", "currItem", "needed", "bytesToDiscard", "buf",
                  "busy", "keys", "outputBuf", "connected"}

LEMMA FieldsOf ==
    ASSUME NEW c \in SessionStates
    PROVE  /\ DOMAIN c = SessionFields
           /\ c.state \in {"kNewCommand", "kReceiveValue", "kDiscardValue"} /\ c.command \in Keyed \cup {""}
           /\ c.noreply \in BOOLEAN /\ c.policy \in Updates \cup {"kInvalid"}
           /\ c.currItem \in StoreItems \cup {NoItem} /\ c.needed \in Int /\ c.bytesToDiscard \in Nat
           /\ c.buf \in Seq(StreamUnits) /\ c.busy \in BOOLEAN /\ c.keys \in Seq(ItemKeys)
           /\ c.outputBuf \in Seq(StoreItems) /\ c.connected \in BOOLEAN
<1>1. DOMAIN c = SessionFields
  BY Zenon DEF SessionStates, SessionFields
<1> QED
  BY <1>1, Zenon DEF SessionStates

\* What AfterLine leaves: the buffer behind the line.
Behind(c) == SubSeq(c.buf, Crlf(c) + 1, Len(c.buf))

LEMMA LineRead ==
    ASSUME NEW c \in SessionStates
    PROVE  /\ AfterLine(c) = [c EXCEPT !.buf = Behind(c)]
           /\ AfterLine(c) \in SessionStates /\ Behind(c) \in Seq(StreamUnits)
           /\ Len(Behind(c)) = Len(c.buf) - Crlf(c)
           /\ \A i \in 1 .. Len(c.buf) - Crlf(c) : Behind(c)[i] = c.buf[Crlf(c) + i]
<1>1. PICK b : b = c.buf
  OBVIOUS
<1>2. PICK n : n = Crlf(c)
  OBVIOUS
<1>3. b \in Seq(StreamUnits) /\ n \in 0 .. Len(b)
  <2>1. c.buf \in Seq(StreamUnits)
    BY FieldsOf
  <2>2. Crlf(c) \in 0 .. Len(c.buf)
    BY <2>1, CrlfFinds
  <2> QED
    BY <1>1, <1>2, <2>1, <2>2
<1>4. PICK t : t = SubSeq(b, n + 1, Len(b))
  OBVIOUS
<1>5. /\ t \in Seq(StreamUnits) /\ Len(t) = Len(b) - n
      /\ \A i \in 1 .. Len(b) - n : t[i] = b[n + i]
  BY <1>3, <1>4, SubSeqProperties
<1>6. Behind(c) = t
  BY <1>1, <1>2, <1>4 DEF Behind
<1>7. AfterLine(c) = [c EXCEPT !.buf = Behind(c)]
  BY DEF AfterLine, Behind
<1>8. [c EXCEPT !.buf = t] \in SessionStates
  BY <1>5, Zenon DEF SessionStates
<1> QED
  BY <1>1, <1>2, <1>5, <1>6, <1>7, <1>8

LEMMA RequestReset ==
    ASSUME NEW c \in SessionStates
    PROVE  resetRequest(c) \in SessionStates
<1>1. /\ "" \in Keyed \cup {""} /\ "kInvalid" \in Updates \cup {"kInvalid"} /\ NoItem \in StoreItems \cup {NoItem}
      /\ 0 \in Nat /\ FALSE \in BOOLEAN
  OBVIOUS
<1> QED
  BY <1>1, Zenon DEF SessionStates, resetRequest

-----------------------------------------------------------------------------
(* What a step does to one session and to the items known                  *)

LEMMA SessionSet ==
    ASSUME MemTypeOK, NEW s \in Sessions, NEW d \in SessionStates, ValueAwaited(d), session' = [session EXCEPT ![s] = d]
    PROVE  /\ session' \in [Sessions -> SessionStates] /\ session'[s] = d
           /\ \A t \in Sessions : ValueAwaited(session'[t])
           /\ \A t \in Sessions \ {s} : session'[t] = session[t]
  BY DEF MemTypeOK

\* Nothing new is shown: the identifiers still tell all items apart.
LEMMA NothingNew ==
    ASSUME CasInv, NEW s \in Sessions, nextCas' = nextCas, seen' = seen, swaps' = swaps,
           \A k \in ItemKeys : items'[k] \in {items[k], NoItem},
           \A t \in Sessions : ToSet(session'[t].outputBuf) \subseteq ToSet(session[t].outputBuf)
    PROVE  CasInv'
<1>1. KnownItems' \subseteq KnownItems
  <2>1. ASSUME NEW x \in {Shown(items'[k]) : k \in {k \in ItemKeys : items'[k] # NoItem}} PROVE x \in KnownItems
    BY DEF KnownItems
  <2>2. ASSUME NEW x \in UNION {{Shown(i) : i \in ToSet(session'[t].outputBuf)} : t \in Sessions} PROVE x \in KnownItems
    <3>1. PICK t \in Sessions : x \in {Shown(i) : i \in ToSet(session'[t].outputBuf)}
      BY <2>2
    <3>2. x \in {Shown(i) : i \in ToSet(session[t].outputBuf)}
      BY <3>1
    <3> QED
      BY <3>2 DEF KnownItems
  <2> QED
    BY <2>1, <2>2, Zenon DEF KnownItems, Shown
<1>2. \A k \in ItemKeys : items'[k] # NoItem => items'[k].key = k
  BY DEF CasInv
<1> QED
  BY <1>1, <1>2 DEF CasInv

\* One item is stored, under the next identifier.
LEMMA OneNew ==
    ASSUME MemTypeOK, CasInv, NEW k \in ItemKeys, NEW i \in StoreItems, i.key = k, i.cas = nextCas,
           items' = [items EXCEPT ![k] = i], nextCas' = nextCas + 1, seen' = seen,
           swaps' \subseteq swaps \cup (IF items[k] = NoItem THEN {} ELSE {Shown(items[k])}),
           \A t \in Sessions : ToSet(session'[t].outputBuf) \subseteq ToSet(session[t].outputBuf)
    PROVE  CasInv'
<1>1. ASSUME NEW x \in KnownItems' PROVE x \in KnownItems \/ x = Shown(i)
  <2>1. ASSUME NEW j \in ItemKeys, items'[j] # NoItem, x = Shown(items'[j]) PROVE x \in KnownItems \/ x = Shown(i)
    <3>1. CASE j = k
      BY <2>1, <3>1 DEF MemTypeOK
    <3>2. CASE j # k
      BY <2>1, <3>2 DEF MemTypeOK, KnownItems
    <3> QED
      BY <3>1, <3>2
  <2>2. ASSUME NEW t \in Sessions, NEW y \in ToSet(session'[t].outputBuf), x = Shown(y) PROVE x \in KnownItems
    <3>1. y \in ToSet(session[t].outputBuf)
      BY <2>2
    <3>2. x \in {Shown(z) : z \in ToSet(session[t].outputBuf)}
      BY <2>2, <3>1
    <3> QED
      BY <3>2 DEF KnownItems
  <2>3. ASSUME x \in swaps' PROVE x \in KnownItems
    <3>1. x \in swaps \/ (items[k] # NoItem /\ x = Shown(items[k]))
      BY <2>3
    <3>2. swaps \subseteq KnownItems
      BY Zenon DEF KnownItems
    <3>3. items[k] # NoItem => Shown(items[k]) \in {Shown(items[j]) : j \in {j \in ItemKeys : items[j] # NoItem}}
      OBVIOUS
    <3>4. {Shown(items[j]) : j \in {j \in ItemKeys : items[j] # NoItem}} \subseteq KnownItems
      BY Zenon DEF KnownItems
    <3> QED
      BY <3>1, <3>2, <3>3, <3>4
  <2>4. ASSUME x \in seen' PROVE x \in KnownItems
    <3>1. seen \subseteq KnownItems
      BY Zenon DEF KnownItems
    <3> QED
      BY <2>4, <3>1
  <2>5. \/ \E j \in ItemKeys : items'[j] # NoItem /\ x = Shown(items'[j])
        \/ \E t \in Sessions : x \in {Shown(y) : y \in ToSet(session'[t].outputBuf)}
        \/ x \in seen' \/ x \in swaps'
    BY DEF KnownItems, Shown
  <2>6. ASSUME NEW t \in Sessions, x \in {Shown(y) : y \in ToSet(session'[t].outputBuf)} PROVE x \in KnownItems
    BY <2>2, <2>6
  <2> QED
    BY <2>1, <2>3, <2>4, <2>5, <2>6
<1>2. Shown(i).cas = nextCas /\ nextCas \in Nat
  BY DEF Shown, MemTypeOK
<1>3. \A x \in KnownItems : x.cas \in 0 .. nextCas - 1
  BY DEF CasInv
<1>4. \A x \in KnownItems' : x.cas \in 0 .. nextCas' - 1
  BY <1>1, <1>2, <1>3
<1>5. ASSUME NEW x \in KnownItems', NEW y \in KnownItems', x.cas = y.cas PROVE x = y
  <2>1. CASE x \in KnownItems /\ y \in KnownItems
    BY <1>5, <2>1 DEF CasInv
  <2>2. CASE x = Shown(i) /\ y = Shown(i)
    BY <2>2
  <2>3. CASE x = Shown(i) /\ y \in KnownItems
    BY <1>2, <1>3, <1>5, <2>3
  <2>4. CASE y = Shown(i) /\ x \in KnownItems
    BY <1>2, <1>3, <1>5, <2>4
  <2> QED
    BY <1>1, <2>1, <2>2, <2>3, <2>4
<1>6. ASSUME NEW j \in ItemKeys, items'[j] # NoItem PROVE items'[j].key = j
  BY <1>6 DEF CasInv, MemTypeOK
<1> QED
  BY <1>4, <1>5, <1>6 DEF CasInv

\* A step of one session that stores no item and shows none.
LEMMA QuietStep ==
    ASSUME MemTypeOK, CasInv, NEW s \in Sessions, NEW d \in SessionStates, ValueAwaited(d),
           session' = [session EXCEPT ![s] = d], ToSet(d.outputBuf) \subseteq ToSet(session[s].outputBuf),
           items' = items \/ (\E k \in ItemKeys : deleteItem(k)), UNCHANGED <<nextCas, seen, swaps>>,
           wire' \in [Sessions -> Seq(StreamUnits)], requests' \in [Sessions -> Nat]
    PROVE  MemTypeOK' /\ CasInv' /\ session'[s] = d
<1>1. /\ session' \in [Sessions -> SessionStates] /\ \A t \in Sessions : ValueAwaited(session'[t])
      /\ session'[s] = d /\ \A t \in Sessions \ {s} : session'[t] = session[t]
  BY SessionSet
<1>2. \A t \in Sessions : ToSet(session'[t].outputBuf) \subseteq ToSet(session[t].outputBuf)
  BY <1>1
<1>3. /\ items' \in [ItemKeys -> StoreItems \cup {NoItem}]
      /\ \A k \in ItemKeys : items'[k] \in {items[k], NoItem}
  BY DEF MemTypeOK, deleteItem
<1>4. CasInv'
  BY <1>2, <1>3, NothingNew
<1>5. MemTypeOK'
  BY <1>1, <1>3 DEF MemTypeOK
<1> QED
  BY <1>1, <1>4, <1>5

LEMMA NewLineFacts ==
    ASSUME MemTypeOK, NEW s \in Sessions, NewLine(s), NEW c, c = session[s]
    PROVE  /\ c \in SessionStates /\ c.busy /\ c.keys = <<>> /\ c.state = "kNewCommand" /\ Crlf(c) > 0
           /\ Parsed(c) \in SentCommands
  BY FieldsOf, LineParsed DEF MemTypeOK, NewLine, Reading

\* The session behind the line of an update.
LineTaken(c, r) == [AfterLine(c) EXCEPT !.command = r.op, !.noreply = @ \/ r.noreply, !.policy = r.op]

LEMMA LineTakenIs ==
    ASSUME NEW c \in SessionStates, Crlf(c) > 0, NEW r \in SentCommands, r.op \in Updates
    PROVE  /\ LineTaken(c, r) \in SessionStates
           /\ LineTaken(c, r).buf = Behind(c) /\ LineTaken(c, r).noreply = (c.noreply \/ r.noreply)
           /\ LineTaken(c, r).policy = r.op /\ LineTaken(c, r).state = c.state
           /\ LineTaken(c, r).connected = c.connected /\ LineTaken(c, r).busy = c.busy
           /\ LineTaken(c, r).keys = c.keys /\ LineTaken(c, r).outputBuf = c.outputBuf
<1>1. PICK e : e = AfterLine(c)
  OBVIOUS
<1>2. e \in SessionStates /\ e = [c EXCEPT !.buf = Behind(c)]
  BY <1>1, LineRead
<1>3. /\ e.buf = Behind(c) /\ e.noreply = c.noreply /\ e.state = c.state /\ e.connected = c.connected
      /\ e.busy = c.busy /\ e.keys = c.keys /\ e.outputBuf = c.outputBuf
  BY <1>2, FieldsOf DEF SessionFields
<1>4. r.op \in Keyed \cup {""} /\ r.op \in Updates \cup {"kInvalid"}
  BY DEF Keyed
<1>5. PICK b \in BOOLEAN : b = (e.noreply \/ r.noreply)
  OBVIOUS
<1>6. LineTaken(c, r) = [e EXCEPT !.command = r.op, !.noreply = b, !.policy = r.op]
  BY <1>1, <1>5 DEF LineTaken
<1>7. LineTaken(c, r) \in SessionStates
  BY <1>2, <1>4, <1>5, <1>6, Zenon DEF SessionStates
<1>8. DOMAIN e = SessionFields
  BY <1>2, FieldsOf
<1>9. /\ LineTaken(c, r).buf = e.buf /\ LineTaken(c, r).noreply = b
      /\ LineTaken(c, r).policy = r.op /\ LineTaken(c, r).state = e.state
      /\ LineTaken(c, r).connected = e.connected /\ LineTaken(c, r).busy = e.busy
      /\ LineTaken(c, r).keys = e.keys /\ LineTaken(c, r).outputBuf = e.outputBuf
  BY <1>6, <1>8 DEF SessionFields
<1> QED
  BY <1>3, <1>5, <1>7, <1>9

\* A value that is too long is to be discarded.
Discarding(c, r) ==
    [LineTaken(c, r) EXCEPT !.bytesToDiscard = r.bytes + 1, !.state = "kDiscardValue"]

LEMMA DiscardBegun ==
    ASSUME NEW c \in SessionStates, Crlf(c) > 0, NEW r \in SentCommands, r.op \in Updates, NEW d,
           d = Discarding(c, r)
    PROVE  /\ d \in SessionStates /\ d.state = "kDiscardValue" /\ d.bytesToDiscard = r.bytes + 1
           /\ d.buf = Behind(c) /\ d.noreply = (c.noreply \/ r.noreply) /\ d.keys = c.keys
           /\ d.connected = c.connected /\ d.busy = c.busy /\ d.outputBuf = c.outputBuf
<1> USE DEF Discarding
<1>1. PICK e : e = LineTaken(c, r)
  OBVIOUS
<1>2. r.bytes + 1 \in Nat
  BY DEF SentCommands, ClientCommands
<1>3. e \in SessionStates
  BY <1>1, LineTakenIs
<1>4. d = [e EXCEPT !.bytesToDiscard = r.bytes + 1, !.state = "kDiscardValue"]
  BY <1>1
<1>5. d \in SessionStates
  BY <1>2, <1>3, <1>4, Zenon DEF SessionStates
<1>6. DOMAIN e = SessionFields
  BY <1>3, FieldsOf
<1>7. /\ d.state = "kDiscardValue" /\ d.bytesToDiscard = r.bytes + 1 /\ d.buf = e.buf /\ d.noreply = e.noreply
      /\ d.keys = e.keys /\ d.connected = e.connected /\ d.busy = e.busy /\ d.outputBuf = e.outputBuf
  BY <1>4, <1>6 DEF SessionFields
<1> QED
  BY <1>1, <1>5, <1>7, LineTakenIs

\* A value is to be read into a new item.
Receiving(c, r, id) ==
    [LineTaken(c, r) EXCEPT !.currItem = [key |-> Head(r.keys), value |-> <<>>, cas |-> r.cas, id |-> id],
                                       !.needed = r.bytes + 1, !.state = "kReceiveValue"]

LEMMA ValueBegun ==
    ASSUME NEW c \in SessionStates, Crlf(c) > 0, NEW r \in SentCommands, r.op \in Updates, NEW d,
           NEW id \in Sessions \X Nat \X Nat,
           d = Receiving(c, r, id)
    PROVE  /\ d \in SessionStates /\ ValueAwaited(d) /\ d.state = "kReceiveValue" /\ d.needed = r.bytes + 1
           /\ d.currItem.value = <<>> /\ d.policy = r.op
           /\ d.buf = Behind(c) /\ d.noreply = (c.noreply \/ r.noreply) /\ d.keys = c.keys
           /\ d.connected = c.connected /\ d.busy = c.busy /\ d.outputBuf = c.outputBuf
<1> USE DEF Receiving
<1>1. PICK e : e = LineTaken(c, r)
  OBVIOUS
<1>2. r.bytes \in Nat /\ r.cas \in Int /\ r.keys \in Seq(ItemKeys) /\ r.keys # <<>>
  BY DEF SentCommands, ClientCommands, WellFormed, Keyed
<1>3. Head(r.keys) \in ItemKeys /\ <<>> \in Seq(StreamUnits)
  BY <1>2
<1>4. PICK i : i = [key |-> Head(r.keys), value |-> <<>>, cas |-> r.cas, id |-> id]
  OBVIOUS
<1>5. i \in StoreItems /\ i.value = <<>>
  BY <1>2, <1>3, <1>4, Zenon DEF StoreItems
<1>6. e \in SessionStates
  BY <1>1, LineTakenIs
<1>7. r.bytes + 1 \in Int /\ r.bytes + 1 >= 1
  BY <1>2
<1>8. d = [e EXCEPT !.currItem = i, !.needed = r.bytes + 1, !.state = "kReceiveValue"]
  BY <1>1, <1>4
<1>9. d \in SessionStates
  BY <1>5, <1>6, <1>7, <1>8, Zenon DEF SessionStates
<1>10. DOMAIN e = SessionFields
  BY <1>6, FieldsOf
<1>11. /\ d.state = "kReceiveValue" /\ d.needed = r.bytes + 1 /\ d.currItem = i /\ d.policy = e.policy /\ d.buf = e.buf
       /\ d.noreply = e.noreply /\ d.keys = e.keys /\ d.connected = e.connected /\ d.busy = e.busy /\ d.outputBuf = e.outputBuf
  BY <1>8, <1>10 DEF SessionFields
<1>12. e.policy = r.op
  BY <1>1, LineTakenIs
<1>13. ValueAwaited(d)
  BY <1>5, <1>7, <1>11, <1>12 DEF ValueAwaited
<1> QED
  BY <1>1, <1>5, <1>9, <1>11, <1>13, LineTakenIs

\* A line that is answered at once: the session after resetRequest.
Replied(c, b) ==
    resetRequest(AfterLine([c EXCEPT !.noreply = b]))

LEMMA LineAnswered ==
    ASSUME NEW c \in SessionStates, Crlf(c) > 0, NEW b \in BOOLEAN, NEW g,
           g = Replied(c, b)
    PROVE  /\ g \in SessionStates /\ g.state = c.state /\ g.buf = Behind(c) /\ g.noreply = FALSE /\ g.keys = c.keys
           /\ g.connected = c.connected /\ g.busy = c.busy /\ g.outputBuf = c.outputBuf
<1> USE DEF Replied
<1>1. PICK e : e = [c EXCEPT !.noreply = b]
  OBVIOUS
<1>2. e \in SessionStates
  BY <1>1, Zenon DEF SessionStates
<1>3. /\ e.buf = c.buf /\ e.state = c.state /\ e.keys = c.keys /\ e.busy = c.busy /\ e.outputBuf = c.outputBuf
      /\ e.connected = c.connected
  BY <1>1, FieldsOf DEF SessionFields
<1>4. Crlf(e) = Crlf(c) /\ Behind(e) = Behind(c)
  BY <1>3 DEF Crlf, Behind
<1>5. PICK f : f = AfterLine(e)
  OBVIOUS
<1>6. f \in SessionStates /\ f = [e EXCEPT !.buf = Behind(c)]
  BY <1>2, <1>4, <1>5, LineRead
<1>7. /\ f.buf = Behind(c) /\ f.state = e.state /\ f.keys = e.keys /\ f.busy = e.busy /\ f.outputBuf = e.outputBuf
      /\ f.connected = e.connected
  BY <1>2, <1>6, FieldsOf DEF SessionFields
<1>8. g = resetRequest(f)
  BY <1>1, <1>5
<1>9. g \in SessionStates
  BY <1>6, <1>8, RequestReset
<1>10. /\ g.buf = f.buf /\ g.noreply = FALSE /\ g.state = f.state /\ g.keys = f.keys /\ g.busy = f.busy
       /\ g.outputBuf = f.outputBuf /\ g.connected = f.connected
  <2>1. DOMAIN f = SessionFields
    BY <1>6, FieldsOf
  <2> QED
    BY <1>8, <2>1 DEF SessionFields, resetRequest
<1> QED
  BY <1>3, <1>7, <1>9, <1>10

\* The same, with the connection shut down by quit and shutdown.
Shut(c, b, up) == [Replied(c, b) EXCEPT !.connected = up]

LEMMA LineDone ==
    ASSUME NEW c \in SessionStates, Crlf(c) > 0, NEW b \in BOOLEAN, NEW up \in BOOLEAN, NEW d,
           d = Shut(c, b, up)
    PROVE  /\ d \in SessionStates /\ d.state = c.state /\ d.buf = Behind(c) /\ ~d.noreply /\ d.keys = c.keys
           /\ (d.connected <=> up) /\ d.busy = c.busy /\ d.outputBuf = c.outputBuf
<1>1. PICK g : g = Replied(c, b)
  OBVIOUS
<1>2. /\ g \in SessionStates /\ g.state = c.state /\ g.buf = Behind(c) /\ g.noreply = FALSE /\ g.keys = c.keys
      /\ g.busy = c.busy /\ g.outputBuf = c.outputBuf
  BY <1>1, LineAnswered
<1>3. d = [g EXCEPT !.connected = up]
  BY <1>1 DEF Shut
<1>4. d \in SessionStates
  BY <1>2, <1>3, Zenon DEF SessionStates
<1>5. /\ d.buf = g.buf /\ d.noreply = g.noreply /\ d.state = g.state /\ d.keys = g.keys /\ d.busy = g.busy
      /\ d.outputBuf = g.outputBuf /\ d.connected = up
  BY <1>2, <1>3, FieldsOf DEF SessionFields
<1> QED
  BY <1>2, <1>4, <1>5

\* The first units of the buffer are taken.
LEMMA UnitsTaken ==
    ASSUME NEW b \in Seq(StreamUnits), NEW n \in 0 .. Len(b)
    PROVE  /\ SubSeq(b, 1, n) \in Seq(StreamUnits) /\ Len(SubSeq(b, 1, n)) = n
           /\ \A i \in 1 .. n : SubSeq(b, 1, n)[i] = b[i]
           /\ SubSeq(b, n + 1, Len(b)) \in Seq(StreamUnits) /\ Len(SubSeq(b, n + 1, Len(b))) = Len(b) - n
           /\ \A i \in 1 .. Len(b) - n : SubSeq(b, n + 1, Len(b))[i] = b[n + i]
<1>1. PICK m \in Nat : m = Len(b)
  OBVIOUS
<1>2. \A i \in 1 .. m : b[i] \in StreamUnits
  BY <1>1
<1>3. PICK t : t = SubSeq(b, 1, n)
  OBVIOUS
<1>4. t \in Seq(StreamUnits) /\ Len(t) = n /\ \A i \in 1 .. n : t[i] = b[i]
  BY <1>1, <1>2, <1>3, SubSeqProperties
<1>5. PICK u : u = SubSeq(b, n + 1, m)
  OBVIOUS
<1>6. u \in Seq(StreamUnits) /\ Len(u) = m - n /\ \A i \in 1 .. m - n : u[i] = b[n + i]
  BY <1>1, <1>2, <1>5, SubSeqProperties
<1> QED
  BY <1>1, <1>3, <1>4, <1>5, <1>6

\* receiveValue takes n units.
ValuePart(c, n) ==
    [c EXCEPT !.currItem.value = @ \o SubSeq(c.buf, 1, n), !.needed = @ - n, !.buf = SubSeq(@, n + 1, Len(@))]

LEMMA ValueRead ==
    ASSUME NEW c \in SessionStates, ValueAwaited(c), c.state = "kReceiveValue", c.buf # <<>>,
           NEW n, n = Minimum(Len(c.buf), c.needed), NEW g,
           g = ValuePart(c, n)
    PROVE  /\ n \in 1 .. Len(c.buf) /\ n <= c.needed /\ c.needed \in Nat
           /\ g \in SessionStates /\ g.currItem \in StoreItems
           /\ g.currItem.value = c.currItem.value \o SubSeq(c.buf, 1, n)
           /\ g.buf = SubSeq(c.buf, n + 1, Len(c.buf)) /\ g.needed = c.needed - n
           /\ g.state = c.state /\ g.policy = c.policy /\ g.noreply = c.noreply /\ g.keys = c.keys
           /\ g.connected = c.connected /\ g.busy = c.busy /\ g.outputBuf = c.outputBuf
           /\ g.needed > 0 => ValueAwaited(g)
<1> USE DEF ValuePart
<1>1. /\ c.buf \in Seq(StreamUnits) /\ c.needed \in Int /\ c.needed >= 1 /\ c.currItem \in StoreItems
      /\ c.policy \in Updates
  BY FieldsOf DEF ValueAwaited
<1>2. Len(c.buf) \in Nat /\ Len(c.buf) >= 1
  BY <1>1
<1>3. n \in 1 .. Len(c.buf) /\ n <= c.needed /\ c.needed - n \in Int
  BY <1>1, <1>2 DEF Minimum
<1>4. PICK t : t = SubSeq(c.buf, 1, n)
  OBVIOUS
<1>5. PICK u : u = SubSeq(c.buf, n + 1, Len(c.buf))
  OBVIOUS
<1>6. t \in Seq(StreamUnits) /\ u \in Seq(StreamUnits)
  BY <1>1, <1>3, <1>4, <1>5, UnitsTaken
<1>7. PICK i : i = [c.currItem EXCEPT !.value = @ \o t]
  OBVIOUS
<1>8. PICK v : v = c.currItem.value \o t
  OBVIOUS
<1>9. c.currItem.value \in Seq(StreamUnits)
  BY <1>1, Zenon DEF StoreItems
<1>10. v \in Seq(StreamUnits)
  BY <1>6, <1>8, <1>9
<1>11. i \in StoreItems /\ i.value = v
  BY <1>1, <1>7, <1>8, <1>10, Zenon DEF StoreItems
<1>12. g = [c EXCEPT !.currItem = i, !.needed = c.needed - n, !.buf = u]
  BY <1>4, <1>5, <1>7
<1>13. g \in SessionStates
  BY <1>3, <1>6, <1>11, <1>12, Zenon DEF SessionStates
<1>14. DOMAIN c = SessionFields
  BY FieldsOf
<1>15. /\ g.currItem = i /\ g.buf = u /\ g.needed = c.needed - n
       /\ g.state = c.state /\ g.policy = c.policy /\ g.noreply = c.noreply /\ g.keys = c.keys
       /\ g.connected = c.connected /\ g.busy = c.busy /\ g.outputBuf = c.outputBuf
  BY <1>12, <1>14 DEF SessionFields
<1>16. g.needed > 0 => ValueAwaited(g)
  <2>1. SUFFICES ASSUME g.needed > 0 PROVE ValueAwaited(g)
    OBVIOUS
  <2>2. g.needed >= 1
    BY <1>3, <1>15, <2>1
  <2> QED
    BY <1>1, <1>11, <1>15, <2>2, Zenon DEF ValueAwaited
<1>17. c.needed \in Nat
  BY <1>1
<1> QED
  BY <1>3, <1>4, <1>5, <1>8, <1>11, <1>13, <1>15, <1>16, <1>17, Zenon

ValueOver(g) ==
    [resetRequest(g) EXCEPT !.state = "kNewCommand"]

LEMMA WholeIsSomething ==
    ASSUME NEW c \in SessionStates, ValueAwaited(c), c.state = "kReceiveValue", c.buf # <<>>,
           NEW n, n = Minimum(Len(c.buf), c.needed), NEW g, g = ValuePart(c, n)
    PROVE  /\ g.currItem.value \in Seq(StreamUnits) /\ g.currItem.value # <<>>
           /\ Len(g.currItem.value) = Len(c.currItem.value) + n /\ Len(c.currItem.value) \in Nat
           /\ Last(g.currItem.value) = c.buf[n]
<1>1. /\ n \in 1 .. Len(c.buf) /\ g.currItem.value = c.currItem.value \o SubSeq(c.buf, 1, n)
  BY ValueRead
<1>2. c.buf \in Seq(StreamUnits) /\ c.currItem \in StoreItems
  BY FieldsOf DEF ValueAwaited
<1>3. PICK v \in Seq(StreamUnits) : v = c.currItem.value
  BY <1>2, Zenon DEF StoreItems
<1>4. PICK t : t = SubSeq(c.buf, 1, n)
  OBVIOUS
<1>5. n \in 0 .. Len(c.buf) /\ n \in Nat /\ n >= 1
  BY <1>1, <1>2
<1>6. t \in Seq(StreamUnits) /\ Len(t) = n /\ \A i \in 1 .. n : t[i] = c.buf[i]
  BY <1>2, <1>4, <1>5, UnitsTaken
<1>7. PICK x : x = v \o t
  OBVIOUS
<1>8. x \in Seq(StreamUnits) /\ Len(x) = Len(v) + n /\ x[Len(v) + n] = t[n] /\ Len(v) \in Nat
  <2>1. v \in Seq(StreamUnits) /\ t \in Seq(StreamUnits)
    BY <1>3, <1>6
  <2>2. x \in Seq(StreamUnits) /\ Len(x) = Len(v) + Len(t) /\ Len(v) \in Nat
    BY <1>7, <2>1
  <2>3. \A i \in 1 .. Len(t) : x[Len(v) + i] = t[i]
    BY <1>7, <2>1, ConcatProperties
  <2>4. n \in 1 .. Len(t)
    BY <1>5, <1>6
  <2> QED
    BY <1>6, <2>2, <2>3, <2>4
<1>9. t[n] = c.buf[n]
  BY <1>5, <1>6
<1>10. x # <<>>
  BY <1>5, <1>8
<1>11. Last(x) = c.buf[n]
  BY <1>8, <1>9 DEF Last
<1> QED
  BY <1>1, <1>3, <1>4, <1>7, <1>8, <1>10, <1>11

LEMMA FrontIs ==
    ASSUME NEW v \in Seq(StreamUnits), v # <<>>
    PROVE  Front(v) \in Seq(StreamUnits)
<1>1. PICK m \in Nat : m = Len(v)
  OBVIOUS
<1>2. m - 1 \in 0 .. Len(v)
  BY <1>1
<1> QED
  BY <1>1, <1>2, UnitsTaken DEF Front

LEMMA ValueDone ==
    ASSUME NEW g \in SessionStates, NEW d, d = ValueOver(g)
    PROVE  /\ d \in SessionStates /\ d.state = "kNewCommand" /\ ValueAwaited(d) /\ d.noreply = FALSE
           /\ d.buf = g.buf /\ d.keys = g.keys /\ d.connected = g.connected /\ d.busy = g.busy /\ d.outputBuf = g.outputBuf
<1> USE DEF ValueOver
<1>1. PICK h : h = resetRequest(g)
  OBVIOUS
<1>2. h \in SessionStates
  BY <1>1, RequestReset
<1>3. /\ h.buf = g.buf /\ h.noreply = FALSE /\ h.keys = g.keys /\ h.connected = g.connected /\ h.busy = g.busy
      /\ h.outputBuf = g.outputBuf
  BY <1>1, FieldsOf DEF SessionFields, resetRequest
<1>4. d = [h EXCEPT !.state = "kNewCommand"]
  BY <1>1
<1>5. d \in SessionStates
  BY <1>2, <1>4, Zenon DEF SessionStates
<1>6. /\ d.buf = h.buf /\ d.noreply = h.noreply /\ d.keys = h.keys /\ d.connected = h.connected /\ d.busy = h.busy
      /\ d.outputBuf = h.outputBuf /\ d.state = "kNewCommand"
  BY <1>2, <1>4, FieldsOf DEF SessionFields
<1>7. ValueAwaited(d)
  BY <1>6 DEF ValueAwaited
<1> QED
  BY <1>3, <1>5, <1>6, <1>7

Dropped(c, n) ==
    [c EXCEPT !.bytesToDiscard = c.bytesToDiscard - n, !.buf = SubSeq(c.buf, n + 1, Len(c.buf))]

LEMMA ValueDiscarded ==
    ASSUME NEW c \in SessionStates, c.state = "kDiscardValue",
           NEW n, n = Minimum(Len(c.buf), c.bytesToDiscard), NEW g,
           g = Dropped(c, n)
    PROVE  /\ n \in 0 .. Len(c.buf) /\ n <= c.bytesToDiscard
           /\ g \in SessionStates /\ ValueAwaited(g)
           /\ g.buf = SubSeq(c.buf, n + 1, Len(c.buf)) /\ g.bytesToDiscard = c.bytesToDiscard - n
           /\ g.state = c.state /\ g.noreply = c.noreply /\ g.keys = c.keys
           /\ g.connected = c.connected /\ g.busy = c.busy /\ g.outputBuf = c.outputBuf
<1> USE DEF Dropped
<1>1. c.buf \in Seq(StreamUnits) /\ c.bytesToDiscard \in Nat /\ Len(c.buf) \in Nat
  <2>1. c.buf \in Seq(StreamUnits) /\ c.bytesToDiscard \in Nat
    BY FieldsOf
  <2> QED
    BY <2>1
<1>2. n \in 0 .. Len(c.buf) /\ n <= c.bytesToDiscard /\ c.bytesToDiscard - n \in Nat
  BY <1>1 DEF Minimum
<1>3. PICK u : u = SubSeq(c.buf, n + 1, Len(c.buf))
  OBVIOUS
<1>4. u \in Seq(StreamUnits)
  BY <1>1, <1>2, <1>3, UnitsTaken
<1>5. g = [c EXCEPT !.bytesToDiscard = c.bytesToDiscard - n, !.buf = u]
  BY <1>3
<1>6. g \in SessionStates
  BY <1>2, <1>4, <1>5, Zenon DEF SessionStates
<1>7. DOMAIN c = SessionFields
  BY FieldsOf
<1>8. /\ g.buf = u /\ g.bytesToDiscard = c.bytesToDiscard - n
      /\ g.state = c.state /\ g.noreply = c.noreply /\ g.keys = c.keys
      /\ g.connected = c.connected /\ g.busy = c.busy /\ g.outputBuf = c.outputBuf
  BY <1>5, <1>7 DEF SessionFields
<1>9. ValueAwaited(g)
  BY <1>8 DEF ValueAwaited
<1> QED
  BY <1>2, <1>3, <1>6, <1>8, <1>9

\* The keys of a get are to be looked up.
Getting(c, r) ==
    [c EXCEPT !.command = r.op, !.noreply = (c.noreply \/ r.noreply), !.keys = r.keys]

LEMMA GetBegun ==
    ASSUME NEW c \in SessionStates, NEW r \in SentCommands, r.op \in {"get", "gets"}, NEW d,
           d = Getting(c, r)
    PROVE  /\ d \in SessionStates /\ d.state = c.state /\ d.buf = c.buf /\ d.keys = r.keys /\ d.keys # <<>>
           /\ d.connected = c.connected /\ d.busy = c.busy /\ d.outputBuf = c.outputBuf
<1> USE DEF Getting
<1>1. r.op \in Keyed \cup {""} /\ r.keys \in Seq(ItemKeys) /\ r.keys # <<>>
  BY DEF SentCommands, ClientCommands, WellFormed, Keyed
<1>2. PICK b \in BOOLEAN : b = (c.noreply \/ r.noreply)
  OBVIOUS
<1>3. d = [c EXCEPT !.command = r.op, !.noreply = b, !.keys = r.keys]
  BY <1>2
<1>4. d \in SessionStates
  BY <1>1, <1>2, <1>3, Zenon DEF SessionStates
<1>5. DOMAIN c = SessionFields
  BY FieldsOf
<1>6. /\ d.state = c.state /\ d.buf = c.buf /\ d.keys = r.keys /\ d.connected = c.connected /\ d.busy = c.busy
      /\ d.outputBuf = c.outputBuf
  BY <1>3, <1>5 DEF SessionFields
<1> QED
  BY <1>1, <1>4, <1>6

\* One key has been looked up, and i found.
KeyTaken(c, i) ==
    [c EXCEPT !.keys = Tail(c.keys), !.outputBuf = IF i = NoItem THEN c.outputBuf ELSE Append(c.outputBuf, i)]

LEMMA KeyGot ==
    ASSUME NEW c \in SessionStates, c.keys # <<>>, NEW i \in StoreItems \cup {NoItem}, NEW d,
           d = KeyTaken(c, i)
    PROVE  /\ d \in SessionStates /\ d.state = c.state /\ d.buf = c.buf /\ d.keys = Tail(c.keys)
           /\ d.connected = c.connected /\ d.busy = c.busy /\ d.noreply = c.noreply
           /\ ToSet(d.outputBuf) \subseteq ToSet(c.outputBuf) \cup (IF i = NoItem THEN {} ELSE {i})
<1> USE DEF KeyTaken
<1>1. c.keys \in Seq(ItemKeys) /\ c.outputBuf \in Seq(StoreItems)
  BY FieldsOf
<1>2. PICK o : o = IF i = NoItem THEN c.outputBuf ELSE Append(c.outputBuf, i)
  OBVIOUS
<1>3. o \in Seq(StoreItems)
  BY <1>1, <1>2
<1>4. ToSet(o) \subseteq ToSet(c.outputBuf) \cup (IF i = NoItem THEN {} ELSE {i})
  <2>1. CASE i = NoItem
    BY <1>2, <2>1
  <2>2. CASE i # NoItem
    BY <1>1, <1>2, <2>2, AppendProperties DEF ToSet
  <2> QED
    BY <2>1, <2>2
<1>5. PICK t : t = Tail(c.keys)
  OBVIOUS
<1>6. t \in Seq(ItemKeys)
  BY <1>1, <1>5
<1>7. d = [c EXCEPT !.keys = t, !.outputBuf = o]
  BY <1>2, <1>5
<1>8. d \in SessionStates
  BY <1>3, <1>6, <1>7, Zenon DEF SessionStates
<1>9. DOMAIN c = SessionFields
  BY FieldsOf
<1>10. /\ d.state = c.state /\ d.buf = c.buf /\ d.keys = t /\ d.connected = c.connected /\ d.busy = c.busy
       /\ d.noreply = c.noreply /\ d.outputBuf = o
  BY <1>7, <1>9 DEF SessionFields
<1> QED
  BY <1>4, <1>5, <1>8, <1>10

\* The get is answered.
GetOver(e) ==
    resetRequest([AfterLine(e) EXCEPT !.outputBuf = <<>>])

LEMMA GetDone ==
    ASSUME NEW e \in SessionStates, NEW d, d = GetOver(e)
    PROVE  /\ d \in SessionStates /\ d.state = e.state /\ d.buf = Behind(e) /\ d.keys = e.keys
           /\ d.connected = e.connected /\ d.busy = e.busy /\ d.noreply = FALSE /\ d.outputBuf = <<>>
<1> USE DEF GetOver
<1>1. PICK f : f = AfterLine(e)
  OBVIOUS
<1>2. f \in SessionStates /\ f = [e EXCEPT !.buf = Behind(e)]
  BY <1>1, LineRead
<1>3. f.buf = Behind(e) /\ f.state = e.state /\ f.keys = e.keys /\ f.busy = e.busy /\ f.connected = e.connected
  BY <1>2, FieldsOf DEF SessionFields
<1>4. PICK g : g = [f EXCEPT !.outputBuf = <<>>]
  OBVIOUS
<1>5. <<>> \in Seq(StoreItems)
  OBVIOUS
<1>6. g \in SessionStates
  BY <1>2, <1>4, <1>5, Zenon DEF SessionStates
<1>7. g.buf = f.buf /\ g.state = f.state /\ g.keys = f.keys /\ g.busy = f.busy /\ g.connected = f.connected /\ g.outputBuf = <<>>
  BY <1>2, <1>4, FieldsOf DEF SessionFields
<1>8. d = resetRequest(g)
  BY <1>1, <1>4
<1>9. d \in SessionStates
  BY <1>6, <1>8, RequestReset
<1>10. /\ d.buf = g.buf /\ d.state = g.state /\ d.keys = g.keys /\ d.busy = g.busy /\ d.connected = g.connected
       /\ d.outputBuf = g.outputBuf /\ d.noreply = FALSE
  <2>1. DOMAIN g = SessionFields
    BY <1>6, FieldsOf
  <2> QED
    BY <1>8, <2>1 DEF SessionFields, resetRequest
<1> QED
  BY <1>3, <1>7, <1>9, <1>10

\* One read has brought t.
Received(c, t) ==
    [c EXCEPT !.buf = c.buf \o t, !.busy = TRUE]

LEMMA UnitsReceived ==
    ASSUME NEW c \in SessionStates, NEW t \in Seq(StreamUnits), NEW d, d = Received(c, t)
    PROVE  /\ d \in SessionStates /\ d.state = c.state /\ d.buf = c.buf \o t /\ d.keys = c.keys
           /\ d.connected = c.connected /\ d.busy /\ d.noreply = c.noreply /\ d.outputBuf = c.outputBuf
           /\ d.policy = c.policy /\ d.currItem = c.currItem /\ d.needed = c.needed /\ d.bytesToDiscard = c.bytesToDiscard
<1> USE DEF Received
<1>1. PICK b : b = c.buf \o t
  OBVIOUS
<1>2. b \in Seq(StreamUnits)
  <2>1. c.buf \in Seq(StreamUnits)
    BY FieldsOf
  <2> QED
    BY <1>1, <2>1
<1>3. d = [c EXCEPT !.buf = b, !.busy = TRUE]
  BY <1>1
<1>4. d \in SessionStates
  BY <1>2, <1>3, Zenon DEF SessionStates
<1>5. DOMAIN c = SessionFields
  BY FieldsOf
<1>6. /\ d.state = c.state /\ d.buf = b /\ d.keys = c.keys
      /\ d.connected = c.connected /\ d.busy = TRUE /\ d.noreply = c.noreply /\ d.outputBuf = c.outputBuf
      /\ d.policy = c.policy /\ d.currItem = c.currItem /\ d.needed = c.needed /\ d.bytesToDiscard = c.bytesToDiscard
  BY <1>3, <1>5 DEF SessionFields
<1> QED
  BY <1>1, <1>4, <1>6

\* The loop of onMessage is left.
Waiting(c, up) ==
    [c EXCEPT !.busy = FALSE, !.connected = up]

LEMMA LineAwaited ==
    ASSUME NEW c \in SessionStates, NEW up \in BOOLEAN, NEW d, d = Waiting(c, up)
    PROVE  /\ d \in SessionStates /\ d.state = c.state /\ d.buf = c.buf /\ d.keys = c.keys
           /\ (d.connected <=> up) /\ ~d.busy /\ d.noreply = c.noreply /\ d.outputBuf = c.outputBuf
           /\ d.policy = c.policy /\ d.currItem = c.currItem /\ d.needed = c.needed /\ d.bytesToDiscard = c.bytesToDiscard
<1> USE DEF Waiting
<1>1. d \in SessionStates
  BY Zenon DEF SessionStates
<1>2. DOMAIN c = SessionFields
  BY FieldsOf
<1> QED
  BY <1>1, <1>2 DEF SessionFields

-----------------------------------------------------------------------------
(* Types and identifiers, step by step                                     *)

LEMMA NewSessionOK == NewSession \in SessionStates /\ ValueAwaited(NewSession)
<1>1. /\ <<>> \in Seq(StreamUnits) /\ <<>> \in Seq(ItemKeys) /\ <<>> \in Seq(StoreItems) /\ 0 \in Nat /\ 0 \in Int
      /\ "" \in Keyed \cup {""} /\ "kInvalid" \in Updates \cup {"kInvalid"}
  OBVIOUS
<1>2. NewSession \in SessionStates
  BY <1>1, Zenon DEF NewSession, SessionStates
<1> QED
  BY <1>2 DEF NewSession, ValueAwaited

LEMMA MemStarts == MemInit => MemTypeOK /\ CasInv
<1> SUFFICES ASSUME MemInit PROVE MemTypeOK /\ CasInv
  OBVIOUS
<1>1. MemTypeOK
  BY NewSessionOK DEF MemInit, MemTypeOK
<1>2. \A s \in Sessions : session[s].outputBuf = <<>>
  BY DEF MemInit, NewSession
<1>3. ToSet(<<>>) = {}
  BY DEF ToSet
<1>4. \A s \in Sessions : {Shown(i) : i \in ToSet(session[s].outputBuf)} = {}
  BY <1>2, <1>3
<1>5. KnownItems = {}
  BY <1>4 DEF KnownItems, MemInit
<1> QED
  BY <1>1, <1>5 DEF CasInv, MemInit

LEMMA UnitsSent ==
    ASSUME NEW r \in SentCommands
    PROVE  Units(r) \in Seq(StreamUnits)
<1>1. r.data \in Seq({Byte}) /\ {Byte} \subseteq StreamUnits /\ EOL \in StreamUnits /\ r \in StreamUnits
  BY DEF SentCommands, ClientCommands, StreamUnits
<1>2. r.data \in Seq(StreamUnits) /\ <<EOL>> \in Seq(StreamUnits) /\ <<r>> \in Seq(StreamUnits)
  BY <1>1
<1>3. r.data \o <<EOL>> \in Seq(StreamUnits)
  BY <1>2
<1> QED
  BY <1>2, <1>3 DEF Units

LEMMA RequestType ==
    ASSUME MemTypeOK, CasInv, NEW s \in Sessions, NEW r \in Commands[s], Request(s, r)
    PROVE  MemTypeOK' /\ CasInv'
<1>1. Units(r) \in Seq(StreamUnits)
  BY CommandsSent, UnitsSent
<1>2. wire[s] \in Seq(StreamUnits)
  BY DEF MemTypeOK
<1>3. wire[s] \o Units(r) \in Seq(StreamUnits)
  BY <1>1, <1>2
<1>4. wire' \in [Sessions -> Seq(StreamUnits)]
  BY <1>3 DEF Request, MemTypeOK
<1>5. requests' \in [Sessions -> Nat]
  BY DEF Request, MemTypeOK
<1>6. MemTypeOK'
  BY <1>4, <1>5 DEF Request, MemTypeOK
<1>7. KnownItems' = KnownItems
  BY DEF Request, KnownItems
<1> QED
  BY <1>6, <1>7 DEF Request, CasInv

LEMMA quitType ==
    ASSUME MemTypeOK, CasInv, quit
    PROVE  MemTypeOK' /\ CasInv'
<1>1. KnownItems' = KnownItems
  BY DEF quit, KnownItems
<1>2. CasInv'
  BY <1>1 DEF quit, CasInv
<1> QED
  BY <1>2 DEF quit, MemTypeOK

LEMMA onMessageType ==
    ASSUME MemTypeOK, CasInv, NEW s \in Sessions, NEW n, onMessage(s, n)
    PROVE  MemTypeOK' /\ CasInv'
<1>1. PICK c : c = session[s]
  OBVIOUS
<1>2. PICK t : t = SubSeq(wire[s], 1, n)
  OBVIOUS
<1>3. wire[s] \in Seq(StreamUnits) /\ n \in 0 .. Len(wire[s])
  BY DEF onMessage, MemTypeOK
<1>4. t \in Seq(StreamUnits) /\ SubSeq(wire[s], n + 1, Len(wire[s])) \in Seq(StreamUnits)
  BY <1>2, <1>3, UnitsTaken
<1>5. PICK d : d = Received(c, t)
  OBVIOUS
<1>6. session' = [session EXCEPT ![s] = d]
  BY <1>1, <1>2, <1>5 DEF onMessage, Received
<1>7. c \in SessionStates /\ ValueAwaited(c)
  BY <1>1 DEF MemTypeOK
<1>8. d \in SessionStates /\ ValueAwaited(d) /\ d.outputBuf = c.outputBuf
  <2>1. /\ d \in SessionStates /\ d.outputBuf = c.outputBuf /\ d.state = c.state
        /\ d.policy = c.policy /\ d.currItem = c.currItem /\ d.needed = c.needed
    BY <1>4, <1>5, <1>7, UnitsReceived
  <2> QED
    BY <1>7, <2>1, Zenon DEF ValueAwaited
<1>9. wire' \in [Sessions -> Seq(StreamUnits)]
  BY <1>4 DEF onMessage, MemTypeOK
<1> QED
  BY <1>1, <1>6, <1>8, <1>9, QuietStep DEF onMessage, MemTypeOK

LEMMA onConnectionType ==
    ASSUME MemTypeOK, CasInv, NEW s \in Sessions, onConnection(s)
    PROVE  MemTypeOK' /\ CasInv'
<1>1. wire' \in [Sessions -> Seq(StreamUnits)]
  BY DEF onConnection, MemTypeOK
<1>2. ToSet(NewSession.outputBuf) \subseteq ToSet(session[s].outputBuf)
  BY DEF NewSession, ToSet
<1> QED
  BY <1>1, <1>2, NewSessionOK, QuietStep DEF onConnection, MemTypeOK

LEMMA AwaitLineType ==
    ASSUME MemTypeOK, CasInv, NEW s \in Sessions, AwaitLine(s)
    PROVE  MemTypeOK' /\ CasInv'
<1>1. PICK c : c = session[s]
  OBVIOUS
<1>2. PICK up \in BOOLEAN : up = (c.connected /\ ~Endless(c.buf))
  OBVIOUS
<1>3. PICK d : d = Waiting(c, up)
  OBVIOUS
<1>4. session' = [session EXCEPT ![s] = d]
  BY <1>1, <1>2, <1>3 DEF AwaitLine, Waiting
<1>5. c \in SessionStates /\ ValueAwaited(c)
  BY <1>1 DEF MemTypeOK
<1>6. d \in SessionStates /\ ValueAwaited(d) /\ d.outputBuf = c.outputBuf
  <2>1. /\ d \in SessionStates /\ d.outputBuf = c.outputBuf /\ d.state = c.state
        /\ d.policy = c.policy /\ d.currItem = c.currItem /\ d.needed = c.needed
    <3>1. up \in BOOLEAN
      BY <1>2
    <3> QED
      BY <1>3, <1>5, <3>1, LineAwaited
  <2> QED
    BY <1>5, <2>1, Zenon DEF ValueAwaited
<1> QED
  BY <1>1, <1>4, <1>6, QuietStep DEF AwaitLine, MemTypeOK

LEMMA doUpdateType ==
    ASSUME MemTypeOK, CasInv, NEW s \in Sessions, doUpdate(s)
    PROVE  MemTypeOK' /\ CasInv'
<1>1. PICK c : c = session[s]
  OBVIOUS
<1>2. PICK r : r = Parsed(c)
  OBVIOUS
<1>3. NewLine(s) /\ r.op \in Updates
  BY <1>1, <1>2 DEF doUpdate
<1>4. c \in SessionStates /\ c.state = "kNewCommand" /\ Crlf(c) > 0 /\ r \in SentCommands
  BY <1>1, <1>2, <1>3, NewLineFacts
<1>5. /\ wire' \in [Sessions -> Seq(StreamUnits)] /\ requests' \in [Sessions -> Nat]
      /\ UNCHANGED <<nextCas, seen, swaps>>
  BY DEF doUpdate, MemTypeOK
<1>6. CASE r.bytes > MaxValue
  <2>1. PICK d : d = Discarding(c, r)
    OBVIOUS
  <2>2. session' = [session EXCEPT ![s] = d] /\ deleteItem(Head(r.keys))
    BY <1>1, <1>2, <1>6, <2>1 DEF doUpdate, LineTaken, Discarding, Receiving
  <2>3. d \in SessionStates /\ d.outputBuf = c.outputBuf /\ d.state = "kDiscardValue"
    BY <1>3, <1>4, <2>1, DiscardBegun
  <2>4. ValueAwaited(d)
    BY <2>3 DEF ValueAwaited
  <2>5. Head(r.keys) \in ItemKeys
    BY <1>3, <1>4 DEF SentCommands, ClientCommands, WellFormed, Keyed
  <2> QED
    BY <1>1, <1>5, <2>2, <2>3, <2>4, <2>5, QuietStep
<1>7. CASE ~(r.bytes > MaxValue)
  <2>1. PICK id : id = WriteId(s)
    OBVIOUS
  <2>2. PICK d : d = Receiving(c, r, id)
    OBVIOUS
  <2>3. session' = [session EXCEPT ![s] = d] /\ items' = items
    BY <1>1, <1>2, <1>7, <2>1, <2>2 DEF doUpdate, LineTaken, Discarding, Receiving
  <2>4. id \in Sessions \X Nat \X Nat
    <3>1. c.buf \in Seq(StreamUnits)
      BY <1>4, FieldsOf
    <3>2. wire[s] \in Seq(StreamUnits) /\ requests[s] \in Nat
      BY DEF MemTypeOK
    <3>3. Len(c.buf) + Len(wire[s]) \in Nat
      <4>1. Len(c.buf) \in Nat
        BY <3>1
      <4>2. PICK w \in Seq(StreamUnits) : w = wire[s]
        BY <3>2
      <4>3. Len(w) \in Nat
        BY <4>2
      <4>4. Len(c.buf) + Len(w) \in Nat
        BY <4>1, <4>3
      <4> QED
        BY <4>2, <4>4, Zenon
    <3> QED
      BY <1>1, <2>1, <3>2, <3>3, Zenon DEF WriteId
  <2>5. d \in SessionStates /\ d.outputBuf = c.outputBuf /\ ValueAwaited(d)
    BY <1>3, <1>4, <2>2, <2>4, ValueBegun
  <2> QED
    BY <1>1, <1>5, <2>3, <2>5, QuietStep
<1> QED
  BY <1>6, <1>7

LEMMA StartGetType ==
    ASSUME MemTypeOK, CasInv, NEW s \in Sessions, StartGet(s)
    PROVE  MemTypeOK' /\ CasInv'
<1>1. PICK c : c = session[s]
  OBVIOUS
<1>2. PICK r : r = Parsed(c)
  OBVIOUS
<1>3. NewLine(s) /\ r.op \in {"get", "gets"}
  BY <1>1, <1>2 DEF StartGet
<1>4. c \in SessionStates /\ c.state = "kNewCommand" /\ r \in SentCommands
  BY <1>1, <1>2, <1>3, NewLineFacts
<1>5. PICK d : d = Getting(c, r)
  OBVIOUS
<1>6. session' = [session EXCEPT ![s] = d]
  BY <1>1, <1>2, <1>5 DEF StartGet, Getting
<1>7. d \in SessionStates /\ d.outputBuf = c.outputBuf /\ d.state = c.state
  BY <1>3, <1>4, <1>5, GetBegun
<1>8. ValueAwaited(d)
  BY <1>4, <1>7 DEF ValueAwaited
<1> QED
  BY <1>1, <1>6, <1>7, <1>8, QuietStep DEF StartGet, MemTypeOK

LEMMA doDeleteType ==
    ASSUME MemTypeOK, CasInv, NEW s \in Sessions, doDelete(s)
    PROVE  MemTypeOK' /\ CasInv'
<1>1. PICK c : c = session[s]
  OBVIOUS
<1>2. PICK r : r = Parsed(c)
  OBVIOUS
<1>3. NewLine(s) /\ r.op = "delete"
  BY <1>1, <1>2 DEF doDelete
<1>4. c \in SessionStates /\ c.state = "kNewCommand" /\ Crlf(c) > 0 /\ r \in SentCommands
  BY <1>1, <1>2, <1>3, NewLineFacts
<1>5. PICK b \in BOOLEAN : b = (c.noreply \/ r.noreply)
  OBVIOUS
<1>6. PICK e : e = Replied(c, b)
  OBVIOUS
<1>7. session' = [session EXCEPT ![s] = e] /\ deleteItem(Head(r.keys))
  BY <1>1, <1>2, <1>5, <1>6 DEF doDelete, Replied
<1>8. e \in SessionStates /\ e.state = c.state /\ e.outputBuf = c.outputBuf
  BY <1>4, <1>6, LineAnswered
<1>9. ValueAwaited(e)
  BY <1>4, <1>8 DEF ValueAwaited
<1>10. Head(r.keys) \in ItemKeys
  BY <1>3, <1>4 DEF SentCommands, ClientCommands, WellFormed, Keyed
<1> QED
  BY <1>1, <1>7, <1>8, <1>9, <1>10, QuietStep DEF doDelete, MemTypeOK

LEMMA processRequestType ==
    ASSUME MemTypeOK, CasInv, NEW s \in Sessions, processRequest(s)
    PROVE  MemTypeOK' /\ CasInv'
<1>1. PICK c : c = session[s]
  OBVIOUS
<1>2. PICK r : r = Parsed(c)
  OBVIOUS
<1>3. NewLine(s)
  BY DEF processRequest
<1>4. c \in SessionStates /\ c.state = "kNewCommand" /\ Crlf(c) > 0
  BY <1>1, <1>3, NewLineFacts
<1>5. PICK b \in BOOLEAN : b = (c.noreply \/ r.noreply)
  OBVIOUS
<1>6. PICK e : e = Replied(c, b)
  OBVIOUS
<1>7. PICK up \in BOOLEAN : up = (e.connected /\ r.op \notin {"quit", "shutdown"})
  OBVIOUS
<1>8. PICK d : d = Shut(c, b, up)
  OBVIOUS
<1>9. session' = [session EXCEPT ![s] = d]
  BY <1>1, <1>2, <1>5, <1>6, <1>7, <1>8 DEF processRequest, Shut, Replied
<1>10. d \in SessionStates /\ d.state = c.state /\ d.outputBuf = c.outputBuf
  <2>1. b \in BOOLEAN /\ up \in BOOLEAN
    BY <1>5, <1>7
  <2> QED
    BY <1>4, <1>8, <2>1, LineDone
<1>11. ValueAwaited(d)
  BY <1>4, <1>10 DEF ValueAwaited
<1> QED
  BY <1>1, <1>9, <1>10, <1>11, QuietStep DEF processRequest, MemTypeOK

LEMMA discardValueType ==
    ASSUME MemTypeOK, CasInv, NEW s \in Sessions, discardValue(s)
    PROVE  MemTypeOK' /\ CasInv'
<1>1. PICK c : c = session[s]
  OBVIOUS
<1>2. PICK n : n = Minimum(Len(c.buf), c.bytesToDiscard)
  OBVIOUS
<1>3. PICK g : g = Dropped(c, n)
  OBVIOUS
<1>4. c \in SessionStates /\ c.state = "kDiscardValue"
  BY <1>1 DEF discardValue, MemTypeOK
<1>5. g \in SessionStates /\ ValueAwaited(g) /\ g.outputBuf = c.outputBuf
  BY <1>2, <1>3, <1>4, ValueDiscarded
<1>6. PICK d : d = IF g.bytesToDiscard > 0 THEN g ELSE ValueOver(g)
  OBVIOUS
<1>7. session' = [session EXCEPT ![s] = d]
  BY <1>1, <1>2, <1>3, <1>6 DEF discardValue, Dropped, ValueOver
<1>8. d \in SessionStates /\ ValueAwaited(d) /\ d.outputBuf = c.outputBuf
  <2>1. CASE g.bytesToDiscard > 0
    BY <1>5, <1>6, <2>1
  <2>2. CASE ~(g.bytesToDiscard > 0)
    BY <1>5, <1>6, <2>2, ValueDone
  <2> QED
    BY <2>1, <2>2
<1> QED
  BY <1>1, <1>7, <1>8, QuietStep DEF discardValue, MemTypeOK

\* What storeItem puts in place: a new identifier, the rest as it was sent.
LEMMA UpdatedIs ==
    ASSUME nextCas \in Nat, NEW old, NEW item \in StoreItems, NEW policy,
           policy \in {"append", "prepend"} => old \in StoreItems
    PROVE  /\ Updated(old, item, policy) \in StoreItems /\ Updated(old, item, policy).key = item.key
           /\ Updated(old, item, policy).cas = nextCas
<1>1. item.value \in Seq(StreamUnits)
  BY Zenon DEF StoreItems
<1>2. PICK v : v = CASE policy = "append"  -> old.value \o item.value
                     [] policy = "prepend" -> item.value \o old.value
                     [] OTHER -> item.value
  OBVIOUS
<1>3. v \in Seq(StreamUnits)
  <2>1. CASE policy \in {"append", "prepend"}
    <3>1. old.value \in Seq(StreamUnits)
      BY <2>1, Zenon DEF StoreItems
    <3> QED
      BY <1>1, <1>2, <2>1, <3>1
  <2>2. CASE policy \notin {"append", "prepend"}
    BY <1>1, <1>2, <2>2
  <2> QED
    BY <2>1, <2>2
<1>4. nextCas \in Int
  OBVIOUS
<1>5. Updated(old, item, policy) = [item EXCEPT !.cas = nextCas, !.value = v]
  BY <1>2 DEF Updated
<1>6. [item EXCEPT !.cas = nextCas, !.value = v] \in StoreItems
  BY <1>3, <1>4, Zenon DEF StoreItems
<1>7. DOMAIN item = {"key", "value", "cas", "id"}
  BY Zenon DEF StoreItems
<1>8. /\ [item EXCEPT !.cas = nextCas, !.value = v].key = item.key
      /\ [item EXCEPT !.cas = nextCas, !.value = v].cas = nextCas
  BY <1>7
<1> QED
  BY <1>5, <1>6, <1>8

LEMMA receiveValueType ==
    ASSUME MemTypeOK, CasInv, NEW s \in Sessions, receiveValue(s)
    PROVE  MemTypeOK' /\ CasInv'
<1>1. PICK c : c = session[s]
  OBVIOUS
<1>2. PICK n : n = Minimum(Len(c.buf), c.needed)
  OBVIOUS
<1>3. PICK g : g = ValuePart(c, n)
  OBVIOUS
<1>4. c \in SessionStates /\ ValueAwaited(c) /\ c.state = "kReceiveValue" /\ c.buf # <<>>
  BY <1>1 DEF receiveValue, MemTypeOK
<1>5. g \in SessionStates /\ g.currItem \in StoreItems /\ g.outputBuf = c.outputBuf /\ (g.needed > 0 => ValueAwaited(g))
  BY <1>2, <1>3, <1>4, ValueRead
<1>6. PICK whole : whole = g.currItem.value
  OBVIOUS
<1>7. PICK item : item = [g.currItem EXCEPT !.value = Front(whole)]
  OBVIOUS
<1>8. CASE g.needed > 0
  <2>1. session' = [session EXCEPT ![s] = g] /\ UNCHANGED <<items, nextCas, swaps, seen>>
    BY <1>1, <1>2, <1>3, <1>8 DEF receiveValue, ValuePart
  <2> QED
    BY <1>1, <1>5, <1>8, <2>1, QuietStep DEF receiveValue, MemTypeOK
<1>9. CASE ~(g.needed > 0)
  <2>1. PICK d : d = ValueOver(g)
    OBVIOUS
  <2>2. session' = [session EXCEPT ![s] = d]
    BY <1>1, <1>2, <1>3, <1>9, <2>1 DEF receiveValue, ValuePart, ValueOver
  <2>3. d \in SessionStates /\ ValueAwaited(d) /\ d.outputBuf = c.outputBuf
    BY <1>5, <2>1, ValueDone
  <2>4. CASE UNCHANGED <<items, nextCas, swaps>>
    BY <1>1, <2>2, <2>3, <2>4, QuietStep DEF receiveValue, MemTypeOK
  <2>5. CASE ~UNCHANGED <<items, nextCas, swaps>>
    <3>1. storeItem(item, c.policy) /\ Last(whole) = EOL
      BY <1>1, <1>2, <1>3, <1>6, <1>7, <1>9, <2>5 DEF receiveValue, ValuePart
    <3>2. /\ Stores(item, c.policy)
          /\ items' = [items EXCEPT ![item.key] = Updated(@, item, c.policy)]
          /\ nextCas' = nextCas + 1
          /\ swaps' = IF c.policy = "cas"
                      THEN swaps \cup {[key |-> item.key, cas |-> item.cas, id |-> items[item.key].id]} ELSE swaps
      BY <2>5, <3>1 DEF storeItem
    <3>3. g.currItem.value \in Seq(StreamUnits) /\ g.currItem.key \in ItemKeys
      BY <1>5, Zenon DEF StoreItems
    <3>4. whole # <<>>
      BY <1>2, <1>3, <1>4, <1>6, WholeIsSomething
    <3>5. Front(whole) \in Seq(StreamUnits)
      BY <1>6, <3>3, <3>4, FrontIs
    <3>6. item \in StoreItems
      BY <1>5, <1>7, <3>5, Zenon DEF StoreItems
    <3>7. PICK k \in ItemKeys : k = item.key
      BY <3>6, Zenon DEF StoreItems
    <3>8. PICK old : old = items[k]
      OBVIOUS
    <3>9. old \in StoreItems \cup {NoItem} /\ nextCas \in Nat
      BY <3>7, <3>8 DEF MemTypeOK
    <3>10. c.policy \in {"append", "prepend", "cas"} => old # NoItem
      BY <3>2, <3>7, <3>8 DEF Stores
    <3>11. c.policy = "cas" => old.cas = item.cas
      BY <3>2, <3>7, <3>8 DEF Stores
    <3>12. PICK i : i = Updated(old, item, c.policy)
      OBVIOUS
    <3>13. i \in StoreItems /\ i.key = k /\ i.cas = nextCas
      BY <3>6, <3>7, <3>9, <3>10, <3>12, UpdatedIs
    <3>14. items' = [items EXCEPT ![k] = i]
      BY <3>2, <3>7, <3>8, <3>12
    <3>15. swaps' \subseteq swaps \cup (IF items[k] = NoItem THEN {} ELSE {Shown(items[k])})
      <4>1. CASE c.policy = "cas"
        <5>1. old # NoItem /\ old.cas = item.cas /\ old.key = k
          BY <3>7, <3>8, <3>10, <3>11, <4>1 DEF CasInv
        <5>2. Shown(old) = [key |-> item.key, cas |-> item.cas, id |-> items[item.key].id]
          BY <3>7, <3>8, <5>1 DEF Shown
        <5> QED
          BY <3>2, <3>8, <4>1, <5>1, <5>2
      <4>2. CASE c.policy # "cas"
        BY <3>2, <4>2
      <4> QED
        BY <4>1, <4>2
    <3>16. /\ session' \in [Sessions -> SessionStates] /\ \A t \in Sessions : ValueAwaited(session'[t])
           /\ session'[s] = d /\ \A t \in Sessions \ {s} : session'[t] = session[t]
      BY <2>2, <2>3, SessionSet
    <3>17. \A t \in Sessions : ToSet(session'[t].outputBuf) \subseteq ToSet(session[t].outputBuf)
      BY <1>1, <2>3, <3>16
    <3>18. seen' = seen
      BY DEF receiveValue
    <3>19. CasInv'
      BY <3>2, <3>7, <3>13, <3>14, <3>15, <3>17, <3>18, OneNew
    <3>20. items' \in [ItemKeys -> StoreItems \cup {NoItem}]
      BY <3>7, <3>13, <3>14 DEF MemTypeOK
    <3>21. MemTypeOK'
      BY <3>2, <3>16, <3>20 DEF MemTypeOK, receiveValue
    <3> QED
      BY <3>19, <3>21
  <2> QED
    BY <2>4, <2>5
<1> QED
  BY <1>8, <1>9

LEMMA getItemType ==
    ASSUME MemTypeOK, CasInv, NEW s \in Sessions, getItem(s), session[s].state = "kNewCommand"
    PROVE  MemTypeOK' /\ CasInv'
<1>1. PICK c : c = session[s]
  OBVIOUS
<1>2. PICK i : i = items[Head(c.keys)]
  OBVIOUS
<1>3. c \in SessionStates /\ c.keys # <<>> /\ ValueAwaited(c)
  BY <1>1 DEF getItem, MemTypeOK
<1>4. PICK k \in ItemKeys : k = Head(c.keys)
  <2>1. c.keys \in Seq(ItemKeys)
    BY <1>3, FieldsOf
  <2>2. Head(c.keys) \in ItemKeys
    BY <1>3, <2>1
  <2> QED
    BY <2>2
<1>5. i \in StoreItems \cup {NoItem} /\ i = items[k]
  BY <1>2, <1>4 DEF MemTypeOK
<1>6. PICK e : e = KeyTaken(c, i)
  OBVIOUS
<1>7. /\ e \in SessionStates /\ e.state = c.state
      /\ ToSet(e.outputBuf) \subseteq ToSet(c.outputBuf) \cup (IF i = NoItem THEN {} ELSE {i})
  BY <1>3, <1>5, <1>6, KeyGot
<1>8. PICK d : d = IF e.keys = <<>> THEN GetOver(e) ELSE e
  OBVIOUS
<1>9. session' = [session EXCEPT ![s] = d]
  BY <1>1, <1>2, <1>6, <1>8 DEF getItem, KeyTaken, GetOver
<1>10. /\ UNCHANGED <<items, nextCas, wire, requests, swaps>>
       /\ seen' \subseteq seen \cup {Shown(x) : x \in ToSet(e.outputBuf)}
  BY <1>1, <1>2, <1>6 DEF getItem, KeyTaken, Shown
<1>11. d \in SessionStates /\ ValueAwaited(d) /\ ToSet(d.outputBuf) \subseteq ToSet(e.outputBuf)
  <2>1. CASE e.keys # <<>>
    <3>1. d = e
      BY <1>8, <2>1
    <3>2. e.currItem = c.currItem /\ e.policy = c.policy /\ e.needed = c.needed
      <4>1. DOMAIN c = SessionFields
        BY <1>3, FieldsOf
      <4> QED
        BY <1>6, <4>1 DEF KeyTaken, SessionFields
    <3> QED
      BY <1>3, <1>7, <3>1, <3>2, Zenon DEF ValueAwaited
  <2>2. CASE e.keys = <<>>
    <3>1. d = GetOver(e) /\ c.state = "kNewCommand"
      BY <1>1, <1>8, <2>2
    <3>2. d \in SessionStates /\ d.state = e.state /\ d.outputBuf = <<>>
      BY <1>7, <3>1, GetDone
    <3> QED
      BY <1>7, <3>1, <3>2 DEF ValueAwaited, ToSet
  <2> QED
    BY <2>1, <2>2
<1>12. /\ session' \in [Sessions -> SessionStates] /\ \A t \in Sessions : ValueAwaited(session'[t])
       /\ session'[s] = d /\ \A t \in Sessions \ {s} : session'[t] = session[t]
  BY <1>9, <1>11, SessionSet
<1>13. \A x \in ToSet(e.outputBuf) : Shown(x) \in KnownItems
  <2>1. \A x \in ToSet(c.outputBuf) : Shown(x) \in KnownItems
    <3>1. {Shown(x) : x \in ToSet(session[s].outputBuf)} \subseteq KnownItems
      BY DEF KnownItems
    <3> QED
      BY <1>1, <3>1
  <2>2. i # NoItem => Shown(i) \in KnownItems
    <3>1. i # NoItem => Shown(i) \in {Shown(items[j]) : j \in {j \in ItemKeys : items[j] # NoItem}}
      BY <1>4, <1>5
    <3>2. {Shown(items[j]) : j \in {j \in ItemKeys : items[j] # NoItem}} \subseteq KnownItems
      BY Zenon DEF KnownItems
    <3> QED
      BY <3>1, <3>2
  <2> QED
    BY <1>7, <2>1, <2>2
<1>14. KnownItems' \subseteq KnownItems
  <2>1. ASSUME NEW x \in {Shown(items'[j]) : j \in {j \in ItemKeys : items'[j] # NoItem}} PROVE x \in KnownItems
    BY <1>10 DEF KnownItems
  <2>2. ASSUME NEW x \in UNION {{Shown(y) : y \in ToSet(session'[t].outputBuf)} : t \in Sessions} PROVE x \in KnownItems
    <3>1. PICK t \in Sessions : x \in {Shown(y) : y \in ToSet(session'[t].outputBuf)}
      BY <2>2
    <3>2. CASE t = s
      BY <1>11, <1>12, <1>13, <3>1, <3>2
    <3>3. CASE t # s
      <4>1. x \in {Shown(y) : y \in ToSet(session[t].outputBuf)}
        BY <1>12, <3>1, <3>3
      <4> QED
        BY <4>1 DEF KnownItems
    <3> QED
      BY <3>2, <3>3
  <2>3. seen' \subseteq KnownItems
    <3>1. seen \subseteq KnownItems
      BY Zenon DEF KnownItems
    <3> QED
      BY <1>10, <1>13, <3>1
  <2>4. swaps' \subseteq KnownItems
    BY <1>10, Zenon DEF KnownItems
  <2> QED
    BY <2>1, <2>2, <2>3, <2>4, Zenon DEF KnownItems, Shown
<1>15. CasInv'
  BY <1>10, <1>14 DEF CasInv
<1> QED
  BY <1>10, <1>12, <1>15 DEF MemTypeOK

-----------------------------------------------------------------------------
(* The stream of a session and its history                                 *)

AnswerTexts == {"END", "VERSION", "DELETED", "NOT_FOUND", "ERROR", "CLIENT_ERROR", "SERVER_ERROR", "STORED",
                "EXISTS", "NOT_STORED"}

\* Command number k of those sent: its units in the stream and its answers.
CommandAt(h, d, k) ==
    /\ h.from[k + 1] = h.from[k] + Len(Units(h.sent[k])) /\ h.owed[k + 1] = h.owed[k] + Len(Due(h.sent[k]))
    /\ \A j \in 1 .. Len(Units(h.sent[k])) : h.stream[h.from[k] + j] = Units(h.sent[k])[j]
    /\ \A j \in 1 .. Len(Due(h.sent[k])) : d[h.owed[k] + j] = Due(h.sent[k])[j]
    /\ h.sent[k].op = "endless" => k = Len(h.sent)

\* h is a history of a session to which the answers d are due.
Recorded(h, d) ==
    /\ h.sent \in Seq(SentCommands) /\ h.stream \in Seq(StreamUnits)
    /\ h.from \in [1 .. Len(h.sent) + 1 -> Nat] /\ h.owed \in [1 .. Len(h.sent) + 1 -> Nat]
    /\ h.from[Len(h.sent) + 1] = Len(h.stream) /\ h.owed[Len(h.sent) + 1] = Len(d)
    /\ \A k, m \in 1 .. Len(h.sent) + 1 : k <= m => h.from[k] <= h.from[m] /\ h.owed[k] <= h.owed[m]
    /\ \A k \in 1 .. Len(h.sent) : CommandAt(h, d, k)

\* The server has read p units, and what it has not is in buf and on the wire.
Unread(h, c, w, p) ==
    /\ p + Len(c.buf) + Len(w) = Len(h.stream)
    /\ \A i \in 1 .. Len(c.buf) : c.buf[i] = h.stream[p + i]
    /\ \A i \in 1 .. Len(w) : w[i] = h.stream[p + Len(c.buf) + i]

\* The four places in a stream: before the line of command k, which a get in
\* work has not left yet,
BeforeCommand(h, c, a, p, k) ==
    /\ p = h.from[k] /\ c.state = "kNewCommand" /\ (c.connected => Len(a) = h.owed[k])
    /\ c.keys = <<>> => ~c.noreply
    /\ c.keys # <<>> => k <= Len(h.sent) /\ h.sent[k].op \in {"get", "gets"} /\ Crlf(c) > 0 /\ c.busy

\* before what is left of a value and will be answered as a line,
BeforeErrorLine(h, d, c, a, p, k) ==
    /\ k <= Len(h.sent) /\ c.state = "kNewCommand" /\ ~c.noreply /\ c.keys = <<>>
    /\ h.sent[k].op # "endless"
    /\ p < h.from[k + 1] /\ h.stream[h.from[k + 1]] = EOL
    /\ \A i \in p + 1 .. h.from[k + 1] - 1 : h.stream[i] = Byte
    /\ h.owed[k + 1] >= 1 /\ d[h.owed[k + 1]] = {"ERROR"}
    /\ c.connected => Len(a) = h.owed[k + 1] - 1

\* in a value that is read,
InValue(h, c, a, p, k) ==
    /\ k <= Len(h.sent) /\ h.sent[k].op \in Updates /\ h.sent[k].bytes <= MaxValue
    /\ c.state = "kReceiveValue" /\ c.keys = <<>> /\ c.policy = h.sent[k].op /\ (c.noreply <=> h.sent[k].noreply)
    /\ p = h.from[k] + 2 + Len(c.currItem.value) /\ Len(c.currItem.value) + c.needed = h.sent[k].bytes + 1
    /\ c.connected => Len(a) = h.owed[k]

\* and in a value that is discarded.
InDiscarded(h, c, a, p, k) ==
    /\ k <= Len(h.sent) /\ h.sent[k].op # "endless"
    /\ c.state = "kDiscardValue" /\ c.keys = <<>> /\ c.bytesToDiscard >= 1
    /\ p + c.bytesToDiscard = h.from[k + 1]
    /\ c.connected => Len(a) = h.owed[k + 1]

Placed(h, d, c, a, p, k) ==
    \/ BeforeCommand(h, c, a, p, k) \/ BeforeErrorLine(h, d, c, a, p, k)
    \/ InValue(h, c, a, p, k) \/ InDiscarded(h, c, a, p, k)

\* A session that waits for input has nothing it could work on.
Asleep(c) ==
    ~c.busy => /\ c.keys = <<>>
               /\ \/ c.buf = <<>>
                  \/ /\ c.state = "kNewCommand" /\ \A i \in 1 .. Len(c.buf) : c.buf[i] # EOL
                     /\ c.connected => ~Endless(c.buf)

\* No answer too many and none of a wrong kind.
Answered(a, d) ==
    /\ a \in Seq(AnswerTexts) /\ d \in Seq(SUBSET AnswerTexts)
    /\ Len(a) <= Len(d) /\ \A i \in 1 .. Len(a) : a[i] \in d[i]

Following(h, c, w, d, a, p, k) ==
    /\ Recorded(h, d) /\ p \in Nat /\ k \in 1 .. Len(h.sent) + 1
    /\ \A j \in 1 .. k - 1 : h.sent[j].op # "endless"
    /\ Unread(h, c, w, p) /\ Placed(h, d, c, a, p, k)

StreamOK(c, w, d, a) == Answered(a, d) /\ Asleep(c) /\ \E h, p, k : Following(h, c, w, d, a, p, k)

\* Every session follows some history.
StreamInv ==
    /\ due \in [Sessions -> Seq(SUBSET AnswerTexts)] /\ answers \in [Sessions -> Seq(AnswerTexts)]
    /\ \A s \in Sessions : StreamOK(session[s], wire[s], due[s], answers[s])

-----------------------------------------------------------------------------
\* A command that is answered once, and not at all with noreply.
OneAnswer(r, A) == /\ r.noreply => Len(Due(r)) = 0
                   /\ ~r.noreply => Len(Due(r)) = 1 /\ Due(r)[1] = A
\* A command whose value is read as a line that is no command.
ErrorFollows(r) == /\ r.noreply => Len(Due(r)) = 1 /\ Due(r)[1] = {"ERROR"}
                   /\ ~r.noreply => Len(Due(r)) = 2 /\ Due(r)[1] = {"CLIENT_ERROR"} /\ Due(r)[2] = {"ERROR"}

\* The answers to an update whose value was read.
StoredAnswers(op) == IF op = "set" THEN {"STORED"}
                     ELSE IF op = "cas" THEN {"STORED", "EXISTS", "NOT_FOUND"} ELSE {"STORED", "NOT_STORED"}

LEMMA TwoInARow ==
    ASSUME NEW S, NEW a \in S, NEW b \in S
    PROVE  <<a>> \o <<b>> = <<a, b>>
<1>1. PICK x : x = <<a>> \o <<b>>
  OBVIOUS
<1>2. <<a>> \in Seq(S) /\ <<b>> \in Seq(S) /\ <<a, b>> \in Seq(S)
  OBVIOUS
<1>3. x \in Seq(S) /\ Len(x) = 2
  BY <1>1, <1>2
<1>4. \A i \in 1 .. 2 : x[i] = IF i <= 1 THEN <<a>>[i] ELSE <<b>>[i - 1]
  BY <1>1, <1>2, ConcatProperties
<1>5. x[1] = a /\ x[2] = b
  BY <1>4
<1>6. x = <<a, b>>
  BY <1>3, <1>5
<1> QED
  BY <1>1, <1>6

LEMMA DueIs ==
    ASSUME NEW r \in SentCommands
    PROVE  /\ Due(r) \in Seq(SUBSET AnswerTexts)
           /\ r.op \in {"quit", "shutdown", "endless"} => Len(Due(r)) = 0
           /\ r.op \in {"get", "gets"} => Len(Due(r)) = 1 /\ Due(r)[1] = {"END"}
           /\ r.op = "version" => OneAnswer(r, {"VERSION"})
           /\ r.op = "delete" => OneAnswer(r, {"DELETED", "NOT_FOUND"})
           /\ r.op \in {"unknown", "empty"} => OneAnswer(r, {"ERROR"})
           /\ r.op = "malformed" => ErrorFollows(r)
           /\ r.op \in Updates /\ r.bytes > MaxValue => OneAnswer(r, {"SERVER_ERROR"})
           /\ r.op \in Updates /\ ~(r.bytes > MaxValue) /\ r.bytes < Len(r.data) => ErrorFollows(r)
           /\ r.op \in Updates /\ ~(r.bytes > MaxValue) /\ ~(r.bytes < Len(r.data)) => OneAnswer(r, StoredAnswers(r.op))
<1>1. r.op \in Keyed \cup {"version", "quit", "shutdown", "malformed", "unknown", "empty", "endless"}
  BY DEF SentCommands, ClientCommands
<1>2. CASE r.op \in {"quit", "shutdown", "endless"}
  BY <1>2 DEF Due, Updates
<1>3. CASE r.op \in {"get", "gets"}
  <2>1. Due(r) = <<{"END"}>>
    BY <1>3 DEF Due, Updates
  <2>2. {"END"} \in SUBSET AnswerTexts
    BY DEF AnswerTexts
  <2>3. Due(r) \in Seq(SUBSET AnswerTexts) /\ Len(Due(r)) = 1 /\ Due(r)[1] = {"END"}
    BY <2>1, <2>2
  <2> QED
    BY <1>3, <2>3 DEF Updates
<1> DEFINE once(A) == IF r.noreply THEN <<>> ELSE <<A>>
<1>a. ASSUME NEW A \in SUBSET AnswerTexts, Due(r) = once(A) PROVE OneAnswer(r, A) /\ Due(r) \in Seq(SUBSET AnswerTexts)
  <2>1. CASE r.noreply
    BY <1>a, <2>1 DEF OneAnswer
  <2>2. CASE ~r.noreply
    BY <1>a, <2>2 DEF OneAnswer
  <2> QED
    BY <2>1, <2>2
<1>b. ASSUME Due(r) = once({"CLIENT_ERROR"}) \o <<{"ERROR"}>> PROVE ErrorFollows(r) /\ Due(r) \in Seq(SUBSET AnswerTexts)
  <2>1. {"CLIENT_ERROR"} \in SUBSET AnswerTexts /\ {"ERROR"} \in SUBSET AnswerTexts
    BY DEF AnswerTexts
  <2>2. CASE r.noreply
    <3>1. Due(r) = <<{"ERROR"}>>
      BY <1>b, <2>1, <2>2
    <3> QED
      BY <2>1, <2>2, <3>1 DEF ErrorFollows
  <2>3. CASE ~r.noreply
    <3>1. Due(r) = <<{"CLIENT_ERROR"}, {"ERROR"}>>
      <4>1. Due(r) = <<{"CLIENT_ERROR"}>> \o <<{"ERROR"}>>
        BY <1>b, <2>3
      <4> QED
        BY <2>1, <4>1, TwoInARow
    <3> QED
      BY <2>1, <2>3, <3>1 DEF ErrorFollows
  <2> QED
    BY <2>2, <2>3
<1>c. \A A \in {{"VERSION"}, {"DELETED", "NOT_FOUND"}, {"ERROR"}, {"SERVER_ERROR"}, StoredAnswers(r.op)} : A \in SUBSET AnswerTexts
  BY DEF AnswerTexts, StoredAnswers
<1>4. CASE r.op = "version"
  <2>1. Due(r) = once({"VERSION"})
    BY <1>4 DEF Due, Updates
  <2> QED
    BY <1>4, <1>a, <1>c, <2>1 DEF Updates
<1>5. CASE r.op = "delete"
  <2>1. Due(r) = once({"DELETED", "NOT_FOUND"})
    BY <1>5 DEF Due, Updates
  <2> QED
    BY <1>5, <1>a, <1>c, <2>1 DEF Updates
<1>6. CASE r.op \in {"unknown", "empty"}
  <2>1. Due(r) = once({"ERROR"})
    BY <1>6 DEF Due, Updates
  <2> QED
    BY <1>6, <1>a, <1>c, <2>1 DEF Updates
<1>7. CASE r.op = "malformed"
  <2>1. Due(r) = once({"CLIENT_ERROR"}) \o <<{"ERROR"}>>
    BY <1>7 DEF Due, Updates
  <2> QED
    BY <1>7, <1>b, <2>1 DEF Updates
<1>8. CASE r.op \in Updates
  <2>1. r.op \notin {"quit", "shutdown", "endless", "get", "gets", "version", "delete", "unknown", "empty", "malformed"}
    BY <1>8 DEF Updates
  <2>2. CASE r.bytes > MaxValue
    <3>1. Due(r) = once({"SERVER_ERROR"})
      BY <1>8, <2>1, <2>2 DEF Due
    <3> QED
      BY <2>1, <2>2, <1>a, <1>c, <3>1
  <2>3. CASE ~(r.bytes > MaxValue) /\ r.bytes < Len(r.data)
    <3>1. Due(r) = once({"CLIENT_ERROR"}) \o <<{"ERROR"}>>
      BY <1>8, <2>1, <2>3 DEF Due
    <3> QED
      BY <2>1, <2>3, <1>b, <3>1
  <2>4. CASE ~(r.bytes > MaxValue) /\ ~(r.bytes < Len(r.data))
    <3>1. Due(r) = once(StoredAnswers(r.op))
      BY <1>8, <2>1, <2>4 DEF Due, StoredAnswers
    <3> QED
      BY <2>1, <2>4, <1>a, <1>c, <3>1
  <2> QED
    BY <2>1, <2>2, <2>3, <2>4
<1> QED
  BY <1>1, <1>2, <1>3, <1>4, <1>5, <1>6, <1>7, <1>8 DEF Keyed

LEMMA UnitsAre ==
    ASSUME NEW r \in SentCommands
    PROVE  /\ Units(r) \in Seq(StreamUnits) /\ Len(Units(r)) >= 1 /\ Units(r)[1] = r
           /\ r.op = "endless" => Len(Units(r)) = 1
           /\ r.op # "endless" => Len(Units(r)) >= 2 /\ Units(r)[2] = EOL
           /\ r.op \notin Updates \cup {"malformed", "endless"} => Len(Units(r)) = 2
           /\ r.op \in Updates \cup {"malformed"} =>
                 /\ Len(Units(r)) = Len(r.data) + 3 /\ Units(r)[Len(r.data) + 3] = EOL /\ Len(r.data) \in Nat
                 /\ \A i \in 3 .. Len(r.data) + 2 : Units(r)[i] = Byte
<1>1. Units(r) \in Seq(StreamUnits)
  BY UnitsSent
<1>2. r.data \in Seq({Byte})
  BY DEF SentCommands, ClientCommands
<1>3. r \in StreamUnits /\ EOL \in StreamUnits /\ Byte \in StreamUnits
  BY DEF StreamUnits
<1>4. CASE r.op = "endless"
  <2>1. Units(r) = <<r>> \o <<>> \o <<>>
    BY <1>4 DEF Units, Updates
  <2>2. Units(r) = <<r>>
    BY <1>3, <2>1
  <2> QED
    BY <1>1, <1>4, <2>2 DEF Updates
<1>5. CASE r.op \notin Updates \cup {"malformed", "endless"}
  <2>1. Units(r) = <<r>> \o <<EOL>> \o <<>>
    BY <1>5 DEF Units
  <2>2. Units(r) = <<r, EOL>>
    <3>1. <<r>> \o <<EOL>> = <<r, EOL>>
      BY <1>3, TwoInARow
    <3>2. <<r, EOL>> \o <<>> = <<r, EOL>>
      BY <1>3
    <3> QED
      BY <2>1, <3>1, <3>2
  <2>3. Len(Units(r)) = 2 /\ Units(r)[1] = r /\ Units(r)[2] = EOL
    BY <2>2
  <2> QED
    BY <1>1, <1>5, <2>3
<1>6. CASE r.op \in Updates \cup {"malformed"}
  <2>1. PICK b : b = r.data
    OBVIOUS
  <2>2. b \in Seq({Byte}) /\ b \in Seq(StreamUnits) /\ \A i \in 1 .. Len(b) : b[i] = Byte
    BY <1>2, <1>3, <2>1
  <2>3. PICK e : e = b \o <<EOL>>
    OBVIOUS
  <2>4. e \in Seq(StreamUnits) /\ Len(e) = Len(b) + 1 /\ e[Len(b) + 1] = EOL /\ \A i \in 1 .. Len(b) : e[i] = Byte
    BY <1>3, <2>2, <2>3
  <2>5. PICK f : f = <<r, EOL>>
    OBVIOUS
  <2>6. f \in Seq(StreamUnits) /\ Len(f) = 2 /\ f[1] = r /\ f[2] = EOL
    BY <1>3, <2>5
  <2>7. <<r>> \o <<EOL>> = f
    BY <1>3, <2>5, TwoInARow
  <2>8. r.op # "endless"
    BY <1>6 DEF Updates
  <2>9. Units(r) = f \o e
    BY <1>6, <2>1, <2>3, <2>7, <2>8 DEF Units
  <2>10. PICK m \in Nat : m = Len(b)
    BY <2>2
  <2>11. PICK u : u = f \o e
    OBVIOUS
  <2>12. Len(u) = m + 3 /\ \A i \in 1 .. m + 3 : u[i] = IF i <= 2 THEN f[i] ELSE e[i - 2]
    <3>1. /\ Len(f \o e) = Len(f) + Len(e)
          /\ \A i \in 1 .. Len(f) + Len(e) : (f \o e)[i] = IF i <= Len(f) THEN f[i] ELSE e[i - Len(f)]
      BY <2>4, <2>6, ConcatProperties, Zenon
    <3>2. Len(f) = 2 /\ Len(e) = m + 1
      BY <2>4, <2>6, <2>10
    <3> QED
      BY <2>10, <2>11, <3>1, <3>2
  <2>13. u[1] = r /\ u[2] = EOL /\ u[m + 3] = EOL
    BY <2>4, <2>6, <2>10, <2>12
  <2>14. \A i \in 3 .. m + 2 : u[i] = Byte
    BY <2>4, <2>10, <2>12
  <2> QED
    <3>1. Units(r) = u /\ Len(r.data) = m /\ Len(u) >= 1 /\ Len(u) >= 2
      BY <2>1, <2>9, <2>10, <2>11, <2>12
    <3> QED
      BY <1>1, <1>6, <2>8, <2>10, <2>12, <2>13, <2>14, <3>1
<1> QED
  BY <1>4, <1>5, <1>6

-----------------------------------------------------------------------------
(* Where the next line of a stream ends, and what it is                    *)

LEMMA CommandKnown ==
    ASSUME NEW h, NEW d, Recorded(h, d), NEW k \in 1 .. Len(h.sent)
    PROVE  /\ Len(h.sent) \in Nat /\ k \in Nat /\ k + 1 \in 1 .. Len(h.sent) + 1 /\ h.sent[k] \in SentCommands
           /\ CommandAt(h, d, k) /\ h.from[k] \in Nat /\ h.from[k + 1] \in Nat /\ h.owed[k] \in Nat /\ h.owed[k + 1] \in Nat
           /\ h.from[k + 1] <= Len(h.stream) /\ h.owed[k + 1] <= Len(d)
<1>0. h.sent \in Seq(SentCommands)
  BY DEF Recorded
<1>1. PICK n \in Nat : n = Len(h.sent)
  BY <1>0
<1>2. k \in 1 .. n /\ k \in 1 .. n + 1 /\ k + 1 \in 1 .. n + 1 /\ n + 1 \in 1 .. n + 1 /\ k + 1 <= n + 1
  BY <1>1
<1>3. h.sent[k] \in SentCommands /\ CommandAt(h, d, k)
  BY <1>1, <1>2 DEF Recorded
<1>4. h.from[k] \in Nat /\ h.from[k + 1] \in Nat /\ h.owed[k] \in Nat /\ h.owed[k + 1] \in Nat
  BY <1>1, <1>2 DEF Recorded
<1>5. h.from[k + 1] <= h.from[n + 1] /\ h.owed[k + 1] <= h.owed[n + 1]
  BY <1>1, <1>2 DEF Recorded
<1>6. h.from[n + 1] = Len(h.stream) /\ h.owed[n + 1] = Len(d)
  BY <1>1 DEF Recorded
<1> QED
  BY <1>1, <1>2, <1>3, <1>4, <1>5, <1>6

LEMMA LineAt ==
    ASSUME NEW h, NEW d, Recorded(h, d), NEW c \in SessionStates, NEW w \in Seq(StreamUnits), NEW p \in Nat,
           NEW k \in 1 .. Len(h.sent) + 1, p = h.from[k], Unread(h, c, w, p), Crlf(c) > 0
    PROVE  /\ k \in 1 .. Len(h.sent) /\ h.sent[k].op # "endless"
           /\ Crlf(c) = 2 /\ Parsed(c) = h.sent[k]
<1>1. PICK n \in Nat : n = Len(h.sent)
  BY DEF Recorded
<1>2. PICK b \in Seq(StreamUnits) : b = c.buf
  BY FieldsOf
<1>3. PICK e \in Nat : e = Crlf(c)
  BY <1>2, CrlfFinds
<1>4. e \in 1 .. Len(b) /\ b[e] = EOL /\ \A j \in 1 .. e - 1 : b[j] # EOL
  BY <1>2, <1>3, CrlfFinds
<1>5. PICK lb \in Nat : lb = Len(b)
  BY <1>2
<1>6. PICK lw \in Nat : lw = Len(w)
  OBVIOUS
<1>7. PICK ls \in Nat : ls = Len(h.stream)
  BY DEF Recorded
<1>8. p + lb + lw = ls /\ \A i \in 1 .. lb : b[i] = h.stream[p + i]
  BY <1>2, <1>5, <1>6, <1>7 DEF Unread
<1>9. lb >= 1 /\ p < ls
  BY <1>4, <1>5, <1>8
<1>10. k # n + 1
  BY <1>1, <1>7, <1>9 DEF Recorded
<1>11. k \in 1 .. n
  BY <1>1, <1>10
<1>12. PICK r : r = h.sent[k]
  OBVIOUS
<1>13. r \in SentCommands /\ CommandAt(h, d, k)
  BY <1>1, <1>11, <1>12, CommandKnown
<1>14. PICK lu \in Nat : lu = Len(Units(r))
  BY <1>13, UnitsAre
<1>15. lu >= 1 /\ Units(r)[1] = r /\ (r.op = "endless" => lu = 1) /\ (r.op # "endless" => lu >= 2 /\ Units(r)[2] = EOL)
  BY <1>13, <1>14, UnitsAre
<1>16. \A j \in 1 .. lu : h.stream[p + j] = Units(r)[j]
  BY <1>12, <1>13, <1>14 DEF CommandAt
<1>17. b[1] = r
  BY <1>8, <1>9, <1>15, <1>16
<1>18. e # 1
  BY <1>4, <1>13, <1>17, UnitKinds
<1>19. lb >= 2
  BY <1>4, <1>5, <1>18
<1>20. r.op # "endless"
  <2>1. SUFFICES ASSUME r.op = "endless" PROVE FALSE
    OBVIOUS
  <2>2. k = n /\ h.from[k + 1] = p + 1
    BY <1>1, <1>12, <1>13, <1>14, <1>15, <2>1 DEF CommandAt
  <2>3. h.from[n + 1] = ls
    BY <1>1, <1>7 DEF Recorded
  <2> QED
    BY <1>8, <1>19, <2>2, <2>3, SMTT(30)
<1>21. b[2] = EOL
  BY <1>8, <1>15, <1>16, <1>19, <1>20
<1>22. e = 2
  BY <1>4, <1>18, <1>21
<1>23. Parsed(c) = r
  BY <1>2, <1>3, <1>13, <1>17, <1>22, LineParsed
<1> QED
  BY <1>1, <1>3, <1>11, <1>12, <1>20, <1>22, <1>23

LEMMA ErrorLineAt ==
    ASSUME NEW h, NEW d, Recorded(h, d), NEW c \in SessionStates, NEW w \in Seq(StreamUnits), NEW p \in Nat, NEW a,
           NEW k \in 1 .. Len(h.sent), BeforeErrorLine(h, d, c, a, p, k), Unread(h, c, w, p), Crlf(c) > 0
    PROVE  /\ p + Crlf(c) = h.from[k + 1] /\ Parsed(c).op \in {"unknown", "empty"} /\ ~Parsed(c).noreply
<1>1. PICK b \in Seq(StreamUnits) : b = c.buf
  BY FieldsOf
<1>2. PICK e \in Nat : e = Crlf(c)
  BY <1>1, CrlfFinds
<1>3. e \in 1 .. Len(b) /\ b[e] = EOL /\ \A j \in 1 .. e - 1 : b[j] # EOL
  BY <1>1, <1>2, CrlfFinds
<1>4. PICK lb \in Nat : lb = Len(b)
  BY <1>1
<1>5. PICK q \in Nat : q = h.from[k + 1]
  BY CommandKnown
<1>6. p < q /\ h.stream[q] = EOL /\ \A i \in p + 1 .. q - 1 : h.stream[i] = Byte
  BY <1>5 DEF BeforeErrorLine
<1>7. \A i \in 1 .. lb : b[i] = h.stream[p + i]
  BY <1>1, <1>4 DEF Unread
<1>8. EOL # Byte
  BY UnitKinds
<1>9. ~(p + e < q)
  <2>1. SUFFICES ASSUME p + e < q PROVE FALSE
    OBVIOUS
  <2>2. p + e \in p + 1 .. q - 1 /\ e \in 1 .. lb
    BY <1>3, <1>4, <2>1
  <2> QED
    BY <1>3, <1>6, <1>7, <1>8, <2>2
<1>10. ~(p + e > q)
  <2>1. SUFFICES ASSUME p + e > q PROVE FALSE
    OBVIOUS
  <2>2. PICK j \in 1 .. e - 1 : p + j = q
    <3>1. q - p \in 1 .. e - 1 /\ p + (q - p) = q
      BY <1>6, <2>1
    <3> QED
      BY <3>1
  <2>3. j \in 1 .. lb
    BY <1>3, <1>4, <2>2
  <2> QED
    BY <1>3, <1>6, <1>7, <2>2, <2>3
<1>11. p + e = q
  BY <1>9, <1>10
<1>12. \A j \in 1 .. e - 1 : b[j] = Byte
  <2>1. TAKE j \in 1 .. e - 1
  <2>2. j \in 1 .. lb /\ p + j \in p + 1 .. q - 1
    BY <1>3, <1>4, <1>11, <2>1
  <2> QED
    BY <1>6, <1>7, <2>2
<1> QED
  BY <1>1, <1>2, <1>5, <1>11, <1>12, LineParsed

-----------------------------------------------------------------------------
(* Reading on in the stream and answering                                  *)

LEMMA ReadOn ==
    ASSUME NEW h, h.stream \in Seq(StreamUnits), NEW c, c.buf \in Seq(StreamUnits), NEW w \in Seq(StreamUnits), NEW p \in Nat,
           Unread(h, c, w, p), NEW n \in 0 .. Len(c.buf), NEW e, e.buf \in Seq(StreamUnits), Len(e.buf) = Len(c.buf) - n,
           \A i \in 1 .. Len(c.buf) - n : e.buf[i] = c.buf[n + i]
    PROVE  Unread(h, e, w, p + n) /\ p + n \in Nat
<1>1. PICK lb \in Nat : lb = Len(c.buf)
  OBVIOUS
<1>2. PICK lw \in Nat : lw = Len(w)
  OBVIOUS
<1>3. PICK ls \in Nat : ls = Len(h.stream)
  OBVIOUS
<1>4. /\ p + lb + lw = ls /\ n \in 0 .. lb
      /\ \A i \in 1 .. lb : c.buf[i] = h.stream[p + i]
      /\ \A i \in 1 .. lw : w[i] = h.stream[p + lb + i]
  BY <1>1, <1>2, <1>3 DEF Unread
<1>5. PICK le \in Nat : le = Len(e.buf)
  <2>1. e.buf \in Seq(StreamUnits)
    OBVIOUS
  <2>2. Len(e.buf) \in Nat
    BY <2>1
  <2> QED
    BY <2>2
<1>6. le = lb - n /\ \A i \in 1 .. lb - n : e.buf[i] = c.buf[n + i]
  BY <1>1, <1>5
<1>7. p + n + le + lw = ls /\ p + n \in Nat
  BY <1>4, <1>6
<1>8. ASSUME NEW i \in 1 .. le PROVE e.buf[i] = h.stream[p + n + i]
  <2>1. i \in 1 .. lb - n /\ n + i \in 1 .. lb /\ p + (n + i) = p + n + i
    BY <1>4, <1>6, <1>8
  <2> QED
    BY <1>4, <1>6, <2>1
<1>9. ASSUME NEW i \in 1 .. lw PROVE w[i] = h.stream[p + n + le + i]
  <2>1. p + n + le + i = p + lb + i
    BY <1>4, <1>6, <1>9
  <2> QED
    BY <1>4, <2>1
<1> QED
  BY <1>2, <1>3, <1>5, <1>7, <1>8, <1>9 DEF Unread

\* What a session sends, if its connection is up.
Sends(up, a, msgs) == IF up THEN a \o msgs ELSE a

LEMMA NothingSent ==
    ASSUME NEW up, NEW a \in Seq(AnswerTexts)
    PROVE  Sends(up, a, <<>>) = a
  BY DEF Sends

LEMMA AnswerSent ==
    ASSUME NEW a, NEW d, Answered(a, d), NEW up, NEW msg \in AnswerTexts,
           up => Len(a) + 1 <= Len(d) /\ msg \in d[Len(a) + 1]
    PROVE  /\ Answered(Sends(up, a, <<msg>>), d)
           /\ up => Len(Sends(up, a, <<msg>>)) = Len(a) + 1
<1>1. a \in Seq(AnswerTexts) /\ d \in Seq(SUBSET AnswerTexts) /\ Len(a) <= Len(d) /\ \A i \in 1 .. Len(a) : a[i] \in d[i]
  BY DEF Answered
<1>2. CASE ~up
  BY <1>2 DEF Sends
<1>3. CASE up
  <2>1. PICK m \in Nat : m = Len(a)
    BY <1>1
  <2>2. PICK x : x = a \o <<msg>>
    OBVIOUS
  <2>3. x \in Seq(AnswerTexts) /\ Len(x) = m + 1 /\ x[m + 1] = msg /\ \A i \in 1 .. m : x[i] = a[i]
    BY <1>1, <2>1, <2>2
  <2>4. \A i \in 1 .. m + 1 : x[i] \in d[i]
    BY <1>1, <1>3, <2>1, <2>3
  <2>5. Answered(x, d)
    BY <1>1, <1>3, <2>1, <2>3, <2>4 DEF Answered
  <2> QED
    BY <1>3, <2>1, <2>2, <2>3, <2>5 DEF Sends
<1> QED
  BY <1>2, <1>3

ReplyGiven(h, d, k, c, a, A, msg, x) ==
    /\ Recorded(h, d) /\ k \in 1 .. Len(h.sent) /\ Answered(a, d) /\ (c.connected => Len(a) = h.owed[k])
    /\ A \in SUBSET AnswerTexts /\ msg \in A /\ OneAnswer(h.sent[k], A)
    /\ x = Sends(c.connected, a, IF h.sent[k].noreply THEN <<>> ELSE <<msg>>)

LEMMA ReplySent ==
    ASSUME NEW h, NEW d, NEW k, NEW c, NEW a, NEW A, NEW msg, NEW x, ReplyGiven(h, d, k, c, a, A, msg, x)
    PROVE  Answered(x, d) /\ (c.connected => Len(x) = h.owed[k + 1])
<1>0. /\ Recorded(h, d) /\ k \in 1 .. Len(h.sent) /\ Answered(a, d) /\ (c.connected => Len(a) = h.owed[k])
      /\ A \in SUBSET AnswerTexts /\ msg \in A /\ OneAnswer(h.sent[k], A)
      /\ x = Sends(c.connected, a, IF h.sent[k].noreply THEN <<>> ELSE <<msg>>)
  BY DEF ReplyGiven
<1>1. PICK r : r = h.sent[k]
  OBVIOUS
<1>2. a \in Seq(AnswerTexts)
  BY <1>0 DEF Answered
<1>3. /\ h.owed[k] \in Nat /\ h.owed[k + 1] \in Nat /\ h.owed[k + 1] <= Len(d)
      /\ h.owed[k + 1] = h.owed[k] + Len(Due(r)) /\ \A j \in 1 .. Len(Due(r)) : d[h.owed[k] + j] = Due(r)[j]
  <2>1. h.owed[k] \in Nat /\ h.owed[k + 1] \in Nat /\ h.owed[k + 1] <= Len(d) /\ CommandAt(h, d, k)
    BY <1>0, CommandKnown
  <2> QED
    BY <1>1, <2>1 DEF CommandAt
<1>4. CASE r.noreply
  <2>1. x = a
    BY <1>0, <1>1, <1>2, <1>4, NothingSent
  <2>2. Len(Due(r)) = 0
    BY <1>0, <1>1, <1>4 DEF OneAnswer
  <2>3. h.owed[k + 1] = h.owed[k]
    BY <1>3, <2>2
  <2> QED
    BY <1>0, <2>1, <2>3
<1>5. CASE ~r.noreply
  <2>1. x = Sends(c.connected, a, <<msg>>)
    BY <1>0, <1>1, <1>5
  <2>2. Len(Due(r)) = 1 /\ Due(r)[1] = A
    BY <1>0, <1>1, <1>5 DEF OneAnswer
  <2>3. h.owed[k + 1] = h.owed[k] + 1 /\ d[h.owed[k] + 1] = A
    BY <1>3, <2>2
  <2>4. c.connected => Len(a) + 1 <= Len(d) /\ msg \in d[Len(a) + 1]
    BY <1>0, <1>3, <2>3
  <2>5. msg \in AnswerTexts
    BY <1>0
  <2>6. Answered(x, d) /\ (c.connected => Len(x) = Len(a) + 1)
    BY <1>0, <2>1, <2>4, <2>5, AnswerSent
  <2> QED
    BY <1>0, <2>3, <2>6
<1> QED
  BY <1>4, <1>5

\* What is sent for a value that does not end where its line said.
ErrorReplied(h, d, k, c, a, x) ==
    /\ Recorded(h, d) /\ k \in 1 .. Len(h.sent) /\ Answered(a, d) /\ (c.connected => Len(a) = h.owed[k])
    /\ ErrorFollows(h.sent[k])
    /\ x = Sends(c.connected, a, IF h.sent[k].noreply THEN <<>> ELSE <<"CLIENT_ERROR">>)

LEMMA ErrorReplySent ==
    ASSUME NEW h, NEW d, NEW k, NEW c, NEW a, NEW x, ErrorReplied(h, d, k, c, a, x)
    PROVE  /\ Answered(x, d) /\ (c.connected => Len(x) = h.owed[k + 1] - 1)
           /\ h.owed[k + 1] >= 1 /\ d[h.owed[k + 1]] = {"ERROR"}
<1>0. /\ Recorded(h, d) /\ k \in 1 .. Len(h.sent) /\ Answered(a, d) /\ (c.connected => Len(a) = h.owed[k])
      /\ ErrorFollows(h.sent[k])
      /\ x = Sends(c.connected, a, IF h.sent[k].noreply THEN <<>> ELSE <<"CLIENT_ERROR">>)
  BY DEF ErrorReplied
<1>1. PICK r : r = h.sent[k]
  OBVIOUS
<1>2. a \in Seq(AnswerTexts)
  BY <1>0 DEF Answered
<1>3. /\ h.owed[k] \in Nat /\ h.owed[k + 1] \in Nat /\ h.owed[k + 1] <= Len(d)
      /\ h.owed[k + 1] = h.owed[k] + Len(Due(r)) /\ \A j \in 1 .. Len(Due(r)) : d[h.owed[k] + j] = Due(r)[j]
  <2>1. h.owed[k] \in Nat /\ h.owed[k + 1] \in Nat /\ h.owed[k + 1] <= Len(d) /\ CommandAt(h, d, k)
    BY <1>0, CommandKnown
  <2> QED
    BY <1>1, <2>1 DEF CommandAt
<1>4. CASE r.noreply
  <2>1. x = a
    BY <1>0, <1>1, <1>2, <1>4, NothingSent
  <2>2. Len(Due(r)) = 1 /\ Due(r)[1] = {"ERROR"}
    BY <1>0, <1>1, <1>4 DEF ErrorFollows
  <2>3. h.owed[k + 1] = h.owed[k] + 1 /\ d[h.owed[k] + 1] = {"ERROR"}
    BY <1>3, <2>2
  <2> QED
    BY <1>0, <1>3, <2>1, <2>3
<1>5. CASE ~r.noreply
  <2>1. x = Sends(c.connected, a, <<"CLIENT_ERROR">>)
    BY <1>0, <1>1, <1>5
  <2>2. Len(Due(r)) = 2 /\ Due(r)[1] = {"CLIENT_ERROR"} /\ Due(r)[2] = {"ERROR"}
    BY <1>0, <1>1, <1>5 DEF ErrorFollows
  <2>3. h.owed[k + 1] = h.owed[k] + 2 /\ d[h.owed[k] + 1] = {"CLIENT_ERROR"} /\ d[h.owed[k] + 2] = {"ERROR"}
    BY <1>3, <2>2
  <2>4. c.connected => Len(a) + 1 <= Len(d) /\ "CLIENT_ERROR" \in d[Len(a) + 1]
    <3>1. PICK m \in Nat : m = h.owed[k]
      BY <1>3
    <3>2. PICK n \in Nat : n = Len(d)
      BY <1>0 DEF Answered
    <3>3. m + 2 <= n
      BY <1>3, <2>3, <3>1, <3>2
    <3>4. c.connected => Len(a) = m
      BY <1>0, <3>1
    <3>5. m + 1 <= n /\ "CLIENT_ERROR" \in d[m + 1]
      BY <2>3, <3>1, <3>2, <3>3
    <3> QED
      BY <3>2, <3>4, <3>5
  <2>5. "CLIENT_ERROR" \in AnswerTexts
    BY DEF AnswerTexts
  <2>6. Answered(x, d) /\ (c.connected => Len(x) = Len(a) + 1)
    BY <1>0, <2>1, <2>4, <2>5, AnswerSent
  <2> QED
    BY <1>0, <1>3, <2>3, <2>6, SMTT(40)
<1> QED
  BY <1>4, <1>5

LEMMA CommandOver ==
    ASSUME NEW h, NEW d, Recorded(h, d), NEW k \in 1 .. Len(h.sent), \A j \in 1 .. k - 1 : h.sent[j].op # "endless",
           h.sent[k].op # "endless", NEW e, NEW w, Unread(h, e, w, h.from[k + 1]), e.state = "kNewCommand", e.keys = <<>>,
           ~e.noreply, NEW a, e.connected => Len(a) = h.owed[k + 1]
    PROVE  Following(h, e, w, d, a, h.from[k + 1], k + 1)
<1>1. k \in Nat /\ k + 1 \in 1 .. Len(h.sent) + 1 /\ h.from[k + 1] \in Nat
  BY CommandKnown
<1>2. \A j \in 1 .. k + 1 - 1 : h.sent[j].op # "endless"
  BY <1>1
<1>3. BeforeCommand(h, e, a, h.from[k + 1], k + 1)
  BY DEF BeforeCommand
<1> QED
  BY <1>1, <1>2, <1>3 DEF Following, Placed

LEMMA FollowingParts ==
    ASSUME NEW h, NEW c \in SessionStates, NEW w, NEW d, NEW a, NEW p, NEW k, Following(h, c, w, d, a, p, k)
    PROVE  /\ Recorded(h, d) /\ p \in Nat /\ k \in 1 .. Len(h.sent) + 1 /\ Unread(h, c, w, p)
           /\ h.stream \in Seq(StreamUnits) /\ c.buf \in Seq(StreamUnits) /\ h.from[k] \in Nat /\ h.owed[k] \in Nat
           /\ \A j \in 1 .. k - 1 : h.sent[j].op # "endless"
           /\ c.state = "kNewCommand" => BeforeCommand(h, c, a, p, k) \/ BeforeErrorLine(h, d, c, a, p, k)
           /\ c.state = "kReceiveValue" => InValue(h, c, a, p, k)
           /\ c.state = "kDiscardValue" => InDiscarded(h, c, a, p, k)
           /\ c.keys # <<>> => BeforeCommand(h, c, a, p, k)
<1>1. c.buf \in Seq(StreamUnits)
  BY FieldsOf
<1>2. Placed(h, d, c, a, p, k)
  BY DEF Following
<1>3. h.from[k] \in Nat /\ h.owed[k] \in Nat
  BY DEF Following, Recorded
<1> QED
  BY <1>1, <1>2, <1>3 DEF Following, Recorded, Placed, BeforeCommand, BeforeErrorLine, InValue, InDiscarded

\* Behind the line of a command whose value is longer than the line says, or
\* whose line is no good: the value is read as a line.
LEMMA ErrorLineNext ==
    ASSUME NEW h, NEW d, Recorded(h, d), NEW k \in 1 .. Len(h.sent), \A j \in 1 .. k - 1 : h.sent[j].op # "endless",
           h.sent[k].op \in Updates \cup {"malformed"}, NEW q \in Nat, h.from[k] + 2 <= q, q < h.from[k + 1],
           NEW e, NEW w, Unread(h, e, w, q), e.state = "kNewCommand", e.keys = <<>>, ~e.noreply,
           h.owed[k + 1] >= 1, d[h.owed[k + 1]] = {"ERROR"}, NEW a, e.connected => Len(a) = h.owed[k + 1] - 1
    PROVE  Following(h, e, w, d, a, q, k)
<1>1. PICK r : r = h.sent[k]
  OBVIOUS
<1>2. r \in SentCommands /\ CommandAt(h, d, k) /\ h.from[k] \in Nat /\ h.from[k + 1] \in Nat /\ k \in 1 .. Len(h.sent) + 1
  BY <1>1, CommandKnown
<1>3. PICK f \in Nat : f = h.from[k]
  BY <1>2
<1>4. PICK m \in Nat : m = Len(r.data)
  BY <1>1, <1>2, UnitsAre
<1>5. Len(Units(r)) = m + 3 /\ Units(r)[m + 3] = EOL /\ \A i \in 3 .. m + 2 : Units(r)[i] = Byte
  BY <1>1, <1>2, <1>4, UnitsAre
<1>6. h.from[k + 1] = f + (m + 3) /\ \A j \in 1 .. m + 3 : h.stream[f + j] = Units(r)[j]
  BY <1>1, <1>2, <1>3, <1>5 DEF CommandAt
<1>7. h.stream[f + (m + 3)] = EOL
  <2>1. m + 3 \in 1 .. m + 3
    OBVIOUS
  <2> QED
    BY <1>5, <1>6, <2>1
<1>8. ASSUME NEW i \in q + 1 .. f + (m + 3) - 1 PROVE h.stream[i] = Byte
  <2>1. PICK j \in 3 .. m + 2 : f + j = i
    <3>1. f + 2 <= q /\ i \in q + 1 .. f + (m + 3) - 1
      BY <1>3, <1>8
    <3>2. q \in Nat /\ f \in Nat /\ m \in Nat
      BY <1>3, <1>4
    <3>3. i - f \in 3 .. m + 2 /\ f + (i - f) = i
      BY <3>1, <3>2
    <3> QED
      BY <3>3
  <2>2. j \in 1 .. m + 3
    BY <2>1
  <2> QED
    BY <1>5, <1>6, <2>1, <2>2
<1>9. r.op # "endless"
  BY <1>1 DEF Updates
<1>10. k <= Len(h.sent)
  OBVIOUS
<1>11. BeforeErrorLine(h, d, e, a, q, k)
  BY <1>1, <1>6, <1>7, <1>8, <1>9, <1>10 DEF BeforeErrorLine
<1> QED
  BY <1>2, <1>11 DEF Following, Placed

-----------------------------------------------------------------------------
(* A session reads on in its stream, step by step                          *)

\* The lines that are answered at once.
LEMMA LineStream ==
    ASSUME NEW c \in SessionStates, NEW w \in Seq(StreamUnits), NEW d, NEW a, StreamOK(c, w, d, a),
           c.busy, c.keys = <<>>, c.state = "kNewCommand", Crlf(c) > 0, NEW r, r = Parsed(c),
           r.op \notin Updates \cup {"get", "gets"},
           NEW e, e.buf = Behind(c), e.state = "kNewCommand", ~e.noreply, e.keys = <<>>, e.busy,
           e.connected => c.connected, r.op \in {"quit", "shutdown"} => ~e.connected,
           NEW msg, r.op = "delete" => msg \in {"DELETED", "NOT_FOUND"}, r.op = "version" => msg = "VERSION",
           r.op = "malformed" => msg = "CLIENT_ERROR", r.op \in {"unknown", "empty"} => msg = "ERROR",
           NEW x, x = IF r.op \in {"quit", "shutdown"} THEN a
                      ELSE Sends(c.connected, a, IF c.noreply \/ r.noreply THEN <<>> ELSE <<msg>>)
    PROVE  StreamOK(e, w, d, x)
<1>1. PICK h, p, k : Following(h, c, w, d, a, p, k)
  BY DEF StreamOK
<1>2. /\ Recorded(h, d) /\ p \in Nat /\ k \in 1 .. Len(h.sent) + 1 /\ Unread(h, c, w, p)
      /\ h.stream \in Seq(StreamUnits) /\ c.buf \in Seq(StreamUnits)
      /\ \A j \in 1 .. k - 1 : h.sent[j].op # "endless"
      /\ BeforeCommand(h, c, a, p, k) \/ BeforeErrorLine(h, d, c, a, p, k)
  BY <1>1, FollowingParts
<1>3. Asleep(e) /\ Answered(a, d)
  BY DEF Asleep, StreamOK
<1>4. Unread(h, e, w, p + Crlf(c))
  <2>1. PICK n : n = Crlf(c)
    OBVIOUS
  <2>2. n \in 0 .. Len(c.buf)
    BY <1>2, <2>1, CrlfFinds
  <2>3. e.buf \in Seq(StreamUnits) /\ Len(e.buf) = Len(c.buf) - n /\ \A i \in 1 .. Len(c.buf) - n : e.buf[i] = c.buf[n + i]
    BY <2>1, LineRead
  <2>4. Unread(h, e, w, p + n)
    BY <1>2, <2>2, <2>3, ReadOn
  <2> QED
    BY <2>1, <2>4
<1>5. SUFFICES ASSUME TRUE PROVE Answered(x, d) /\ \E q, m : Following(h, e, w, d, x, q, m)
  BY <1>3 DEF StreamOK
<1>6. CASE BeforeCommand(h, c, a, p, k)
  <2>1. p = h.from[k] /\ (c.connected => Len(a) = h.owed[k]) /\ ~c.noreply
    BY <1>6 DEF BeforeCommand
  <2>2. k \in 1 .. Len(h.sent) /\ h.sent[k].op # "endless" /\ Crlf(c) = 2 /\ r = h.sent[k]
    BY <1>2, <2>1, LineAt
  <2>3. r \in SentCommands /\ CommandAt(h, d, k) /\ h.from[k] \in Nat /\ h.from[k + 1] \in Nat
    BY <1>2, <2>2, CommandKnown
  <2>4. Unread(h, e, w, p + 2)
    BY <1>4, <2>2
  <2>5. r.op \in {"quit", "shutdown", "version", "delete", "malformed", "unknown", "empty"}
    BY <2>2, <2>3 DEF SentCommands, ClientCommands, Keyed
  <2>6. CASE r.op \in {"quit", "shutdown"}
    <3>1. x = a /\ ~e.connected
      BY <2>6
    <3>2. h.from[k + 1] = p + 2
      <4>1. r.op \notin Updates \cup {"malformed", "endless"}
        BY <2>6 DEF Updates
      <4>2. Len(Units(r)) = 2
        BY <2>3, <4>1, UnitsAre
      <4>3. h.from[k + 1] = h.from[k] + Len(Units(r))
        BY <2>2, <2>3 DEF CommandAt
      <4> QED
        BY <2>1, <4>2, <4>3
    <3>3. Unread(h, e, w, h.from[k + 1])
      BY <2>4, <3>2
    <3>4. Following(h, e, w, d, a, h.from[k + 1], k + 1)
      BY <1>2, <2>2, <3>1, <3>3, CommandOver
    <3> QED
      BY <1>3, <3>1, <3>4
  <2>7. x = Sends(c.connected, a, IF h.sent[k].noreply THEN <<>> ELSE <<msg>>) \/ r.op \in {"quit", "shutdown"}
    BY <2>1, <2>2
  <2>8. CASE r.op = "malformed"
    <3>1. msg = "CLIENT_ERROR" /\ r.op \notin {"quit", "shutdown"}
      BY <2>8
    <3>2. ErrorFollows(h.sent[k])
      BY <2>2, <2>3, <2>8, DueIs
    <3>3. x = Sends(c.connected, a, IF h.sent[k].noreply THEN <<>> ELSE <<"CLIENT_ERROR">>)
      BY <2>7, <3>1
    <3>4. /\ Answered(x, d) /\ (c.connected => Len(x) = h.owed[k + 1] - 1)
          /\ h.owed[k + 1] >= 1 /\ d[h.owed[k + 1]] = {"ERROR"}
      <4>1. ErrorReplied(h, d, k, c, a, x)
        BY <1>2, <1>3, <2>1, <2>2, <3>2, <3>3 DEF ErrorReplied
      <4> QED
        BY <4>1, ErrorReplySent, SMTT(30)
    <3>5. p + 2 \in Nat /\ h.from[k] + 2 <= p + 2 /\ p + 2 < h.from[k + 1]
      <4>0. r.op \in Updates \cup {"malformed"}
        BY <2>8
      <4>1. PICK m \in Nat : m = Len(r.data)
        <5>1. Len(r.data) \in Nat
          BY <2>3, <4>0, UnitsAre
        <5> QED
          BY <5>1
      <4>2. Len(Units(r)) = m + 3
        BY <2>3, <4>0, <4>1, UnitsAre
      <4>3. h.from[k + 1] = p + (m + 3)
        BY <2>1, <2>2, <2>3, <4>2 DEF CommandAt
      <4>4. p + 2 \in Nat /\ p + 2 <= p + 2 /\ p + 2 < p + (m + 3)
        BY <1>2, <4>1
      <4> QED
        BY <2>1, <4>3, <4>4
    <3>6. h.sent[k].op \in Updates \cup {"malformed"}
      BY <2>2, <2>8
    <3>7. Following(h, e, w, d, x, p + 2, k)
      BY <1>2, <2>2, <2>4, <3>4, <3>5, <3>6, ErrorLineNext
    <3> QED
      BY <3>4, <3>7
  <2>9. CASE r.op \in {"version", "delete", "unknown", "empty"}
    <3>1. PICK A : A = IF r.op = "version" THEN {"VERSION"} ELSE IF r.op = "delete" THEN {"DELETED", "NOT_FOUND"} ELSE {"ERROR"}
      OBVIOUS
    <3>2. OneAnswer(h.sent[k], A)
      BY <2>2, <2>3, <2>9, <3>1, DueIs
    <3>3. A \in SUBSET AnswerTexts /\ msg \in A
      BY <2>9, <3>1 DEF AnswerTexts
    <3>4. x = Sends(c.connected, a, IF h.sent[k].noreply THEN <<>> ELSE <<msg>>)
      BY <2>7, <2>9
    <3>5. Answered(x, d) /\ (c.connected => Len(x) = h.owed[k + 1])
      <4>1. ReplyGiven(h, d, k, c, a, A, msg, x)
        BY <1>2, <1>3, <2>1, <2>2, <3>2, <3>3, <3>4 DEF ReplyGiven
      <4> QED
        BY <4>1, ReplySent, SMTT(30)
    <3>6. h.from[k + 1] = p + 2
      <4>1. r.op \notin Updates \cup {"malformed", "endless"}
        BY <2>9 DEF Updates
      <4>2. Len(Units(r)) = 2
        BY <2>3, <4>1, UnitsAre
      <4>3. h.from[k + 1] = h.from[k] + Len(Units(r))
        BY <2>2, <2>3 DEF CommandAt
      <4> QED
        BY <2>1, <4>2, <4>3
    <3>7. Unread(h, e, w, h.from[k + 1])
      BY <2>4, <3>6
    <3>8. Following(h, e, w, d, x, h.from[k + 1], k + 1)
      BY <1>2, <2>2, <3>5, <3>7, CommandOver
    <3> QED
      BY <3>5, <3>8
  <2> QED
    BY <2>5, <2>6, <2>8, <2>9
<1>7. CASE BeforeErrorLine(h, d, c, a, p, k)
  <2>1. /\ k \in 1 .. Len(h.sent) /\ ~c.noreply /\ h.sent[k].op # "endless"
        /\ h.owed[k + 1] >= 1 /\ d[h.owed[k + 1]] = {"ERROR"} /\ (c.connected => Len(a) = h.owed[k + 1] - 1)
    BY <1>2, <1>7 DEF BeforeErrorLine, Recorded
  <2>2. p + Crlf(c) = h.from[k + 1] /\ r.op \in {"unknown", "empty"} /\ ~r.noreply
    BY <1>2, <1>7, <2>1, ErrorLineAt
  <2>3. x = Sends(c.connected, a, <<"ERROR">>)
    BY <2>1, <2>2
  <2>4. c.connected => Len(a) + 1 = h.owed[k + 1] /\ Len(a) + 1 <= Len(d) /\ "ERROR" \in d[Len(a) + 1]
    <3>1. PICK m \in Nat : m = h.owed[k + 1]
      BY <1>2, <2>1, CommandKnown
    <3>2. PICK n \in Nat : n = Len(d)
      BY <1>3 DEF Answered
    <3>3. m <= n
      BY <1>2, <2>1, <3>1, <3>2, CommandKnown
    <3>4. c.connected => Len(a) = m - 1
      BY <2>1, <3>1
    <3>5. "ERROR" \in d[m] /\ (m - 1) + 1 = m
      BY <2>1, <3>1
    <3> QED
      BY <3>1, <3>2, <3>3, <3>4, <3>5
  <2>5. "ERROR" \in AnswerTexts
    BY DEF AnswerTexts
  <2>6. Answered(x, d) /\ (c.connected => Len(x) = Len(a) + 1)
    BY <1>3, <2>3, <2>4, <2>5, AnswerSent
  <2>7. Unread(h, e, w, h.from[k + 1])
    BY <1>4, <2>2
  <2>8. Following(h, e, w, d, x, h.from[k + 1], k + 1)
    BY <1>2, <2>1, <2>4, <2>6, <2>7, CommandOver
  <2> QED
    BY <2>6, <2>8
<1> QED
  BY <1>2, <1>6, <1>7

\* A line that is answered at once, in the buffer of c: e and x are the session
\* and the answers behind it.
LineReplied(c, r, e, msg, a, x) ==
    /\ c.busy /\ c.keys = <<>> /\ c.state = "kNewCommand" /\ Crlf(c) > 0 /\ r = Parsed(c)
    /\ r.op \notin Updates \cup {"get", "gets"}
    /\ e.buf = Behind(c) /\ e.state = "kNewCommand" /\ ~e.noreply /\ e.keys = <<>> /\ e.busy
    /\ (e.connected => c.connected) /\ (r.op \in {"quit", "shutdown"} => ~e.connected)
    /\ (r.op = "delete" => msg \in {"DELETED", "NOT_FOUND"}) /\ (r.op = "version" => msg = "VERSION")
    /\ (r.op = "malformed" => msg = "CLIENT_ERROR") /\ (r.op \in {"unknown", "empty"} => msg = "ERROR")
    /\ x = IF r.op \in {"quit", "shutdown"} THEN a
           ELSE Sends(c.connected, a, IF c.noreply \/ r.noreply THEN <<>> ELSE <<msg>>)

LEMMA LineRepliedStream ==
    ASSUME NEW c \in SessionStates, NEW w \in Seq(StreamUnits), NEW d, NEW a, StreamOK(c, w, d, a),
           NEW r, NEW e, NEW msg, NEW x, LineReplied(c, r, e, msg, a, x)
    PROVE  StreamOK(e, w, d, x)
  BY LineStream DEF LineReplied

\* An update whose value is to follow is only ever a command that was sent.
LEMMA UpdateAt ==
    ASSUME NEW c \in SessionStates, NEW w \in Seq(StreamUnits), NEW d, NEW a, StreamOK(c, w, d, a),
           c.keys = <<>>, c.state = "kNewCommand", Crlf(c) > 0, Parsed(c).op \notin {"unknown", "empty"}
    PROVE  \E h, p, k : /\ Following(h, c, w, d, a, p, k) /\ BeforeCommand(h, c, a, p, k)
                        /\ k \in 1 .. Len(h.sent) /\ h.sent[k] = Parsed(c) /\ h.sent[k].op # "endless" /\ Crlf(c) = 2
<1>1. PICK h, p, k : Following(h, c, w, d, a, p, k)
  BY DEF StreamOK
<1>2. /\ Recorded(h, d) /\ p \in Nat /\ k \in 1 .. Len(h.sent) + 1 /\ Unread(h, c, w, p)
      /\ BeforeCommand(h, c, a, p, k) \/ BeforeErrorLine(h, d, c, a, p, k)
  BY <1>1, FollowingParts
<1>3. BeforeCommand(h, c, a, p, k)
  <2>1. SUFFICES ASSUME BeforeErrorLine(h, d, c, a, p, k) PROVE FALSE
    BY <1>2
  <2>2. k \in 1 .. Len(h.sent)
    BY <1>2, <2>1 DEF BeforeErrorLine, Recorded
  <2> QED
    BY <1>2, <2>1, <2>2, ErrorLineAt
<1>4. p = h.from[k]
  BY <1>3 DEF BeforeCommand
<1>5. k \in 1 .. Len(h.sent) /\ h.sent[k] = Parsed(c) /\ h.sent[k].op # "endless" /\ Crlf(c) = 2
  BY <1>2, <1>4, LineAt
<1> QED
  BY <1>1, <1>3, <1>5

LEMMA LineTakenStream ==
    ASSUME NEW h, NEW c \in SessionStates, NEW w \in Seq(StreamUnits), NEW d, NEW a, NEW p, NEW k,
           Following(h, c, w, d, a, p, k), Crlf(c) = 2, NEW e, e.buf = Behind(c)
    PROVE  Unread(h, e, w, p + 2) /\ p + 2 \in Nat
<1>1. Unread(h, c, w, p) /\ h.stream \in Seq(StreamUnits) /\ c.buf \in Seq(StreamUnits) /\ p \in Nat
  BY FollowingParts
<1>2. PICK n : n = Crlf(c)
  OBVIOUS
<1>3. n \in 0 .. Len(c.buf)
  BY <1>1, <1>2, CrlfFinds
<1>4. e.buf \in Seq(StreamUnits) /\ Len(e.buf) = Len(c.buf) - n /\ \A i \in 1 .. Len(c.buf) - n : e.buf[i] = c.buf[n + i]
  BY <1>2, LineRead
<1>5. Unread(h, e, w, p + n) /\ p + n \in Nat
  BY <1>1, <1>3, <1>4, ReadOn, ZenonT(60)
<1> QED
  BY <1>2, <1>5

\* doUpdate of a value that is too long.
LEMMA DiscardStream ==
    ASSUME NEW c \in SessionStates, NEW w \in Seq(StreamUnits), NEW d, NEW a, StreamOK(c, w, d, a),
           c.busy, c.keys = <<>>, c.state = "kNewCommand", Crlf(c) > 0, NEW r, r = Parsed(c),
           r.op \in Updates, r.bytes > MaxValue,
           NEW e, e.buf = Behind(c), e.state = "kDiscardValue", e.keys = <<>>, e.busy, e.connected = c.connected,
           e.bytesToDiscard = r.bytes + 1,
           NEW x, x = Sends(c.connected, a, IF c.noreply \/ r.noreply THEN <<>> ELSE <<"SERVER_ERROR">>)
    PROVE  StreamOK(e, w, d, x)
<1>1. r.op \notin {"unknown", "empty"}
  BY DEF Updates
<1>2. PICK h, p, k : /\ Following(h, c, w, d, a, p, k) /\ BeforeCommand(h, c, a, p, k)
                     /\ k \in 1 .. Len(h.sent) /\ h.sent[k] = r /\ h.sent[k].op # "endless" /\ Crlf(c) = 2
  BY <1>1, UpdateAt
<1>3. /\ Recorded(h, d) /\ k \in 1 .. Len(h.sent) + 1 /\ p \in Nat
      /\ \A j \in 1 .. k - 1 : h.sent[j].op # "endless"
  BY <1>2, FollowingParts
<1>4. p = h.from[k] /\ (c.connected => Len(a) = h.owed[k]) /\ ~c.noreply
  BY <1>2 DEF BeforeCommand
<1>5. r \in SentCommands /\ CommandAt(h, d, k) /\ h.from[k + 1] \in Nat /\ h.owed[k] \in Nat
  BY <1>2, <1>3, CommandKnown
<1>6. Asleep(e) /\ Answered(a, d)
  BY DEF Asleep, StreamOK
<1>7. Unread(h, e, w, p + 2) /\ p + 2 \in Nat
  BY <1>2, LineTakenStream
<1>8. PICK A : A = {"SERVER_ERROR"}
  OBVIOUS
<1>a. PICK msg : msg = "SERVER_ERROR"
  OBVIOUS
<1>b. OneAnswer(h.sent[k], A)
  BY <1>2, <1>5, <1>8, DueIs
<1>9. A \in SUBSET AnswerTexts /\ msg \in A
  BY <1>8, <1>a DEF AnswerTexts
<1>10. x = Sends(c.connected, a, IF h.sent[k].noreply THEN <<>> ELSE <<msg>>)
  BY <1>2, <1>4, <1>a
<1>11. Answered(x, d) /\ (c.connected => Len(x) = h.owed[k + 1])
  <2>1. ReplyGiven(h, d, k, c, a, A, msg, x)
    BY <1>2, <1>3, <1>4, <1>6, <1>b, <1>9, <1>10 DEF ReplyGiven
  <2> QED
    BY <2>1, ReplySent, SMTT(30)
<1>12. e.bytesToDiscard >= 1 /\ p + 2 + e.bytesToDiscard = h.from[k + 1]
  <2>1. r.op \in Updates \cup {"malformed"}
    OBVIOUS
  <2>2. PICK m \in Nat : m = Len(r.data)
    <3>1. Len(r.data) \in Nat
      BY <1>5, <2>1, UnitsAre
    <3> QED
      BY <3>1
  <2>3. r.bytes = m
    BY <1>5, <2>2, UnitKinds DEF WellFormed
  <2>4. Len(Units(r)) = m + 3
    BY <1>5, <2>1, <2>2, UnitsAre
  <2>5. h.from[k + 1] = p + (m + 3)
    BY <1>2, <1>4, <1>5, <2>4 DEF CommandAt
  <2>6. m + 1 >= 1 /\ p + 2 + (m + 1) = p + (m + 3)
    <3>1. p \in Nat /\ m \in Nat
      BY <1>3, <2>2
    <3> QED
      BY <3>1
  <2> QED
    BY <2>3, <2>5, <2>6
<1>13. InDiscarded(h, e, x, p + 2, k)
  BY <1>2, <1>11, <1>12 DEF InDiscarded
<1>14. Following(h, e, w, d, x, p + 2, k)
  BY <1>3, <1>7, <1>13 DEF Following, Placed
<1> QED
  BY <1>6, <1>11, <1>14 DEF StreamOK

\* The same, its hypotheses in one.
DiscardBegins(c, r, e, a, x) ==
    /\ c.busy /\ c.keys = <<>> /\ c.state = "kNewCommand" /\ Crlf(c) > 0 /\ r = Parsed(c)
    /\ r.op \in Updates /\ r.bytes > MaxValue
    /\ e.buf = Behind(c) /\ e.state = "kDiscardValue" /\ e.keys = <<>> /\ e.busy /\ e.connected = c.connected
    /\ e.bytesToDiscard = r.bytes + 1
    /\ x = Sends(c.connected, a, IF c.noreply \/ r.noreply THEN <<>> ELSE <<"SERVER_ERROR">>)

LEMMA DiscardBeginsStream ==
    ASSUME NEW c \in SessionStates, NEW w \in Seq(StreamUnits), NEW d, NEW a, StreamOK(c, w, d, a),
           NEW r, NEW e, NEW x, DiscardBegins(c, r, e, a, x)
    PROVE  StreamOK(e, w, d, x)
  BY DiscardStream DEF DiscardBegins

\* doUpdate of a value that is read.
LEMMA ReceiveStream ==
    ASSUME NEW c \in SessionStates, NEW w \in Seq(StreamUnits), NEW d, NEW a, StreamOK(c, w, d, a),
           c.busy, c.keys = <<>>, c.state = "kNewCommand", Crlf(c) > 0, NEW r, r = Parsed(c),
           r.op \in Updates, ~(r.bytes > MaxValue),
           NEW e, e.buf = Behind(c), e.state = "kReceiveValue", e.keys = <<>>, e.busy, e.connected = c.connected,
           e.noreply = (c.noreply \/ r.noreply), e.policy = r.op, e.currItem.value = <<>>, e.needed = r.bytes + 1
    PROVE  StreamOK(e, w, d, a)
<1>1. r.op \notin {"unknown", "empty"}
  BY DEF Updates
<1>2. PICK h, p, k : /\ Following(h, c, w, d, a, p, k) /\ BeforeCommand(h, c, a, p, k)
                     /\ k \in 1 .. Len(h.sent) /\ h.sent[k] = r /\ h.sent[k].op # "endless" /\ Crlf(c) = 2
  BY <1>1, UpdateAt
<1>3. /\ Recorded(h, d) /\ k \in 1 .. Len(h.sent) + 1 /\ p \in Nat
      /\ \A j \in 1 .. k - 1 : h.sent[j].op # "endless"
  BY <1>2, FollowingParts
<1>4. p = h.from[k] /\ (c.connected => Len(a) = h.owed[k]) /\ ~c.noreply
  BY <1>2 DEF BeforeCommand
<1>5. r \in SentCommands
  BY <1>2, <1>3, CommandKnown
<1>6. Asleep(e) /\ Answered(a, d)
  BY DEF Asleep, StreamOK
<1>7. Unread(h, e, w, p + 2) /\ p + 2 \in Nat
  BY <1>2, LineTakenStream
<1>8. r.bytes \in Nat /\ r.bytes <= MaxValue
  BY <1>5, MemcachedAssumption DEF SentCommands, ClientCommands
<1>9. e.noreply <=> r.noreply
  BY <1>4
<1>10. p + 2 = h.from[k] + 2 + Len(e.currItem.value) /\ Len(e.currItem.value) + e.needed = r.bytes + 1
  <2>1. Len(e.currItem.value) = 0
    OBVIOUS
  <2>2. p + 2 = p + 2 + 0 /\ 0 + (r.bytes + 1) = r.bytes + 1
    BY <1>3, <1>8
  <2> QED
    BY <1>4, <2>1, <2>2
<1>11. InValue(h, e, a, p + 2, k)
  BY <1>2, <1>4, <1>8, <1>9, <1>10 DEF InValue
<1>12. Following(h, e, w, d, a, p + 2, k)
  BY <1>3, <1>7, <1>11 DEF Following, Placed
<1> QED
  BY <1>6, <1>12 DEF StreamOK

\* processRequest of a get: the line stays in the buffer until the keys are gone.
LEMMA GetStream ==
    ASSUME NEW c \in SessionStates, NEW w \in Seq(StreamUnits), NEW d, NEW a, StreamOK(c, w, d, a),
           c.busy, c.keys = <<>>, c.state = "kNewCommand", Crlf(c) > 0, Parsed(c).op \in {"get", "gets"},
           NEW e, e.buf = c.buf, e.state = "kNewCommand", e.keys # <<>>, e.busy, e.connected = c.connected
    PROVE  StreamOK(e, w, d, a)
<1>1. PICK h, p, k : /\ Following(h, c, w, d, a, p, k) /\ BeforeCommand(h, c, a, p, k)
                     /\ k \in 1 .. Len(h.sent) /\ h.sent[k] = Parsed(c) /\ h.sent[k].op # "endless" /\ Crlf(c) = 2
  BY UpdateAt
<1>2. /\ Recorded(h, d) /\ k \in 1 .. Len(h.sent) + 1 /\ p \in Nat /\ Unread(h, c, w, p)
      /\ \A j \in 1 .. k - 1 : h.sent[j].op # "endless"
  BY <1>1, FollowingParts
<1>3. Asleep(e) /\ Answered(a, d)
  BY DEF Asleep, StreamOK
<1>4. Unread(h, e, w, p)
  BY <1>2 DEF Unread
<1>5. Crlf(e) = Crlf(c)
  BY DEF Crlf
<1>6. BeforeCommand(h, e, a, p, k)
  BY <1>1, <1>5 DEF BeforeCommand
<1>7. Following(h, e, w, d, a, p, k)
  BY <1>2, <1>4, <1>6 DEF Following, Placed
<1> QED
  BY <1>3, <1>7 DEF StreamOK

\* One key of a get, not the last.
LEMMA KeyStream ==
    ASSUME NEW c \in SessionStates, NEW w \in Seq(StreamUnits), NEW d, NEW a, StreamOK(c, w, d, a),
           c.busy, c.keys # <<>>,
           NEW e, e.buf = c.buf, e.state = c.state, e.keys # <<>>, e.busy, e.connected = c.connected
    PROVE  StreamOK(e, w, d, a)
<1>1. PICK h, p, k : Following(h, c, w, d, a, p, k)
  BY DEF StreamOK
<1>2. /\ Recorded(h, d) /\ k \in 1 .. Len(h.sent) + 1 /\ p \in Nat /\ Unread(h, c, w, p)
      /\ BeforeCommand(h, c, a, p, k) /\ \A j \in 1 .. k - 1 : h.sent[j].op # "endless"
  BY <1>1, FollowingParts
<1>3. Asleep(e) /\ Answered(a, d)
  BY DEF Asleep, StreamOK
<1>4. Unread(h, e, w, p)
  BY <1>2 DEF Unread
<1>5. Crlf(e) = Crlf(c)
  BY DEF Crlf
<1>6. BeforeCommand(h, e, a, p, k)
  BY <1>2, <1>5 DEF BeforeCommand
<1>7. Following(h, e, w, d, a, p, k)
  BY <1>2, <1>4, <1>6 DEF Following, Placed
<1> QED
  BY <1>3, <1>7 DEF StreamOK

\* The last key of a get.
LEMMA LastKeyStream ==
    ASSUME NEW c \in SessionStates, NEW w \in Seq(StreamUnits), NEW d, NEW a, StreamOK(c, w, d, a),
           c.busy, c.keys # <<>>,
           NEW e, e.buf = Behind(c), e.state = c.state, e.keys = <<>>, e.busy, e.connected = c.connected, ~e.noreply,
           NEW x, x = Sends(c.connected, a, <<"END">>)
    PROVE  StreamOK(e, w, d, x) /\ c.state = "kNewCommand"
<1>1. PICK h, p, k : Following(h, c, w, d, a, p, k)
  BY DEF StreamOK
<1>2. /\ Recorded(h, d) /\ k \in 1 .. Len(h.sent) + 1 /\ p \in Nat /\ Unread(h, c, w, p)
      /\ BeforeCommand(h, c, a, p, k) /\ \A j \in 1 .. k - 1 : h.sent[j].op # "endless"
  BY <1>1, FollowingParts
<1>3. Asleep(e) /\ Answered(a, d)
  BY DEF Asleep, StreamOK
<1>4. /\ p = h.from[k] /\ c.state = "kNewCommand" /\ (c.connected => Len(a) = h.owed[k])
      /\ h.sent[k].op \in {"get", "gets"} /\ Crlf(c) > 0
  BY <1>2 DEF BeforeCommand
<1>5. k \in 1 .. Len(h.sent) /\ h.sent[k].op # "endless" /\ Crlf(c) = 2
  BY <1>2, <1>4, LineAt
<1>6. PICK r : r = h.sent[k]
  OBVIOUS
<1>7. r \in SentCommands /\ CommandAt(h, d, k) /\ h.owed[k] \in Nat /\ h.owed[k + 1] \in Nat /\ h.owed[k + 1] <= Len(d)
  BY <1>2, <1>5, <1>6, CommandKnown
<1>8. Unread(h, e, w, p + 2) /\ p + 2 \in Nat
  BY <1>1, <1>5, LineTakenStream
<1>9. Len(Due(r)) = 1 /\ Due(r)[1] = {"END"}
  BY <1>4, <1>6, <1>7, DueIs
<1>10. h.owed[k + 1] = h.owed[k] + 1 /\ d[h.owed[k] + 1] = {"END"}
  BY <1>6, <1>7, <1>9 DEF CommandAt
<1>11. c.connected => Len(a) + 1 = h.owed[k + 1] /\ Len(a) + 1 <= Len(d) /\ "END" \in d[Len(a) + 1]
  <2>1. PICK m \in Nat : m = h.owed[k]
    BY <1>7
  <2>2. c.connected => Len(a) = m
    BY <1>4, <2>1
  <2>3. m + 1 = h.owed[k + 1] /\ m + 1 <= Len(d) /\ "END" \in d[m + 1]
    BY <1>7, <1>10, <2>1
  <2> QED
    BY <2>2, <2>3
<1>12. "END" \in AnswerTexts
  BY DEF AnswerTexts
<1>13. Answered(x, d) /\ (c.connected => Len(x) = Len(a) + 1)
  BY <1>3, <1>11, <1>12, AnswerSent
<1>14. h.from[k + 1] = p + 2
  <2>1. r.op \notin Updates \cup {"malformed", "endless"}
    BY <1>4, <1>6 DEF Updates
  <2>2. Len(Units(r)) = 2
    BY <1>7, <2>1, UnitsAre
  <2> QED
    BY <1>4, <1>6, <1>7, <2>2 DEF CommandAt
<1>15. Unread(h, e, w, h.from[k + 1])
  BY <1>8, <1>14
<1>16. Following(h, e, w, d, x, h.from[k + 1], k + 1)
  BY <1>2, <1>4, <1>5, <1>11, <1>13, <1>15, CommandOver
<1> QED
  BY <1>3, <1>4, <1>13, <1>16 DEF StreamOK

\* The units that receiveValue and discardValue take.
LEMMA UnitsTakenStream ==
    ASSUME NEW h, NEW c \in SessionStates, NEW w \in Seq(StreamUnits), NEW d, NEW a, NEW p, NEW k,
           Following(h, c, w, d, a, p, k), NEW n \in 0 .. Len(c.buf), NEW e, e.buf = SubSeq(c.buf, n + 1, Len(c.buf))
    PROVE  Unread(h, e, w, p + n) /\ p + n \in Nat
<1>1. Unread(h, c, w, p) /\ h.stream \in Seq(StreamUnits) /\ c.buf \in Seq(StreamUnits) /\ p \in Nat
  BY FollowingParts
<1>2. e.buf \in Seq(StreamUnits) /\ Len(e.buf) = Len(c.buf) - n /\ \A i \in 1 .. Len(c.buf) - n : e.buf[i] = c.buf[n + i]
  BY <1>1, UnitsTaken
<1> QED
  BY <1>1, <1>2, ReadOn

\* receiveValue with more of the value to come.
LEMMA ValueStream ==
    ASSUME NEW c \in SessionStates, NEW w \in Seq(StreamUnits), NEW d, NEW a, StreamOK(c, w, d, a),
           c.state = "kReceiveValue", Len(c.currItem.value) \in Nat, c.needed \in Nat, NEW n \in 0 .. Len(c.buf),
           n <= c.needed, NEW e, e.buf = SubSeq(c.buf, n + 1, Len(c.buf)), e.state = c.state, e.keys = c.keys, e.busy,
           e.connected = c.connected, e.policy = c.policy, e.noreply = c.noreply, e.needed = c.needed - n,
           Len(e.currItem.value) = Len(c.currItem.value) + n
    PROVE  StreamOK(e, w, d, a)
<1>1. PICK h, p, k : Following(h, c, w, d, a, p, k)
  BY DEF StreamOK
<1>2. /\ Recorded(h, d) /\ k \in 1 .. Len(h.sent) + 1 /\ p \in Nat /\ InValue(h, c, a, p, k)
      /\ \A j \in 1 .. k - 1 : h.sent[j].op # "endless"
  BY <1>1, FollowingParts
<1>3. Asleep(e) /\ Answered(a, d)
  BY DEF Asleep, StreamOK
<1>4. Unread(h, e, w, p + n) /\ p + n \in Nat
  BY <1>1, UnitsTakenStream
<1>5. PICK v \in Nat : v = Len(c.currItem.value)
  OBVIOUS
<1>6. PICK f \in Nat : f = h.from[k]
  BY <1>2 DEF Recorded
<1>7. PICK m : m = h.sent[k].bytes
  OBVIOUS
<1>8. PICK nd \in Nat : nd = c.needed
  OBVIOUS
<1>9. p = f + 2 + v /\ v + nd = m + 1
  BY <1>2, <1>5, <1>6, <1>7, <1>8 DEF InValue
<1>10. n \in Nat
  <2>1. c.buf \in Seq(StreamUnits)
    BY FieldsOf
  <2>2. PICK lb \in Nat : lb = Len(c.buf)
    BY <2>1
  <2> QED
    BY <2>2
<1>11. p + n = f + 2 + (v + n) /\ (v + n) + (nd - n) = v + nd
  <2>1. p \in Nat /\ v \in Nat /\ f \in Nat /\ nd \in Nat /\ n \in Nat /\ p = f + 2 + v
    BY <1>2, <1>5, <1>6, <1>8, <1>9, <1>10
  <2> QED
    BY <2>1
<1>12. p + n = h.from[k] + 2 + Len(e.currItem.value) /\ Len(e.currItem.value) + e.needed = h.sent[k].bytes + 1
  BY <1>5, <1>6, <1>7, <1>8, <1>9, <1>11
<1>13. InValue(h, e, a, p + n, k)
  BY <1>2, <1>12 DEF InValue
<1>14. Following(h, e, w, d, a, p + n, k)
  BY <1>2, <1>4, <1>13 DEF Following, Placed
<1> QED
  BY <1>3, <1>14 DEF StreamOK

LEMMA Shorter ==
    ASSUME NEW b \in Nat, NEW m \in Nat, b <= m, b # m
    PROVE  b + 3 \in 3 .. m + 2
  OBVIOUS

LEMMA ValueEnds ==
    ASSUME NEW p \in Nat, NEW n \in Nat, NEW b \in Nat, NEW f \in Nat, NEW v \in Nat, p = f + 2 + v, v + n = b + 1
    PROVE  p + n = f + (b + 3)
  OBVIOUS

\* receiveValue with all of the value there: it is stored, or its bytes do not
\* end where the line said.
LEMMA ValueOverStream ==
    ASSUME NEW c \in SessionStates, NEW w \in Seq(StreamUnits), NEW d, NEW a, StreamOK(c, w, d, a),
           c.state = "kReceiveValue", Len(c.currItem.value) \in Nat, NEW n \in 1 .. Len(c.buf), n = c.needed,
           NEW e, e.buf = SubSeq(c.buf, n + 1, Len(c.buf)), e.state = "kNewCommand", e.keys = c.keys, e.busy,
           e.connected = c.connected, ~e.noreply,
           NEW msg, c.buf[n] = EOL => msg \in StoredAnswers(c.policy), c.buf[n] # EOL => msg = "CLIENT_ERROR",
           NEW x, x = Sends(c.connected, a, IF c.noreply THEN <<>> ELSE <<msg>>)
    PROVE  StreamOK(e, w, d, x)
<1>1. PICK h, p, k : Following(h, c, w, d, a, p, k)
  BY DEF StreamOK
<1>2. /\ Recorded(h, d) /\ k \in 1 .. Len(h.sent) + 1 /\ p \in Nat /\ InValue(h, c, a, p, k)
      /\ \A j \in 1 .. k - 1 : h.sent[j].op # "endless"
      /\ Unread(h, c, w, p) /\ c.buf \in Seq(StreamUnits)
  BY <1>1, FollowingParts
<1>3. Asleep(e) /\ Answered(a, d)
  BY DEF Asleep, StreamOK
<1>4. n \in Nat /\ n \in 0 .. Len(c.buf)
  <2>0. c.buf \in Seq(StreamUnits)
    BY <1>2
  <2>1. PICK lb \in Nat : lb = Len(c.buf)
    BY <2>0
  <2> QED
    BY <2>1
<1>5. Unread(h, e, w, p + n) /\ p + n \in Nat
  BY <1>1, <1>4, UnitsTakenStream
<1>6. k \in 1 .. Len(h.sent)
  BY <1>2 DEF InValue, Recorded
<1>7. PICK r : r = h.sent[k]
  OBVIOUS
<1>8. r \in SentCommands /\ CommandAt(h, d, k) /\ h.from[k] \in Nat /\ h.from[k + 1] \in Nat
  BY <1>2, <1>6, <1>7, CommandKnown
<1>9. /\ r.op \in Updates /\ r.op \in Updates \cup {"malformed"} /\ r.op # "endless" /\ ~(r.bytes > MaxValue) /\ r.bytes \in Nat
      /\ r.op = c.policy /\ (c.noreply <=> r.noreply) /\ c.keys = <<>> /\ (c.connected => Len(a) = h.owed[k])
  <2>1. r.op \in Updates /\ r.bytes <= MaxValue
    BY <1>2, <1>7 DEF InValue
  <2>2. r.bytes \in Nat /\ MaxValue \in Nat
    BY <1>8, MemcachedAssumption DEF SentCommands, ClientCommands
  <2>3. ~(r.bytes > MaxValue)
    BY <2>1, <2>2
  <2> QED
    BY <1>2, <1>7, <2>1, <2>2, <2>3 DEF InValue, Updates
<1>10. PICK m \in Nat : m = Len(r.data)
  <2>1. Len(r.data) \in Nat
    BY <1>8, <1>9, UnitsAre
  <2> QED
    BY <2>1
<1>11. PICK b \in Nat : b = r.bytes
  BY <1>9
<1>12. b <= m
  BY <1>8, <1>9, <1>10, <1>11, UnitKinds DEF WellFormed
<1>13. Len(Units(r)) = m + 3 /\ Units(r)[m + 3] = EOL /\ \A i \in 3 .. m + 2 : Units(r)[i] = Byte
  BY <1>8, <1>9, <1>10, UnitsAre
<1>14. PICK f \in Nat : f = h.from[k]
  BY <1>8
<1>15. h.from[k + 1] = f + (m + 3) /\ \A j \in 1 .. m + 3 : h.stream[f + j] = Units(r)[j]
  BY <1>7, <1>8, <1>13, <1>14 DEF CommandAt
<1>16. p + n = f + (b + 3)
  <2>1. PICK v \in Nat : v = Len(c.currItem.value)
    OBVIOUS
  <2>2. p = f + 2 + v /\ v + n = b + 1
    BY <1>2, <1>7, <1>11, <1>14, <2>1 DEF InValue
  <2>3. p \in Nat /\ n \in Nat /\ b \in Nat /\ f \in Nat /\ v \in Nat
    BY <1>2, <1>4, <1>11, <1>14, <2>1
  <2>4. PICK q \in Nat : q = p
    BY <2>3
  <2>5. PICK o \in Nat : o = n
    BY <2>3
  <2>6. q = f + 2 + v /\ v + o = b + 1
    BY <2>2, <2>4, <2>5, Zenon
  <2>7. q + o = f + (b + 3)
    BY <2>6, ValueEnds
  <2> QED
    BY <2>4, <2>5, <2>7, Zenon
<1>17. c.buf[n] = Units(r)[b + 3]
  <2>0. Unread(h, c, w, p)
    BY <1>2
  <2>1. c.buf[n] = h.stream[p + n]
    BY <2>0 DEF Unread
  <2>2. b + 3 \in 1 .. m + 3
    BY <1>10, <1>11, <1>12, SMTT(40)
  <2> QED
    BY <1>15, <1>16, <2>1, <2>2
<1>18. SUFFICES ASSUME TRUE PROVE Answered(x, d) /\ \E q, i : Following(h, e, w, d, x, q, i)
  BY <1>3 DEF StreamOK
<1>19. CASE b = m
  <2>1. c.buf[n] = EOL
    BY <1>13, <1>17, <1>19
  <2>2. PICK A : A = StoredAnswers(r.op)
    OBVIOUS
  <2>3. A \in SUBSET AnswerTexts /\ msg \in A
    BY <1>9, <2>1, <2>2 DEF StoredAnswers, AnswerTexts
  <2>4. OneAnswer(h.sent[k], A)
    <3>1. ~(r.bytes < Len(r.data))
      BY <1>10, <1>11, <1>19
    <3> QED
      BY <1>7, <1>8, <1>9, <2>2, <3>1, DueIs
  <2>5. x = Sends(c.connected, a, IF h.sent[k].noreply THEN <<>> ELSE <<msg>>)
    BY <1>7, <1>9
  <2>6. Answered(x, d) /\ (c.connected => Len(x) = h.owed[k + 1])
    <3>1. ReplyGiven(h, d, k, c, a, A, msg, x)
      BY <1>2, <1>3, <1>6, <1>9, <2>3, <2>4, <2>5 DEF ReplyGiven
    <3> QED
      BY <3>1, ReplySent, SMTT(30)
  <2>7. Unread(h, e, w, h.from[k + 1])
    BY <1>5, <1>15, <1>16, <1>19
  <2>8. Following(h, e, w, d, x, h.from[k + 1], k + 1)
    <3>1. /\ Recorded(h, d) /\ k \in 1 .. Len(h.sent) /\ (\A j \in 1 .. k - 1 : h.sent[j].op # "endless")
          /\ h.sent[k].op # "endless" /\ e.keys = <<>> /\ (e.connected => Len(x) = h.owed[k + 1])
      BY <1>2, <1>6, <1>7, <1>9, <2>6
    <3> QED
      BY <2>7, <3>1, CommandOver, Zenon
  <2> QED
    BY <2>6, <2>8
<1>20. CASE b # m
  <2>1. b + 3 \in 3 .. m + 2
    BY <1>10, <1>11, <1>12, <1>20, Shorter, Zenon
  <2>2. c.buf[n] # EOL
    BY <1>13, <1>17, <2>1, UnitKinds
  <2>3. x = Sends(c.connected, a, IF h.sent[k].noreply THEN <<>> ELSE <<"CLIENT_ERROR">>)
    BY <1>7, <1>9, <2>2
  <2>4. ErrorFollows(h.sent[k])
    <3>1. r.bytes < Len(r.data)
      BY <1>10, <1>11, <1>12, <1>20
    <3> QED
      BY <1>7, <1>8, <1>9, <3>1, DueIs
  <2>5. /\ Answered(x, d) /\ (c.connected => Len(x) = h.owed[k + 1] - 1)
        /\ h.owed[k + 1] >= 1 /\ d[h.owed[k + 1]] = {"ERROR"}
    <3>1. Recorded(h, d) /\ Answered(a, d) /\ (c.connected => Len(a) = h.owed[k])
      BY <1>2, <1>3, <1>9
    <3>2. ErrorReplied(h, d, k, c, a, x)
      BY <1>6, <2>3, <2>4, <3>1 DEF ErrorReplied
    <3> QED
      BY <3>2, ErrorReplySent, ZenonT(60)
  <2>6. PICK q \in Nat : q = p + n
    BY <1>5
  <2>7. h.from[k] + 2 <= q /\ q < h.from[k + 1]
    <3>1. f + 2 <= f + (b + 3) /\ f + (b + 3) < f + (m + 3)
      <4>1. f \in Nat /\ b \in Nat /\ m \in Nat /\ b <= m /\ b # m
        BY <1>10, <1>11, <1>12, <1>14, <1>20
      <4> QED
        BY <4>1
    <3> QED
      BY <1>14, <1>15, <1>16, <2>6, <3>1
  <2>8. Unread(h, e, w, q) /\ h.sent[k].op \in Updates \cup {"malformed"}
    BY <1>5, <1>7, <1>9, <2>6
  <2>9. Following(h, e, w, d, x, q, k)
    BY <1>2, <1>6, <1>9, <2>5, <2>7, <2>8, ErrorLineNext
  <2> QED
    BY <2>5, <2>9
<1> QED
  BY <1>19, <1>20

LEMMA DiscardLeft ==
    ASSUME NEW h, NEW c \in SessionStates, NEW a, NEW p \in Nat, NEW k, InDiscarded(h, c, a, p, k), NEW n \in Nat,
           NEW e, e.bytesToDiscard = c.bytesToDiscard - n, e.bytesToDiscard > 0
    PROVE  p + n + e.bytesToDiscard = h.from[k + 1] /\ e.bytesToDiscard >= 1
<1>1. PICK b \in Nat : b = c.bytesToDiscard
  BY FieldsOf
<1>2. p + b = h.from[k + 1]
  BY <1>1 DEF InDiscarded
<1>3. e.bytesToDiscard = b - n
  BY <1>1
<1>4. p + n + (b - n) = p + b /\ (b - n > 0 => b - n >= 1)
  OBVIOUS
<1> QED
  BY <1>2, <1>3, <1>4

\* discardValue with more to discard.
LEMMA DropStream ==
    ASSUME NEW c \in SessionStates, NEW w \in Seq(StreamUnits), NEW d, NEW a, StreamOK(c, w, d, a),
           c.state = "kDiscardValue", NEW n \in 0 .. Len(c.buf),
           NEW e, e.buf = SubSeq(c.buf, n + 1, Len(c.buf)), e.state = c.state, e.keys = c.keys, e.busy,
           e.connected = c.connected, e.bytesToDiscard = c.bytesToDiscard - n, e.bytesToDiscard > 0
    PROVE  StreamOK(e, w, d, a)
<1>1. PICK h, p, k : Following(h, c, w, d, a, p, k)
  BY DEF StreamOK
<1>2. /\ Recorded(h, d) /\ k \in 1 .. Len(h.sent) + 1 /\ p \in Nat /\ InDiscarded(h, c, a, p, k)
      /\ \A j \in 1 .. k - 1 : h.sent[j].op # "endless"
  BY <1>1, FollowingParts
<1>3. Asleep(e) /\ Answered(a, d)
  BY DEF Asleep, StreamOK
<1>4. Unread(h, e, w, p + n) /\ p + n \in Nat
  BY <1>1, UnitsTakenStream
<1>5. n \in Nat
  <2>1. c.buf \in Seq(StreamUnits)
    BY FieldsOf
  <2>2. PICK lb \in Nat : lb = Len(c.buf)
    BY <2>1
  <2> QED
    BY <2>2
<1>8. p + n + e.bytesToDiscard = h.from[k + 1] /\ e.bytesToDiscard >= 1
  BY <1>2, <1>5, DiscardLeft, ZenonT(40)
<1>9. InDiscarded(h, e, a, p + n, k)
  BY <1>2, <1>8 DEF InDiscarded
<1>10. Following(h, e, w, d, a, p + n, k)
  BY <1>2, <1>4, <1>9 DEF Following, Placed
<1> QED
  BY <1>3, <1>10 DEF StreamOK

LEMMA DropOverStream ==
    ASSUME NEW c \in SessionStates, NEW w \in Seq(StreamUnits), NEW d, NEW a, StreamOK(c, w, d, a),
           c.state = "kDiscardValue", NEW n \in 0 .. Len(c.buf), n = c.bytesToDiscard,
           NEW e, e.buf = SubSeq(c.buf, n + 1, Len(c.buf)), e.state = "kNewCommand", e.keys = c.keys, e.busy,
           e.connected = c.connected, ~e.noreply
    PROVE  StreamOK(e, w, d, a)
<1>1. PICK h, p, k : Following(h, c, w, d, a, p, k)
  BY DEF StreamOK
<1>2. /\ Recorded(h, d) /\ k \in 1 .. Len(h.sent) + 1 /\ p \in Nat /\ InDiscarded(h, c, a, p, k)
      /\ \A j \in 1 .. k - 1 : h.sent[j].op # "endless"
  BY <1>1, FollowingParts
<1>3. Asleep(e) /\ Answered(a, d)
  BY DEF Asleep, StreamOK
<1>4. Unread(h, e, w, p + n)
  BY <1>1, UnitsTakenStream
<1>5. /\ k \in 1 .. Len(h.sent) /\ h.sent[k].op # "endless" /\ p + n = h.from[k + 1] /\ c.keys = <<>>
      /\ c.connected => Len(a) = h.owed[k + 1]
  BY <1>2 DEF InDiscarded, Recorded
<1>6. Unread(h, e, w, h.from[k + 1])
  BY <1>4, <1>5
<1>7. Following(h, e, w, d, a, h.from[k + 1], k + 1)
  BY <1>2, <1>5, <1>6, CommandOver
<1> QED
  BY <1>3, <1>7 DEF StreamOK

\* Where a session is in its stream, whatever else it keeps.
LEMMA SamePlace ==
    ASSUME NEW h, NEW d, NEW c, NEW a, NEW p, NEW k, Placed(h, d, c, a, p, k), c.keys = <<>>,
           NEW e, e.state = c.state, e.keys = c.keys, e.noreply = c.noreply, e.policy = c.policy, e.currItem = c.currItem,
           e.needed = c.needed, e.bytesToDiscard = c.bytesToDiscard, e.connected => c.connected
    PROVE  Placed(h, d, e, a, p, k)
<1>1. CASE BeforeCommand(h, c, a, p, k)
  <2>1. BeforeCommand(h, e, a, p, k)
    BY <1>1 DEF BeforeCommand
  <2> QED
    BY <2>1 DEF Placed
<1>2. CASE BeforeErrorLine(h, d, c, a, p, k)
  <2>1. BeforeErrorLine(h, d, e, a, p, k)
    BY <1>2 DEF BeforeErrorLine
  <2> QED
    BY <2>1 DEF Placed
<1>3. CASE InValue(h, c, a, p, k)
  <2>1. InValue(h, e, a, p, k)
    BY <1>3 DEF InValue
  <2> QED
    BY <2>1 DEF Placed
<1>4. CASE InDiscarded(h, c, a, p, k)
  <2>1. InDiscarded(h, e, a, p, k)
    BY <1>4 DEF InDiscarded
  <2> QED
    BY <2>1 DEF Placed
<1> QED
  BY <1>1, <1>2, <1>3, <1>4 DEF Placed

\* onMessage moves units from the wire to the buffer.
LEMMA MessageStream ==
    ASSUME NEW c \in SessionStates, NEW w \in Seq(StreamUnits), NEW d, NEW a, StreamOK(c, w, d, a), ~c.busy,
           NEW n \in 1 .. Len(w), NEW v, v = SubSeq(w, n + 1, Len(w)),
           NEW e, e.buf = c.buf \o SubSeq(w, 1, n), e.busy, e.state = c.state, e.keys = c.keys, e.noreply = c.noreply,
           e.policy = c.policy, e.currItem = c.currItem, e.needed = c.needed, e.bytesToDiscard = c.bytesToDiscard,
           e.connected = c.connected
    PROVE  StreamOK(e, v, d, a)
<1>1. PICK h, p, k : Following(h, c, w, d, a, p, k)
  BY DEF StreamOK
<1>2. /\ Recorded(h, d) /\ k \in 1 .. Len(h.sent) + 1 /\ p \in Nat
      /\ \A j \in 1 .. k - 1 : h.sent[j].op # "endless"
      /\ Unread(h, c, w, p) /\ c.buf \in Seq(StreamUnits) /\ h.stream \in Seq(StreamUnits)
  BY <1>1, FollowingParts
<1>3. Asleep(e) /\ Answered(a, d) /\ c.keys = <<>>
  BY DEF Asleep, StreamOK
<1>4. Placed(h, d, c, a, p, k)
  BY <1>1 DEF Following
<1>5. Placed(h, d, e, a, p, k)
  BY <1>3, <1>4, SamePlace
<1>6. PICK lw \in Nat : lw = Len(w)
  OBVIOUS
<1>7. PICK b \in Seq(StreamUnits) : b = c.buf
  BY <1>2
<1>8. PICK lb \in Nat : lb = Len(b)
  BY <1>7
<1>9. PICK t : t = SubSeq(w, 1, n)
  OBVIOUS
<1>10. n \in 1 .. lw /\ n \in 0 .. Len(w) /\ n \in Nat
  BY <1>6
<1>11. /\ t \in Seq(StreamUnits) /\ Len(t) = n /\ \A i \in 1 .. n : t[i] = w[i]
       /\ v \in Seq(StreamUnits) /\ Len(v) = lw - n /\ \A i \in 1 .. lw - n : v[i] = w[n + i]
  BY <1>6, <1>9, <1>10, UnitsTaken
<1>12. PICK f : f = b \o t
  OBVIOUS
<1>13. Len(f) = lb + n /\ \A i \in 1 .. lb + n : f[i] = IF i <= lb THEN b[i] ELSE t[i - lb]
  BY <1>7, <1>8, <1>11, <1>12, ConcatProperties
<1>14. PICK ls : ls = Len(h.stream)
  OBVIOUS
<1>15. /\ p + lb + lw = ls /\ \A i \in 1 .. lb : b[i] = h.stream[p + i]
       /\ \A i \in 1 .. lw : w[i] = h.stream[p + lb + i]
  BY <1>2, <1>6, <1>7, <1>8, <1>14 DEF Unread
<1>16. p \in Nat /\ lb \in Nat /\ lw \in Nat /\ n \in 1 .. lw
  BY <1>2, <1>6, <1>8, <1>10
<1>17. p + (lb + n) + (lw - n) = ls
  BY <1>15, <1>16
<1>18. ASSUME NEW i \in 1 .. lb + n PROVE f[i] = h.stream[p + i]
  <2>1. CASE i <= lb
    <3>1. i \in 1 .. lb
      BY <1>16, <1>18, <2>1
    <3> QED
      BY <1>13, <1>15, <2>1, <3>1
  <2>2. CASE ~(i <= lb)
    <3>1. i - lb \in 1 .. n /\ i - lb \in 1 .. lw /\ p + lb + (i - lb) = p + i
      BY <1>16, <1>18, <2>2
    <3>2. f[i] = t[i - lb]
      BY <1>13, <2>2
    <3> QED
      BY <1>11, <1>15, <3>1, <3>2
  <2> QED
    BY <2>1, <2>2
<1>19. ASSUME NEW i \in 1 .. lw - n PROVE v[i] = h.stream[p + (lb + n) + i]
  <2>1. n + i \in 1 .. lw /\ p + lb + (n + i) = p + (lb + n) + i
    BY <1>16, <1>19
  <2> QED
    BY <1>11, <1>15, <2>1
<1>20. Unread(h, e, v, p)
  <2>1. e.buf = f /\ Len(e.buf) = lb + n /\ Len(v) = lw - n
    BY <1>7, <1>9, <1>11, <1>12, <1>13
  <2> QED
    BY <1>14, <1>17, <1>18, <1>19, <2>1 DEF Unread
<1>21. Following(h, e, v, d, a, p, k)
  BY <1>2, <1>5, <1>20 DEF Following
<1> QED
  BY <1>3, <1>21 DEF StreamOK

\* The end of the loop of onMessage.
LEMMA AwaitStream ==
    ASSUME NEW c \in SessionStates, NEW w \in Seq(StreamUnits), NEW d, NEW a, StreamOK(c, w, d, a), c.keys = <<>>,
           c.buf = <<>> \/ (c.state = "kNewCommand" /\ Crlf(c) = 0),
           NEW e, e.buf = c.buf, e.state = c.state, e.keys = c.keys, e.noreply = c.noreply,
           e.policy = c.policy, e.currItem = c.currItem, e.needed = c.needed, e.bytesToDiscard = c.bytesToDiscard,
           e.connected => c.connected /\ ~Endless(c.buf)
    PROVE  StreamOK(e, w, d, a)
<1>1. PICK h, p, k : Following(h, c, w, d, a, p, k)
  BY DEF StreamOK
<1>2. Placed(h, d, c, a, p, k)
  BY <1>1 DEF Following
<1>3. Placed(h, d, e, a, p, k)
  BY <1>2, SamePlace
<1>4. Unread(h, e, w, p)
  BY <1>1 DEF Following, Unread
<1>5. Following(h, e, w, d, a, p, k)
  BY <1>1, <1>3, <1>4 DEF Following
<1>6. c.buf \in Seq(StreamUnits)
  BY FieldsOf
<1>7. Crlf(c) = 0 => \A i \in 1 .. Len(c.buf) : c.buf[i] # EOL
  BY <1>6, CrlfFinds
<1>8. Asleep(e)
  BY <1>7 DEF Asleep
<1> QED
  BY <1>5, <1>8 DEF StreamOK

LEMMA NewStream == StreamOK(NewSession, <<>>, <<>>, <<>>)
<1>1. PICK h : h = [sent |-> <<>>, stream |-> <<>>, from |-> [i \in {1} |-> 0], owed |-> [i \in {1} |-> 0]]
  OBVIOUS
<1>2. /\ Len(h.sent) = 0 /\ Len(h.stream) = 0 /\ h.sent = <<>> /\ h.stream = <<>> /\ h.from[1] = 0 /\ h.owed[1] = 0
      /\ h.from \in [{1} -> Nat] /\ h.owed \in [{1} -> Nat]
  BY <1>1
<1>3. 1 .. 0 + 1 = {1} /\ 1 .. 0 = {} /\ 1 .. 1 - 1 = {} /\ 0 + 0 + 0 = 0
  OBVIOUS
<1>4. Recorded(h, <<>>)
  BY <1>2, <1>3 DEF Recorded
<1>5. /\ NewSession.buf = <<>> /\ NewSession.state = "kNewCommand" /\ NewSession.keys = <<>> /\ ~NewSession.noreply
  BY DEF NewSession
<1>6. Unread(h, NewSession, <<>>, 0)
  BY <1>2, <1>3, <1>5 DEF Unread
<1>7. BeforeCommand(h, NewSession, <<>>, 0, 1)
  BY <1>2, <1>5 DEF BeforeCommand
<1>8. Following(h, NewSession, <<>>, <<>>, <<>>, 0, 1)
  BY <1>2, <1>3, <1>4, <1>6, <1>7 DEF Following, Placed
<1>9. Asleep(NewSession)
  BY <1>5 DEF Asleep
<1>10. Answered(<<>>, <<>>)
  BY DEF Answered
<1> QED
  BY <1>8, <1>9, <1>10 DEF StreamOK

-----------------------------------------------------------------------------
(* A client sends one more command                                         *)

\* h with one more command is g.
Extends(g, h, r) ==
    /\ g.stream = h.stream \o Units(r) /\ Len(g.sent) = Len(h.sent) + 1
    /\ \A i \in 1 .. Len(h.sent) : g.sent[i] = h.sent[i]
    /\ \A i \in 1 .. Len(h.sent) + 1 : g.from[i] = h.from[i] /\ g.owed[i] = h.owed[i]

LEMMA Joined ==
    ASSUME NEW S, NEW u \in Seq(S), NEW v \in Seq(S), NEW x, x = u \o v, NEW m \in Nat, m = Len(u), NEW n \in Nat, n = Len(v)
    PROVE  /\ x \in Seq(S) /\ Len(x) = m + n
           /\ \A i \in 1 .. m : x[i] = u[i]
           /\ \A j \in 1 .. n : x[m + j] = v[j]
<1>1. Len(x) = m + n /\ \A i \in 1 .. m + n : x[i] = IF i <= m THEN u[i] ELSE v[i - m]
  BY ConcatProperties
<1>2. ASSUME NEW i \in 1 .. m PROVE x[i] = u[i]
  <2>1. i \in 1 .. m + n /\ i <= m
    BY <1>2
  <2> QED
    BY <1>1, <2>1
<1>3. ASSUME NEW j \in 1 .. n PROVE x[m + j] = v[j]
  <2>1. m + j \in 1 .. m + n /\ ~(m + j <= m) /\ (m + j) - m = j
    BY <1>3
  <2> QED
    BY <1>1, <2>1
<1> QED
  BY <1>1, <1>2, <1>3

LEMMA HistoryGrows ==
    ASSUME NEW h, NEW d \in Seq(SUBSET AnswerTexts), Recorded(h, d), NEW r \in SentCommands,
           \A j \in 1 .. Len(h.sent) : h.sent[j].op # "endless"
    PROVE  \E g : Recorded(g, d \o Due(r)) /\ Extends(g, h, r)
<1>1. PICK n \in Nat : n = Len(h.sent)
  BY DEF Recorded
<1>2. PICK ls \in Nat : ls = Len(h.stream)
  BY DEF Recorded
<1>3. PICK ld \in Nat : ld = Len(d)
  OBVIOUS
<1>4. PICK u : u = Units(r)
  OBVIOUS
<1>5. PICK y : y = Due(r)
  OBVIOUS
<1>6. u \in Seq(StreamUnits) /\ y \in Seq(SUBSET AnswerTexts)
  BY <1>4, <1>5, UnitsAre, DueIs
<1>7. PICK lu \in Nat : lu = Len(u)
  BY <1>6
<1>8. PICK ly \in Nat : ly = Len(y)
  BY <1>6
<1>9. PICK t : t = Append(h.sent, r)
  OBVIOUS
<1>10. PICK x : x = h.stream \o u
  OBVIOUS
<1>11. PICK z : z = d \o y
  OBVIOUS
<1>12. t \in Seq(SentCommands) /\ Len(t) = n + 1 /\ t[n + 1] = r /\ \A i \in 1 .. n : t[i] = h.sent[i]
  <2>1. h.sent \in Seq(SentCommands)
    BY DEF Recorded
  <2> QED
    BY <1>1, <1>9, <2>1, AppendProperties
<1>13. x \in Seq(StreamUnits) /\ Len(x) = ls + lu /\ (\A i \in 1 .. ls : x[i] = h.stream[i]) /\ \A j \in 1 .. lu : x[ls + j] = u[j]
  <2>1. h.stream \in Seq(StreamUnits)
    BY DEF Recorded
  <2> QED
    BY <1>2, <1>6, <1>7, <1>10, <2>1, Joined
<1>14. Len(z) = ld + ly /\ (\A i \in 1 .. ld : z[i] = d[i]) /\ \A j \in 1 .. ly : z[ld + j] = y[j]
  BY <1>3, <1>6, <1>8, <1>11, Joined
<1>15. PICK f : f = [i \in 1 .. n + 2 |-> IF i <= n + 1 THEN h.from[i] ELSE ls + lu]
  OBVIOUS
<1>16. PICK o : o = [i \in 1 .. n + 2 |-> IF i <= n + 1 THEN h.owed[i] ELSE ld + ly]
  OBVIOUS
<1>17. /\ h.from \in [1 .. n + 1 -> Nat] /\ h.owed \in [1 .. n + 1 -> Nat] /\ h.from[n + 1] = ls /\ h.owed[n + 1] = ld
       /\ \A k, m \in 1 .. n + 1 : k <= m => h.from[k] <= h.from[m] /\ h.owed[k] <= h.owed[m]
       /\ \A k \in 1 .. n : CommandAt(h, d, k)
  BY <1>1, <1>2, <1>3 DEF Recorded
<1>18. /\ \A i \in 1 .. n + 1 : f[i] = h.from[i] /\ o[i] = h.owed[i]
       /\ f[n + 2] = ls + lu /\ o[n + 2] = ld + ly
  BY <1>1, <1>15, <1>16
<1>19. f \in [1 .. n + 2 -> Nat] /\ o \in [1 .. n + 2 -> Nat]
  <2>1. \A i \in 1 .. n + 2 : i <= n + 1 => i \in 1 .. n + 1
    OBVIOUS
  <2>2. ls + lu \in Nat /\ ld + ly \in Nat
    OBVIOUS
  <2> QED
    BY <1>15, <1>16, <1>17, <2>1, <2>2
<1>20. PICK g : g = [sent |-> t, stream |-> x, from |-> f, owed |-> o]
  OBVIOUS
<1>21. g.sent = t /\ g.stream = x /\ g.from = f /\ g.owed = o
  BY <1>20
<1>22. ASSUME NEW k \in 1 .. n + 2, NEW m \in 1 .. n + 2, k <= m PROVE f[k] <= f[m] /\ o[k] <= o[m]
  <2>1. CASE m <= n + 1
    <3>1. k \in 1 .. n + 1 /\ m \in 1 .. n + 1
      BY <1>22, <2>1
    <3> QED
      BY <1>17, <1>18, <1>22, <3>1
  <2>2. CASE ~(m <= n + 1) /\ k <= n + 1
    <3>1. k \in 1 .. n + 1 /\ n + 1 \in 1 .. n + 1 /\ m = n + 2
      BY <1>22, <2>2
    <3>2. h.from[k] <= ls /\ h.owed[k] <= ld /\ h.from[k] \in Nat /\ h.owed[k] \in Nat
      BY <1>17, <2>2, <3>1
    <3>3. h.from[k] <= ls + lu /\ h.owed[k] <= ld + ly
      BY <3>2
    <3> QED
      BY <1>18, <3>1, <3>3
  <2>3. CASE ~(m <= n + 1) /\ ~(k <= n + 1)
    <3>1. k = m
      BY <1>22, <2>3
    <3>2. f[m] \in Nat /\ o[m] \in Nat
      BY <1>19
    <3> QED
      BY <3>1, <3>2
  <2> QED
    BY <2>1, <2>2, <2>3
<1>23. ASSUME NEW k \in 1 .. n PROVE CommandAt(g, z, k)
  <2>1. k \in 1 .. n + 1 /\ k + 1 \in 1 .. n + 1 /\ n + 1 \in 1 .. n + 1 /\ k + 1 <= n + 1
    BY <1>23
  <2>2. t[k] = h.sent[k] /\ f[k] = h.from[k] /\ f[k + 1] = h.from[k + 1] /\ o[k] = h.owed[k] /\ o[k + 1] = h.owed[k + 1]
    BY <1>12, <1>18, <1>23, <2>1
  <2>3. PICK q : q = h.sent[k]
    OBVIOUS
  <2>4. q \in SentCommands /\ q.op # "endless"
    BY <1>1, <1>12, <1>23, <2>2, <2>3
  <2>5. PICK lq \in Nat : lq = Len(Units(q))
    BY <2>4, UnitsAre
  <2>6. PICK le \in Nat : le = Len(Due(q))
    BY <2>4, DueIs
  <2>7. PICK fk \in Nat : fk = h.from[k]
    BY <1>17, <2>1
  <2>8. PICK ok \in Nat : ok = h.owed[k]
    BY <1>17, <2>1
  <2>9. /\ h.from[k + 1] = fk + lq /\ h.owed[k + 1] = ok + le
        /\ \A j \in 1 .. lq : h.stream[fk + j] = Units(q)[j]
        /\ \A j \in 1 .. le : d[ok + j] = Due(q)[j]
    BY <1>17, <1>23, <2>3, <2>5, <2>6, <2>7, <2>8 DEF CommandAt
  <2>10. fk + lq <= ls /\ ok + le <= ld
    BY <1>17, <2>1, <2>9
  <2>11. ASSUME NEW j \in 1 .. lq PROVE x[fk + j] = Units(q)[j]
    <3>1. fk + j \in 1 .. ls
      BY <2>10, <2>11
    <3> QED
      BY <1>13, <2>9, <3>1
  <2>12. ASSUME NEW j \in 1 .. le PROVE z[ok + j] = Due(q)[j]
    <3>1. ok + j \in 1 .. ld
      BY <2>10, <2>12
    <3> QED
      BY <1>14, <2>9, <3>1
  <2>13. g.sent[k] = q /\ g.from[k] = fk /\ g.from[k + 1] = fk + lq /\ g.owed[k] = ok /\ g.owed[k + 1] = ok + le /\ g.stream = x
    BY <1>21, <2>2, <2>3, <2>7, <2>8, <2>9
  <2> QED
    BY <2>4, <2>5, <2>6, <2>11, <2>12, <2>13 DEF CommandAt
<1>24. CommandAt(g, z, n + 1)
  <2>1. n + 1 \in 1 .. n + 1 /\ (n + 1) + 1 = n + 2
    OBVIOUS
  <2>2. /\ g.sent[n + 1] = r /\ g.from[n + 1] = ls /\ g.from[(n + 1) + 1] = ls + lu /\ g.owed[n + 1] = ld
        /\ g.owed[(n + 1) + 1] = ld + ly /\ g.stream = x /\ Len(g.sent) = n + 1
    BY <1>12, <1>17, <1>18, <1>21, <2>1
  <2> QED
    BY <1>4, <1>5, <1>7, <1>8, <1>13, <1>14, <2>2 DEF CommandAt
<1>25. \A k \in 1 .. n + 1 : CommandAt(g, z, k)
  <2>1. \A k \in 1 .. n + 1 : k \in 1 .. n \/ k = n + 1
    OBVIOUS
  <2> QED
    BY <1>23, <1>24, <2>1
<1>26. Recorded(g, z)
  <2>1. Len(g.sent) = n + 1 /\ (n + 1) + 1 = n + 2
    BY <1>12, <1>21
  <2>2. g.from[n + 2] = Len(g.stream) /\ g.owed[n + 2] = Len(z)
    BY <1>13, <1>14, <1>18, <1>21
  <2>3. g.sent \in Seq(SentCommands) /\ g.stream \in Seq(StreamUnits)
    BY <1>12, <1>13, <1>21
  <2> QED
    BY <1>19, <1>21, <1>22, <1>25, <2>1, <2>2, <2>3 DEF Recorded
<1>27. Extends(g, h, r)
  BY <1>1, <1>4, <1>10, <1>12, <1>18, <1>21 DEF Extends
<1> QED
  BY <1>5, <1>11, <1>26, <1>27

\* Within a command the server has not read all of it.
LEMMA CommandUnread ==
    ASSUME NEW h, NEW c \in SessionStates, ValueAwaited(c), NEW w, NEW d, NEW a, NEW p, NEW k,
           Following(h, c, w, d, a, p, k), k \in 1 .. Len(h.sent)
    PROVE  /\ p < h.from[k + 1]
           /\ ~BeforeCommand(h, c, a, p, k) => h.sent[k].op # "endless"
<1>1. /\ Recorded(h, d) /\ p \in Nat /\ Placed(h, d, c, a, p, k)
  BY DEF Following
<1>2. PICK r : r = h.sent[k]
  OBVIOUS
<1>3. r \in SentCommands /\ CommandAt(h, d, k) /\ h.from[k] \in Nat /\ h.from[k + 1] \in Nat
  BY <1>1, <1>2, CommandKnown
<1>4. PICK f \in Nat : f = h.from[k]
  BY <1>3
<1>5. PICK lu \in Nat : lu = Len(Units(r))
  BY <1>3, UnitsAre
<1>6. h.from[k + 1] = f + lu /\ lu >= 1
  BY <1>2, <1>3, <1>4, <1>5, UnitsAre DEF CommandAt
<1>7. CASE BeforeCommand(h, c, a, p, k)
  <2>1. p = f
    BY <1>4, <1>7 DEF BeforeCommand
  <2> QED
    BY <1>6, <1>7, <2>1
<1>8. CASE BeforeErrorLine(h, d, c, a, p, k)
  BY <1>8 DEF BeforeErrorLine
<1>9. CASE InValue(h, c, a, p, k)
  <2>1. r.op \in Updates /\ r.op \in Updates \cup {"malformed"} /\ r.op # "endless" /\ c.state = "kReceiveValue"
    BY <1>2, <1>9 DEF InValue, Updates
  <2>2. PICK m \in Nat : m = Len(r.data)
    <3>1. Len(r.data) \in Nat
      BY <1>3, <2>1, UnitsAre
    <3> QED
      BY <3>1
  <2>3. PICK b \in Nat : b = r.bytes
    BY <1>3 DEF SentCommands, ClientCommands
  <2>4. b <= m /\ lu = m + 3
    BY <1>3, <1>5, <2>1, <2>2, <2>3, UnitKinds, UnitsAre DEF WellFormed
  <2>5. c.currItem \in StoreItems /\ c.needed >= 1 /\ c.needed \in Int
    BY <2>1, FieldsOf DEF ValueAwaited
  <2>6. PICK nd \in Int : nd = c.needed
    BY <2>5
  <2>7. c.currItem.value \in Seq(StreamUnits)
    BY <2>5, Zenon DEF StoreItems
  <2>8. PICK v \in Nat : v = Len(c.currItem.value)
    <3>1. Len(c.currItem.value) \in Nat
      BY <2>7
    <3> QED
      BY <3>1
  <2>9. p = f + 2 + v /\ v + nd = b + 1 /\ nd >= 1
    BY <1>2, <1>4, <1>9, <2>3, <2>5, <2>6, <2>8 DEF InValue
  <2>10. p < f + (m + 3)
    <3>1. f + 2 + v < f + (m + 3)
      BY <2>4, <2>9
    <3> QED
      BY <2>9, <3>1
  <2> QED
    BY <1>2, <1>6, <2>1, <2>4, <2>10
<1>10. CASE InDiscarded(h, c, a, p, k)
  <2>1. PICK b \in Nat : b = c.bytesToDiscard
    BY FieldsOf
  <2>2. b >= 1 /\ p + b = h.from[k + 1] /\ h.sent[k].op # "endless"
    BY <1>10, <2>1 DEF InDiscarded
  <2>3. p < p + b
    <3>1. p \in Nat /\ b \in Nat /\ b >= 1
      BY <1>1, <2>1, <2>2
    <3> QED
      BY <3>1
  <2> QED
    BY <2>2, <2>3
<1> QED
  BY <1>1, <1>7, <1>8, <1>9, <1>10 DEF Placed

\* The rest of the stream holds every command that is not read.
LEMMA CommandInRest ==
    ASSUME NEW h, NEW c \in SessionStates, NEW w \in Seq(StreamUnits), NEW d, NEW p \in Nat, Recorded(h, d),
           Unread(h, c, w, p), NEW k \in 1 .. Len(h.sent), p <= h.from[k], h.sent[k].op = "endless"
    PROVE  Endless(c.buf \o w)
<1>1. PICK b \in Seq(StreamUnits) : b = c.buf
  BY FieldsOf
<1>2. PICK lb \in Nat : lb = Len(b)
  BY <1>1
<1>3. PICK lw \in Nat : lw = Len(w)
  OBVIOUS
<1>4. PICK x : x = b \o w
  OBVIOUS
<1>5. x \in Seq(StreamUnits) /\ Len(x) = lb + lw /\ (\A i \in 1 .. lb : x[i] = b[i]) /\ \A j \in 1 .. lw : x[lb + j] = w[j]
  BY <1>1, <1>2, <1>3, <1>4, Joined
<1>6. PICK r : r = h.sent[k]
  OBVIOUS
<1>7. PICK f \in Nat : f = h.from[k]
  BY CommandKnown
<1>8. r \in SentCommands /\ CommandAt(h, d, k) /\ h.from[k + 1] <= Len(h.stream)
  BY <1>6, CommandKnown
<1>9. Len(Units(r)) = 1 /\ Units(r)[1] = r
  BY <1>6, <1>8, UnitsAre
<1>10. PICK ls \in Nat : ls = Len(h.stream)
  BY DEF Recorded
<1>11. h.stream[f + 1] = r /\ f + 1 <= ls
  BY <1>6, <1>7, <1>8, <1>9, <1>10 DEF CommandAt
<1>12. /\ p + lb + lw = ls /\ \A i \in 1 .. lb : b[i] = h.stream[p + i]
       /\ \A i \in 1 .. lw : w[i] = h.stream[p + lb + i]
  BY <1>1, <1>2, <1>3, <1>10 DEF Unread
<1>13. p <= f
  BY <1>7
<1>14. PICK i \in 1 .. lb + lw : p + i = f + 1
  <2>1. f + 1 - p \in 1 .. lb + lw /\ p + (f + 1 - p) = f + 1
    <3>1. p \in Nat /\ f \in Nat /\ lb \in Nat /\ lw \in Nat /\ ls \in Nat /\ p <= f /\ f + 1 <= ls /\ p + lb + lw = ls
      BY <1>2, <1>3, <1>7, <1>10, <1>11, <1>12, <1>13
    <3> QED
      BY <3>1
  <2> QED
    BY <2>1
<1>15. x[i] = r
  <2>1. CASE i <= lb
    <3>1. i \in 1 .. lb
      BY <2>1
    <3> QED
      BY <1>5, <1>11, <1>12, <1>14, <3>1
  <2>2. CASE ~(i <= lb)
    <3>1. PICK j \in 1 .. lw : lb + j = i
      <4>1. i - lb \in 1 .. lw /\ lb + (i - lb) = i
        BY <2>2
      <4> QED
        BY <4>1
    <3>2. p + lb + j = f + 1
      BY <1>14, <3>1
    <3> QED
      BY <1>5, <1>11, <1>12, <3>1, <3>2
  <2> QED
    BY <2>1, <2>2
<1>16. r \in ToSet(x)
  BY <1>5, <1>14, <1>15 DEF ToSet
<1> QED
  BY <1>1, <1>4, <1>6, <1>16 DEF Endless

LEMMA NoneEndless ==
    ASSUME NEW h, NEW c \in SessionStates, ValueAwaited(c), NEW w \in Seq(StreamUnits), NEW d, NEW a, NEW p, NEW k,
           Following(h, c, w, d, a, p, k), ~Endless(c.buf \o w)
    PROVE  \A j \in 1 .. Len(h.sent) : h.sent[j].op # "endless"
<1>1. /\ Recorded(h, d) /\ p \in Nat /\ k \in 1 .. Len(h.sent) + 1 /\ Unread(h, c, w, p)
      /\ \A j \in 1 .. k - 1 : h.sent[j].op # "endless"
  BY FollowingParts
<1>2. PICK n \in Nat : n = Len(h.sent)
  <2>1. Recorded(h, d)
    BY <1>1
  <2> QED
    BY <2>1 DEF Recorded
<1>3. SUFFICES ASSUME NEW j \in 1 .. n, h.sent[j].op = "endless" PROVE FALSE
  BY <1>2
<1>4. k \in 1 .. n + 1 /\ ~(j <= k - 1)
  BY <1>1, <1>2, <1>3
<1>5. k \in 1 .. n /\ k <= j
  BY <1>3, <1>4
<1>6. p < h.from[k + 1] /\ (~BeforeCommand(h, c, a, p, k) => h.sent[k].op # "endless")
  BY <1>2, <1>5, CommandUnread
<1>7. h.from[k] \in Nat /\ h.from[k + 1] \in Nat /\ h.from[j] \in Nat
  BY <1>1, <1>2, <1>3, <1>5, CommandKnown
<1>8. p <= h.from[j]
  <2>1. CASE k = j
    <3>1. BeforeCommand(h, c, a, p, k)
      BY <1>3, <1>6, <2>1
    <3> QED
      BY <1>1, <1>7, <2>1, <3>1 DEF BeforeCommand
  <2>2. CASE k # j
    <3>1. k + 1 \in 1 .. n + 1 /\ j \in 1 .. n + 1 /\ k + 1 <= j
      BY <1>3, <1>5, <2>2
    <3>2. h.from[k + 1] <= h.from[j]
      BY <1>1, <1>2, <3>1 DEF Recorded
    <3> QED
      BY <1>1, <1>6, <1>7, <3>2
  <2> QED
    BY <2>1, <2>2
<1> QED
  BY <1>1, <1>2, <1>3, <1>8, CommandInRest

LEMMA PlacedGrows ==
    ASSUME NEW h, NEW d \in Seq(SUBSET AnswerTexts), Recorded(h, d), NEW r \in SentCommands, NEW g, Extends(g, h, r),
           NEW k \in 1 .. Len(h.sent) + 1, NEW p, NEW c, NEW a, Placed(h, d, c, a, p, k), p \in Nat
    PROVE  Placed(g, d \o Due(r), c, a, p, k)
<1>1. PICK n \in Nat : n = Len(h.sent)
  BY DEF Recorded
<1>2. PICK ls \in Nat : ls = Len(h.stream)
  BY DEF Recorded
<1>3. PICK ld \in Nat : ld = Len(d)
  OBVIOUS
<1>4. PICK u : u = Units(r)
  OBVIOUS
<1>5. PICK y : y = Due(r)
  OBVIOUS
<1>6. u \in Seq(StreamUnits) /\ y \in Seq(SUBSET AnswerTexts)
  BY <1>4, <1>5, UnitsAre, DueIs
<1>7. PICK x : x = h.stream \o u
  OBVIOUS
<1>8. PICK z : z = d \o y
  OBVIOUS
<1>9. \A i \in 1 .. ls : x[i] = h.stream[i]
  <2>1. h.stream \in Seq(StreamUnits)
    BY DEF Recorded
  <2>2. PICK lu \in Nat : lu = Len(u)
    BY <1>6
  <2> QED
    BY <1>2, <1>6, <1>7, <2>1, <2>2, Joined
<1>10. \A i \in 1 .. ld : z[i] = d[i]
  <2>1. PICK ly \in Nat : ly = Len(y)
    BY <1>6
  <2> QED
    BY <1>3, <1>6, <1>8, <2>1, Joined
<1>11. /\ g.stream = x /\ Len(g.sent) = n + 1 /\ \A i \in 1 .. n : g.sent[i] = h.sent[i]
       /\ \A i \in 1 .. n + 1 : g.from[i] = h.from[i] /\ g.owed[i] = h.owed[i]
  BY <1>1, <1>4, <1>7 DEF Extends
<1>12. g.from[k] = h.from[k] /\ g.owed[k] = h.owed[k]
  BY <1>1, <1>11
<1>13. k <= Len(h.sent) => /\ k <= Len(g.sent) /\ g.sent[k] = h.sent[k]
                           /\ g.from[k + 1] = h.from[k + 1] /\ g.owed[k + 1] = h.owed[k + 1]
  <2>1. SUFFICES ASSUME k <= n
        PROVE  k <= n + 1 /\ g.sent[k] = h.sent[k] /\ g.from[k + 1] = h.from[k + 1] /\ g.owed[k + 1] = h.owed[k + 1]
    BY <1>1, <1>11
  <2>2. k \in 1 .. n /\ k + 1 \in 1 .. n + 1 /\ k <= n + 1
    BY <1>1, <2>1
  <2> QED
    BY <1>11, <2>2
<1>14. SUFFICES ASSUME TRUE PROVE Placed(g, z, c, a, p, k)
  BY <1>5, <1>8
<1>15. CASE BeforeCommand(h, c, a, p, k)
  <2>1. BeforeCommand(g, c, a, p, k)
    BY <1>12, <1>13, <1>15 DEF BeforeCommand
  <2> QED
    BY <2>1 DEF Placed
<1>16. CASE BeforeErrorLine(h, d, c, a, p, k)
  <2>1. k \in 1 .. Len(h.sent) /\ k <= Len(h.sent)
    BY <1>1, <1>16 DEF BeforeErrorLine
  <2>2. PICK q \in Nat : q = h.from[k + 1]
    BY <2>1, CommandKnown
  <2>3. PICK o \in Nat : o = h.owed[k + 1]
    BY <2>1, CommandKnown
  <2>4. q <= ls /\ o <= ld
    BY <1>2, <1>3, <2>1, <2>2, <2>3, CommandKnown
  <2>5. p < q /\ h.stream[q] = EOL /\ (\A i \in p + 1 .. q - 1 : h.stream[i] = Byte) /\ o >= 1 /\ d[o] = {"ERROR"}
    BY <1>16, <2>2, <2>3 DEF BeforeErrorLine
  <2>6. q \in 1 .. ls /\ o \in 1 .. ld
    BY <2>2, <2>3, <2>4, <2>5
  <2>7. x[q] = EOL /\ z[o] = {"ERROR"}
    BY <1>9, <1>10, <2>5, <2>6
  <2>8. \A i \in p + 1 .. q - 1 : x[i] = Byte
    <3>1. TAKE i \in p + 1 .. q - 1
    <3>2. i \in 1 .. ls
      BY <2>2, <2>4, <3>1
    <3> QED
      BY <1>9, <2>5, <3>2
  <2>9. /\ g.from[k + 1] = q /\ g.owed[k + 1] = o /\ g.stream = x /\ g.sent[k].op = h.sent[k].op /\ k <= Len(g.sent)
    BY <1>11, <1>13, <2>1, <2>2, <2>3
  <2>10. BeforeErrorLine(g, z, c, a, p, k)
    BY <1>16, <2>3, <2>5, <2>7, <2>8, <2>9 DEF BeforeErrorLine
  <2> QED
    BY <2>10 DEF Placed
<1>17. CASE InValue(h, c, a, p, k)
  <2>1. InValue(g, c, a, p, k)
    BY <1>12, <1>13, <1>17 DEF InValue
  <2> QED
    BY <2>1 DEF Placed
<1>18. CASE InDiscarded(h, c, a, p, k)
  <2>1. InDiscarded(g, c, a, p, k)
    BY <1>12, <1>13, <1>18 DEF InDiscarded
  <2> QED
    BY <2>1 DEF Placed
<1> QED
  BY <1>15, <1>16, <1>17, <1>18 DEF Placed

LEMMA RequestStream ==
    ASSUME NEW c \in SessionStates, ValueAwaited(c), NEW w \in Seq(StreamUnits), NEW d, NEW a, StreamOK(c, w, d, a),
           NEW r \in SentCommands, ~Endless(c.buf \o w)
    PROVE  StreamOK(c, w \o Units(r), d \o Due(r), a)
<1>1. PICK h, p, k : Following(h, c, w, d, a, p, k)
  BY DEF StreamOK
<1>2. /\ Recorded(h, d) /\ p \in Nat /\ k \in 1 .. Len(h.sent) + 1 /\ Unread(h, c, w, p)
      /\ c.buf \in Seq(StreamUnits) /\ h.stream \in Seq(StreamUnits)
  BY <1>1, FollowingParts
<1>3. \A j \in 1 .. Len(h.sent) : h.sent[j].op # "endless"
  BY <1>1, NoneEndless
<1>4. Answered(a, d) /\ Asleep(c) /\ d \in Seq(SUBSET AnswerTexts)
  BY DEF StreamOK, Answered
<1>5. PICK g : Recorded(g, d \o Due(r)) /\ Extends(g, h, r)
  BY <1>2, <1>3, <1>4, HistoryGrows
<1>6. Placed(g, d \o Due(r), c, a, p, k)
  <2>1. Placed(h, d, c, a, p, k)
    BY <1>1 DEF Following
  <2> QED
    BY <1>2, <1>4, <1>5, <2>1, PlacedGrows
<1>7. PICK n \in Nat : n = Len(h.sent)
  BY <1>2 DEF Recorded
<1>8. k \in 1 .. Len(g.sent) + 1 /\ \A j \in 1 .. k - 1 : g.sent[j].op # "endless"
  <2>1. k \in 1 .. n + 1 /\ Len(g.sent) = n + 1 /\ \A i \in 1 .. n : g.sent[i] = h.sent[i] /\ h.sent[i].op # "endless"
    BY <1>2, <1>3, <1>5, <1>7 DEF Extends
  <2>2. k \in 1 .. (n + 1) + 1 /\ \A j \in 1 .. k - 1 : j \in 1 .. n
    BY <2>1
  <2> QED
    BY <2>1, <2>2
<1>9. PICK u \in Seq(StreamUnits) : u = Units(r)
  BY UnitsAre
<1>10. PICK lu \in Nat : lu = Len(u)
  BY <1>9
<1>11. PICK lw \in Nat : lw = Len(w)
  OBVIOUS
<1>12. PICK ls \in Nat : ls = Len(h.stream)
  BY <1>2
<1>13. PICK lb \in Nat : lb = Len(c.buf)
  BY <1>2
<1>14. PICK v : v = w \o u
  OBVIOUS
<1>15. PICK x : x = h.stream \o u
  OBVIOUS
<1>16. Len(v) = lw + lu /\ (\A i \in 1 .. lw : v[i] = w[i]) /\ \A j \in 1 .. lu : v[lw + j] = u[j]
  BY <1>9, <1>10, <1>11, <1>14, Joined
<1>17. Len(x) = ls + lu /\ (\A i \in 1 .. ls : x[i] = h.stream[i]) /\ \A j \in 1 .. lu : x[ls + j] = u[j]
  BY <1>2, <1>9, <1>10, <1>12, <1>15, Joined
<1>18. /\ p + lb + lw = ls /\ \A i \in 1 .. lb : c.buf[i] = h.stream[p + i]
       /\ \A i \in 1 .. lw : w[i] = h.stream[p + lb + i]
  BY <1>2, <1>11, <1>12, <1>13 DEF Unread
<1>19. p \in Nat
  BY <1>2
<1>20. p + lb + (lw + lu) = ls + lu
  BY <1>18, <1>19
<1>21. ASSUME NEW i \in 1 .. lb PROVE c.buf[i] = x[p + i]
  <2>1. p + i \in 1 .. ls
    BY <1>18, <1>19, <1>21
  <2> QED
    BY <1>17, <1>18, <2>1
<1>22. ASSUME NEW i \in 1 .. lw + lu PROVE v[i] = x[p + lb + i]
  <2>1. CASE i <= lw
    <3>1. i \in 1 .. lw /\ p + lb + i \in 1 .. ls
      BY <1>18, <1>19, <1>22, <2>1
    <3> QED
      BY <1>16, <1>17, <1>18, <3>1
  <2>2. CASE ~(i <= lw)
    <3>1. PICK j \in 1 .. lu : lw + j = i
      <4>1. i - lw \in 1 .. lu /\ lw + (i - lw) = i
        BY <1>22, <2>2
      <4> QED
        BY <4>1
    <3>2. ls + j = p + lb + i
      BY <1>18, <1>19, <3>1
    <3>3. v[i] = u[j]
      BY <1>16, <3>1
    <3>4. x[p + lb + i] = u[j]
      BY <1>17, <3>1, <3>2
    <3> QED
      BY <3>3, <3>4
  <2> QED
    BY <2>1, <2>2
<1>23. Unread(g, c, v, p)
  <2>1. g.stream = x
    BY <1>5, <1>9, <1>15 DEF Extends
  <2> QED
    BY <1>13, <1>16, <1>17, <1>20, <1>21, <1>22, <2>1 DEF Unread
<1>24. Following(g, c, w \o Units(r), d \o Due(r), a, p, k)
  <2>1. w \o Units(r) = v
    BY <1>9, <1>14
  <2> QED
    BY <1>2, <1>5, <1>6, <1>8, <1>23, <2>1 DEF Following
<1>25. Answered(a, d \o Due(r))
  <2>1. PICK y \in Seq(SUBSET AnswerTexts) : y = Due(r)
    BY DueIs
  <2>2. PICK ld \in Nat : ld = Len(d)
    BY <1>4
  <2>3. PICK ly \in Nat : ly = Len(y)
    BY <2>1
  <2>4. PICK z : z = d \o y
    OBVIOUS
  <2>5. z \in Seq(SUBSET AnswerTexts) /\ Len(z) = ld + ly /\ \A i \in 1 .. ld : z[i] = d[i]
    BY <1>4, <2>1, <2>2, <2>3, <2>4, Joined
  <2>6. PICK la \in Nat : la = Len(a)
    BY <1>4 DEF Answered
  <2>7. la <= ld /\ \A i \in 1 .. la : a[i] \in d[i]
    BY <1>4, <2>2, <2>6 DEF Answered
  <2>8. la <= ld + ly /\ \A i \in 1 .. la : i \in 1 .. ld
    BY <2>7
  <2>9. Answered(a, z)
    BY <1>4, <2>5, <2>6, <2>7, <2>8 DEF Answered
  <2> QED
    BY <2>1, <2>4, <2>9
<1> QED
  BY <1>4, <1>24, <1>25 DEF StreamOK

-----------------------------------------------------------------------------
(* A session that has read all it was sent                                 *)

LEMMA AllAnswered ==
    ASSUME NEW c \in SessionStates, ValueAwaited(c), NEW d, NEW a, StreamOK(c, <<>>, d, a), ~c.busy, c.connected
    PROVE  Len(a) = Len(d)
<1>1. PICK h, p, k : Following(h, c, <<>>, d, a, p, k)
  BY DEF StreamOK
<1>2. /\ Recorded(h, d) /\ p \in Nat /\ k \in 1 .. Len(h.sent) + 1 /\ Unread(h, c, <<>>, p)
      /\ Placed(h, d, c, a, p, k)
  BY <1>1 DEF Following
<1>3. PICK n \in Nat : n = Len(h.sent)
  BY <1>2 DEF Recorded
<1>4. PICK ls \in Nat : ls = Len(h.stream)
  BY <1>2 DEF Recorded
<1>5. PICK b \in Seq(StreamUnits) : b = c.buf
  BY FieldsOf
<1>6. PICK lb \in Nat : lb = Len(b)
  BY <1>5
<1>7. p + lb + 0 = ls /\ \A i \in 1 .. lb : b[i] = h.stream[p + i]
  BY <1>2, <1>4, <1>5, <1>6 DEF Unread
<1>8. b = <<>> \/ (c.state = "kNewCommand" /\ (\A i \in 1 .. lb : b[i] # EOL) /\ ~Endless(b))
  BY <1>5, <1>6 DEF StreamOK, Asleep
<1>9. k = n + 1
  <2>1. SUFFICES ASSUME k # n + 1 PROVE FALSE
    OBVIOUS
  <2>2. k \in 1 .. n /\ k \in 1 .. Len(h.sent)
    BY <1>2, <1>3, <2>1
  <2>3. PICK q \in Nat : q = h.from[k + 1]
    BY <1>2, <2>2, CommandKnown
  <2>4. p < q /\ q <= ls
    BY <1>1, <1>2, <1>4, <2>2, <2>3, CommandKnown, CommandUnread
  <2>5. lb >= 1 /\ b # <<>>
    <3>1. lb >= 1
      <4>1. p \in Nat /\ lb \in Nat /\ q \in Nat
        BY <1>2
      <4> QED
        BY <1>7, <2>4, <4>1
    <3> QED
      BY <1>5, <1>6, <3>1
  <2>6. /\ c.state = "kNewCommand" /\ (\A i \in 1 .. lb : b[i] # EOL) /\ ~Endless(b)
    BY <1>8, <2>5
  <2>7. BeforeCommand(h, c, a, p, k) \/ BeforeErrorLine(h, d, c, a, p, k)
    BY <1>1, <2>6, FollowingParts
  <2>8. h.stream[q] # EOL
    <3>1. PICK i \in 1 .. lb : p + i = q
      <4>1. q - p \in 1 .. lb /\ p + (q - p) = q
        <5>1. p \in Nat /\ lb \in Nat /\ q \in Nat /\ ls \in Nat
          BY <1>2
        <5> QED
          BY <1>7, <2>4, <5>1
      <4> QED
        BY <4>1
    <3> QED
      BY <1>7, <2>6, <3>1
  <2>9. BeforeCommand(h, c, a, p, k)
    BY <2>3, <2>7, <2>8 DEF BeforeErrorLine
  <2>10. PICK r : r = h.sent[k]
    OBVIOUS
  <2>11. r \in SentCommands /\ CommandAt(h, d, k)
    BY <1>2, <2>2, <2>10, CommandKnown
  <2>12. PICK lu \in Nat : lu = Len(Units(r))
    BY <2>11, UnitsAre
  <2>13. p = h.from[k]
    BY <2>9 DEF BeforeCommand
  <2>14. q = p + lu /\ \A j \in 1 .. lu : h.stream[p + j] = Units(r)[j]
    BY <2>3, <2>10, <2>11, <2>12, <2>13 DEF CommandAt
  <2>15. CASE r.op = "endless"
    <3>1. lu = 1 /\ Units(r)[1] = r
      BY <2>11, <2>12, <2>15, UnitsAre
    <3>2. b[1] = r /\ 1 \in 1 .. lb
      BY <1>7, <2>5, <2>14, <3>1
    <3>3. r \in ToSet(b)
      BY <1>5, <1>6, <3>2 DEF ToSet
    <3> QED
      BY <2>6, <2>15, <3>3 DEF Endless
  <2>16. CASE r.op # "endless"
    <3>1. lu >= 2 /\ Units(r)[2] = EOL
      BY <2>11, <2>12, <2>16, UnitsAre
    <3>2. 2 \in 1 .. lb /\ 2 \in 1 .. lu
      <4>1. p \in Nat /\ lb \in Nat /\ q \in Nat /\ ls \in Nat /\ lu \in Nat
        BY <1>2
      <4> QED
        BY <1>7, <2>4, <2>14, <3>1, <4>1
    <3> QED
      BY <1>7, <2>6, <2>14, <3>1, <3>2
  <2> QED
    BY <2>15, <2>16
<1>10. ~(k <= Len(h.sent))
  BY <1>3, <1>9
<1>11. BeforeCommand(h, c, a, p, k)
  BY <1>2, <1>10 DEF Placed, BeforeErrorLine, InValue, InDiscarded
<1>12. Len(a) = h.owed[n + 1] /\ h.owed[n + 1] = Len(d)
  BY <1>2, <1>3, <1>9, <1>11 DEF BeforeCommand, Recorded
<1> QED
  BY <1>12

-----------------------------------------------------------------------------
(* The streams of all sessions, step by step                               *)

LEMMA StreamSet ==
    ASSUME StreamInv, NEW s \in Sessions, session'[s] \in SessionStates, NEW e, session'[s] = e,
           \A t \in Sessions \ {s} : session'[t] = session[t],
           NEW v, wire'[s] = v, \A t \in Sessions \ {s} : wire'[t] = wire[t],
           NEW y, due' = [due EXCEPT ![s] = y], NEW x, answers' = [answers EXCEPT ![s] = x], StreamOK(e, v, y, x)
    PROVE  StreamInv'
<1>1. due \in [Sessions -> Seq(SUBSET AnswerTexts)] /\ answers \in [Sessions -> Seq(AnswerTexts)]
  BY DEF StreamInv
<1>2. x \in Seq(AnswerTexts) /\ y \in Seq(SUBSET AnswerTexts)
  BY DEF StreamOK, Answered
<1>3. due' \in [Sessions -> Seq(SUBSET AnswerTexts)] /\ answers' \in [Sessions -> Seq(AnswerTexts)]
  BY <1>1, <1>2
<1>4. ASSUME NEW t \in Sessions PROVE StreamOK(session'[t], wire'[t], due'[t], answers'[t])
  <2>1. CASE t = s
    <3>1. due'[s] = y /\ answers'[s] = x
      BY <1>1
    <3> QED
      BY <2>1, <3>1
  <2>2. CASE t # s
    <3>1. due'[t] = due[t] /\ answers'[t] = answers[t] /\ session'[t] = session[t] /\ wire'[t] = wire[t]
      BY <1>1, <2>2
    <3>2. StreamOK(session[t], wire[t], due[t], answers[t])
      BY DEF StreamInv
    <3> QED
      BY <3>1, <3>2
  <2> QED
    BY <2>1, <2>2
<1> QED
  BY <1>3, <1>4 DEF StreamInv

\* A step of the session itself: the wire and what is due stay.
LEMMA StreamStep ==
    ASSUME MemTypeOK, StreamInv, NEW s \in Sessions, NEW e \in SessionStates, session' = [session EXCEPT ![s] = e],
           wire' = wire, due' = due, NEW x, answers' = [answers EXCEPT ![s] = x], StreamOK(e, wire[s], due[s], x)
    PROVE  StreamInv'
<1>1. session \in [Sessions -> SessionStates] /\ due \in [Sessions -> Seq(SUBSET AnswerTexts)]
  BY DEF MemTypeOK, StreamInv
<1>2. session'[s] = e /\ (\A t \in Sessions \ {s} : session'[t] = session[t]) /\ due' = [due EXCEPT ![s] = due[s]]
  BY <1>1
<1>3. PICK v : v = wire[s]
  OBVIOUS
<1>4. PICK y : y = due[s]
  OBVIOUS
<1> QED
  BY <1>2, <1>3, <1>4, StreamSet

LEMMA SessionKnown ==
    ASSUME MemTypeOK, StreamInv, NEW s \in Sessions, NEW c, c = session[s]
    PROVE  /\ c \in SessionStates /\ ValueAwaited(c) /\ wire[s] \in Seq(StreamUnits)
           /\ answers[s] \in Seq(AnswerTexts) /\ answers \in [Sessions -> Seq(AnswerTexts)]
           /\ StreamOK(c, wire[s], due[s], answers[s])
  BY DEF MemTypeOK, StreamInv

LEMMA RequestStreams ==
    ASSUME MemTypeOK, StreamInv, NEW s \in Sessions, NEW r \in Commands[s], Request(s, r)
    PROVE  StreamInv'
<1>1. PICK c : c = session[s]
  OBVIOUS
<1>2. PICK w : w = wire[s]
  OBVIOUS
<1>3. PICK d : d = due[s]
  OBVIOUS
<1>4. PICK a : a = answers[s]
  OBVIOUS
<1>5. c \in SessionStates /\ ValueAwaited(c) /\ w \in Seq(StreamUnits) /\ StreamOK(c, w, d, a)
  BY <1>1, <1>2, <1>3, <1>4, SessionKnown
<1>6. r \in SentCommands /\ ~Endless(c.buf \o w)
  BY <1>1, <1>2, CommandsSent DEF Request
<1>7. PICK v : v = w \o Units(r)
  OBVIOUS
<1>8. PICK y : y = d \o Due(r)
  OBVIOUS
<1>9. StreamOK(c, v, y, a)
  BY <1>5, <1>6, <1>7, <1>8, RequestStream
<1>10. /\ session' = session /\ wire' = [wire EXCEPT ![s] = v] /\ due' = [due EXCEPT ![s] = y] /\ answers' = answers
  BY <1>2, <1>3, <1>7, <1>8 DEF Request
<1>11. wire'[s] = v /\ (\A t \in Sessions \ {s} : wire'[t] = wire[t]) /\ answers' = [answers EXCEPT ![s] = a]
  BY <1>4, <1>10 DEF MemTypeOK, StreamInv
<1> QED
  BY <1>1, <1>5, <1>9, <1>10, <1>11, StreamSet

LEMMA onMessageStreams ==
    ASSUME MemTypeOK, StreamInv, NEW s \in Sessions, NEW n, onMessage(s, n)
    PROVE  StreamInv'
<1>1. PICK c : c = session[s]
  OBVIOUS
<1>2. PICK w : w = wire[s]
  OBVIOUS
<1>3. PICK d : d = due[s]
  OBVIOUS
<1>4. PICK a : a = answers[s]
  OBVIOUS
<1>5. c \in SessionStates /\ ValueAwaited(c) /\ w \in Seq(StreamUnits) /\ StreamOK(c, w, d, a)
  BY <1>1, <1>2, <1>3, <1>4, SessionKnown
<1>6. n \in 1 .. Len(w) /\ ~c.busy
  BY <1>1, <1>2 DEF onMessage
<1>7. PICK t : t = SubSeq(w, 1, n)
  OBVIOUS
<1>8. PICK v : v = SubSeq(w, n + 1, Len(w))
  OBVIOUS
<1>9. PICK e : e = Received(c, t)
  OBVIOUS
<1>10. t \in Seq(StreamUnits)
  <2>1. n \in 0 .. Len(w)
    BY <1>5, <1>6
  <2> QED
    BY <1>5, <1>7, <2>1, UnitsTaken
<1>11. /\ e \in SessionStates /\ e.state = c.state /\ e.buf = c.buf \o SubSeq(w, 1, n) /\ e.keys = c.keys
       /\ e.connected = c.connected /\ e.busy /\ e.noreply = c.noreply
       /\ e.policy = c.policy /\ e.currItem = c.currItem /\ e.needed = c.needed /\ e.bytesToDiscard = c.bytesToDiscard
  <2>1. /\ e \in SessionStates /\ e.state = c.state /\ e.buf = c.buf \o t /\ e.keys = c.keys
        /\ e.connected = c.connected /\ e.busy /\ e.noreply = c.noreply
        /\ e.policy = c.policy /\ e.currItem = c.currItem /\ e.needed = c.needed /\ e.bytesToDiscard = c.bytesToDiscard
    <3>1. c \in SessionStates
      BY <1>5
    <3> QED
      BY <1>9, <1>10, <3>1, UnitsReceived
  <2> QED
    BY <1>7, <2>1
<1>12. StreamOK(e, v, d, a)
  BY <1>5, <1>6, <1>8, <1>11, MessageStream
<1>13. session' = [session EXCEPT ![s] = e]
  BY <1>1, <1>2, <1>7, <1>9 DEF onMessage, Received
<1>14. wire' = [wire EXCEPT ![s] = v] /\ due' = due /\ answers' = answers
  BY <1>2, <1>8 DEF onMessage
<1>15. /\ wire'[s] = v /\ (\A u \in Sessions \ {s} : wire'[u] = wire[u]) /\ answers' = [answers EXCEPT ![s] = a]
       /\ due' = [due EXCEPT ![s] = d] /\ session'[s] = e /\ (\A u \in Sessions \ {s} : session'[u] = session[u])
  BY <1>3, <1>4, <1>13, <1>14 DEF MemTypeOK, StreamInv
<1> QED
  BY <1>11, <1>12, <1>15, StreamSet

LEMMA onConnectionStreams ==
    ASSUME MemTypeOK, StreamInv, NEW s \in Sessions, onConnection(s)
    PROVE  StreamInv'
<1>1. PICK e : e = NewSession
  OBVIOUS
<1>2. PICK x : x = <<>>
  OBVIOUS
<1>3. session' = [session EXCEPT ![s] = e] /\ wire' = [wire EXCEPT ![s] = x]
  BY <1>1, <1>2 DEF onConnection
<1>4. due' = [due EXCEPT ![s] = x] /\ answers' = [answers EXCEPT ![s] = x]
  BY <1>2 DEF onConnection
<1>5. /\ wire'[s] = x /\ (\A u \in Sessions \ {s} : wire'[u] = wire[u])
      /\ session'[s] = e /\ (\A u \in Sessions \ {s} : session'[u] = session[u])
  BY <1>3 DEF MemTypeOK
<1>6. e \in SessionStates /\ StreamOK(e, x, x, x)
  BY <1>1, <1>2, NewSessionOK, NewStream
<1> QED
  BY <1>4, <1>5, <1>6, StreamSet

LEMMA AwaitLineStreams ==
    ASSUME MemTypeOK, StreamInv, NEW s \in Sessions, AwaitLine(s)
    PROVE  StreamInv'
<1>1. PICK c : c = session[s]
  OBVIOUS
<1>2. PICK w : w = wire[s]
  OBVIOUS
<1>3. PICK a : a = answers[s]
  OBVIOUS
<1>4. c \in SessionStates /\ ValueAwaited(c) /\ w \in Seq(StreamUnits) /\ StreamOK(c, w, due[s], a)
  BY <1>1, <1>2, <1>3, SessionKnown
<1>5. PICK up \in BOOLEAN : up = (c.connected /\ ~Endless(c.buf))
  OBVIOUS
<1>6. PICK e : e = Waiting(c, up)
  OBVIOUS
<1>7. session' = [session EXCEPT ![s] = e] /\ wire' = wire /\ due' = due /\ answers' = answers
  BY <1>1, <1>5, <1>6 DEF AwaitLine, Waiting
<1>8. c.keys = <<>> /\ (c.buf = <<>> \/ (c.state = "kNewCommand" /\ Crlf(c) = 0))
  BY <1>1 DEF AwaitLine, Reading
<1>9. /\ e \in SessionStates /\ e.state = c.state /\ e.buf = c.buf /\ e.keys = c.keys
      /\ (e.connected <=> up) /\ e.noreply = c.noreply
      /\ e.policy = c.policy /\ e.currItem = c.currItem /\ e.needed = c.needed /\ e.bytesToDiscard = c.bytesToDiscard
  <2>1. up \in BOOLEAN
    BY <1>5
  <2> QED
    BY <1>4, <1>6, <2>1, LineAwaited
<1>10. e.connected => c.connected /\ ~Endless(c.buf)
  BY <1>5, <1>9
<1>11. StreamOK(e, w, due[s], a)
  BY <1>4, <1>8, <1>9, <1>10, AwaitStream
<1>12. answers' = [answers EXCEPT ![s] = a]
  BY <1>3, <1>7 DEF StreamInv
<1> QED
  BY <1>2, <1>7, <1>9, <1>11, <1>12, StreamStep

\* What reply sends.
LEMMA ReplyIs ==
    ASSUME NEW s, NEW a, a = answers[s], answers \in [Sessions -> Seq(AnswerTexts)], s \in Sessions, NEW c, NEW msg, reply(s, c, msg)
    PROVE  answers' = [answers EXCEPT ![s] = Sends(c.connected, a, IF c.noreply THEN <<>> ELSE <<msg>>)]
  BY DEF reply, Send, Sends

LEMMA doUpdateStreams ==
    ASSUME MemTypeOK, StreamInv, NEW s \in Sessions, doUpdate(s)
    PROVE  StreamInv'
<1>1. PICK c : c = session[s]
  OBVIOUS
<1>2. PICK r : r = Parsed(c)
  OBVIOUS
<1>3. NewLine(s) /\ r.op \in Updates
  BY <1>1, <1>2 DEF doUpdate
<1>4. c \in SessionStates /\ c.busy /\ c.keys = <<>> /\ c.state = "kNewCommand" /\ Crlf(c) > 0 /\ r \in SentCommands
  BY <1>1, <1>2, <1>3, NewLineFacts
<1>5. PICK w : w = wire[s]
  OBVIOUS
<1>6. PICK a : a = answers[s]
  OBVIOUS
<1>7. w \in Seq(StreamUnits) /\ StreamOK(c, w, due[s], a) /\ answers \in [Sessions -> Seq(AnswerTexts)]
  BY <1>1, <1>5, <1>6, SessionKnown
<1>8. wire' = wire /\ due' = due
  BY DEF doUpdate
<1>9. CASE r.bytes > MaxValue
  <2>1. PICK e : e = Discarding(c, r)
    OBVIOUS
  <2>2. PICK l : l = LineTaken(c, r)
    OBVIOUS
  <2>3. session' = [session EXCEPT ![s] = e] /\ reply(s, l, "SERVER_ERROR")
    BY <1>1, <1>2, <1>9, <2>1, <2>2 DEF doUpdate, LineTaken, Discarding
  <2>4. l.connected = c.connected /\ l.noreply = (c.noreply \/ r.noreply)
    BY <1>3, <1>4, <2>2, LineTakenIs
  <2>5. PICK x : x = Sends(c.connected, a, IF c.noreply \/ r.noreply THEN <<>> ELSE <<"SERVER_ERROR">>)
    OBVIOUS
  <2>6. answers' = [answers EXCEPT ![s] = x]
    <3>1. answers' = [answers EXCEPT ![s] = Sends(l.connected, a, IF l.noreply THEN <<>> ELSE <<"SERVER_ERROR">>)]
      BY <1>6, <1>7, <2>3, ReplyIs
    <3> QED
      BY <2>4, <2>5, <3>1
  <2>7. /\ e \in SessionStates /\ e.state = "kDiscardValue" /\ e.bytesToDiscard = r.bytes + 1
        /\ e.buf = Behind(c) /\ e.keys = c.keys /\ e.connected = c.connected /\ e.busy = c.busy
    <3>1. c \in SessionStates /\ Crlf(c) > 0 /\ r \in SentCommands /\ r.op \in Updates
      BY <1>3, <1>4
    <3> QED
      BY <2>1, <3>1, DiscardBegun, ZenonT(40)
  <2>8. StreamOK(e, w, due[s], x)
    <3>1. DiscardBegins(c, r, e, a, x)
      BY <1>2, <1>3, <1>4, <1>9, <2>5, <2>7 DEF DiscardBegins
    <3> QED
      BY <1>4, <1>7, <3>1, DiscardBeginsStream
  <2> QED
    BY <1>5, <1>8, <2>3, <2>6, <2>7, <2>8, StreamStep
<1>10. CASE ~(r.bytes > MaxValue)
  <2>1. PICK id : id = WriteId(s)
    OBVIOUS
  <2>2. PICK e : e = Receiving(c, r, id)
    OBVIOUS
  <2>3. session' = [session EXCEPT ![s] = e] /\ answers' = answers
    BY <1>1, <1>2, <1>10, <2>1, <2>2 DEF doUpdate, LineTaken, Receiving
  <2>4. id \in Sessions \X Nat \X Nat
    <3>1. c.buf \in Seq(StreamUnits) /\ requests[s] \in Nat
      BY <1>4, FieldsOf DEF MemTypeOK
    <3>2. Len(c.buf) \in Nat /\ Len(w) \in Nat
      BY <1>7, <3>1
    <3>3. Len(c.buf) + Len(w) \in Nat
      BY <3>2
    <3> QED
      BY <1>1, <1>5, <2>1, <3>1, <3>3, Zenon DEF WriteId
  <2>5. /\ e \in SessionStates /\ e.state = "kReceiveValue" /\ e.needed = r.bytes + 1
        /\ e.currItem.value = <<>> /\ e.policy = r.op
        /\ e.buf = Behind(c) /\ e.noreply = (c.noreply \/ r.noreply) /\ e.keys = c.keys
        /\ e.connected = c.connected /\ e.busy = c.busy
    <3>1. c \in SessionStates /\ Crlf(c) > 0 /\ r \in SentCommands /\ r.op \in Updates
      BY <1>3, <1>4
    <3> QED
      BY <2>2, <2>4, <3>1, ValueBegun
  <2>6. StreamOK(e, w, due[s], a)
    BY <1>2, <1>3, <1>4, <1>7, <1>10, <2>5, ReceiveStream
  <2>7. answers' = [answers EXCEPT ![s] = a]
    BY <1>6, <1>7, <2>3
  <2> QED
    BY <1>5, <1>8, <2>3, <2>5, <2>6, <2>7, StreamStep
<1> QED
  BY <1>9, <1>10

LEMMA StartGetStreams ==
    ASSUME MemTypeOK, StreamInv, NEW s \in Sessions, StartGet(s)
    PROVE  StreamInv'
<1>1. PICK c : c = session[s]
  OBVIOUS
<1>2. PICK r : r = Parsed(c)
  OBVIOUS
<1>3. NewLine(s) /\ r.op \in {"get", "gets"}
  BY <1>1, <1>2 DEF StartGet
<1>4. c \in SessionStates /\ c.busy /\ c.keys = <<>> /\ c.state = "kNewCommand" /\ Crlf(c) > 0 /\ r \in SentCommands
  BY <1>1, <1>2, <1>3, NewLineFacts
<1>5. PICK w : w = wire[s]
  OBVIOUS
<1>6. PICK a : a = answers[s]
  OBVIOUS
<1>7. w \in Seq(StreamUnits) /\ StreamOK(c, w, due[s], a) /\ answers \in [Sessions -> Seq(AnswerTexts)]
  BY <1>1, <1>5, <1>6, SessionKnown
<1>8. PICK e : e = Getting(c, r)
  OBVIOUS
<1>9. session' = [session EXCEPT ![s] = e] /\ wire' = wire /\ due' = due /\ answers' = answers
  BY <1>1, <1>2, <1>8 DEF StartGet, Getting
<1>10. /\ e \in SessionStates /\ e.state = c.state /\ e.buf = c.buf /\ e.keys # <<>>
       /\ e.connected = c.connected /\ e.busy = c.busy
  BY <1>3, <1>4, <1>8, GetBegun
<1>11. StreamOK(e, w, due[s], a)
  BY <1>2, <1>3, <1>4, <1>7, <1>10, GetStream
<1>12. answers' = [answers EXCEPT ![s] = a]
  BY <1>6, <1>7, <1>9
<1> QED
  BY <1>5, <1>9, <1>10, <1>11, <1>12, StreamStep

LEMMA getItemStreams ==
    ASSUME MemTypeOK, StreamInv, NEW s \in Sessions, getItem(s)
    PROVE  StreamInv' /\ session[s].state = "kNewCommand"
<1>1. PICK c : c = session[s]
  OBVIOUS
<1>2. PICK i : i = items[Head(c.keys)]
  OBVIOUS
<1>3. PICK w : w = wire[s]
  OBVIOUS
<1>4. PICK a : a = answers[s]
  OBVIOUS
<1>5. /\ c \in SessionStates /\ w \in Seq(StreamUnits) /\ StreamOK(c, w, due[s], a)
      /\ answers \in [Sessions -> Seq(AnswerTexts)]
  BY <1>1, <1>3, <1>4, SessionKnown
<1>6. c.keys # <<>> /\ c.busy /\ wire' = wire /\ due' = due
  BY <1>1 DEF getItem
<1>7. i \in StoreItems \cup {NoItem}
  <2>1. c.keys \in Seq(ItemKeys)
    BY <1>5, FieldsOf
  <2>2. Head(c.keys) \in ItemKeys
    BY <1>6, <2>1
  <2> QED
    BY <1>2, <2>2 DEF MemTypeOK
<1>8. PICK e : e = KeyTaken(c, i)
  OBVIOUS
<1>9. /\ e \in SessionStates /\ e.state = c.state /\ e.buf = c.buf
      /\ e.connected = c.connected /\ e.busy = c.busy
  <2>1. c \in SessionStates /\ c.keys # <<>>
    BY <1>5, <1>6
  <2> QED
    BY <1>7, <1>8, <2>1, KeyGot
<1>10. c.state = "kNewCommand"
  <2>1. PICK h, p, k : Following(h, c, w, due[s], a, p, k)
    BY <1>5 DEF StreamOK
  <2>2. BeforeCommand(h, c, a, p, k)
    BY <1>5, <1>6, <2>1, FollowingParts
  <2> QED
    BY <2>2 DEF BeforeCommand
<1>11. CASE e.keys # <<>>
  <2>1. session' = [session EXCEPT ![s] = e] /\ answers' = answers
    BY <1>1, <1>2, <1>8, <1>11 DEF getItem, KeyTaken
  <2>2. StreamOK(e, w, due[s], a)
    BY <1>5, <1>6, <1>9, <1>11, KeyStream
  <2>3. answers' = [answers EXCEPT ![s] = a]
    BY <1>4, <1>5, <2>1
  <2>4. StreamInv'
    BY <1>3, <1>6, <1>9, <2>1, <2>2, <2>3, StreamStep
  <2> QED
    BY <1>1, <1>10, <2>4
<1>12. CASE e.keys = <<>>
  <2>1. PICK f : f = GetOver(e)
    OBVIOUS
  <2>2. session' = [session EXCEPT ![s] = f] /\ Send(s, c, <<"END">>)
    BY <1>1, <1>2, <1>8, <1>12, <2>1 DEF getItem, KeyTaken, GetOver
  <2>3. /\ f \in SessionStates /\ f.state = e.state /\ f.buf = Behind(e) /\ f.keys = e.keys
        /\ f.connected = e.connected /\ f.busy = e.busy /\ ~f.noreply
    BY <1>9, <2>1, GetDone
  <2>4. Behind(e) = Behind(c)
    BY <1>9 DEF Behind, Crlf
  <2>5. PICK x : x = Sends(c.connected, a, <<"END">>)
    OBVIOUS
  <2>6. answers' = [answers EXCEPT ![s] = x]
    BY <1>4, <1>5, <2>2, <2>5 DEF Send, Sends
  <2>7. f.buf = Behind(c) /\ f.state = c.state /\ f.keys = <<>> /\ f.busy /\ f.connected = c.connected /\ ~f.noreply
    BY <1>6, <1>9, <1>12, <2>3, <2>4
  <2>8. StreamOK(f, w, due[s], x)
    BY <1>5, <1>6, <2>5, <2>7, LastKeyStream
  <2>9. StreamInv'
    BY <1>3, <1>6, <2>2, <2>3, <2>6, <2>8, StreamStep
  <2> QED
    BY <1>1, <1>10, <2>9
<1> QED
  BY <1>11, <1>12

LEMMA doDeleteStreams ==
    ASSUME MemTypeOK, StreamInv, NEW s \in Sessions, doDelete(s)
    PROVE  StreamInv'
<1>1. PICK c : c = session[s]
  OBVIOUS
<1>2. PICK r : r = Parsed(c)
  OBVIOUS
<1>3. NewLine(s) /\ r.op = "delete" /\ wire' = wire /\ due' = due
  BY <1>1, <1>2 DEF doDelete
<1>4. c \in SessionStates /\ c.busy /\ c.keys = <<>> /\ c.state = "kNewCommand" /\ Crlf(c) > 0 /\ r \in SentCommands
  BY <1>1, <1>2, <1>3, NewLineFacts
<1>5. PICK w : w = wire[s]
  OBVIOUS
<1>6. PICK a : a = answers[s]
  OBVIOUS
<1>7. w \in Seq(StreamUnits) /\ StreamOK(c, w, due[s], a) /\ answers \in [Sessions -> Seq(AnswerTexts)]
  BY <1>1, <1>5, <1>6, SessionKnown
<1>8. PICK b \in BOOLEAN : b = (c.noreply \/ r.noreply)
  OBVIOUS
<1>9. PICK e : e = Replied(c, b)
  OBVIOUS
<1>10. PICK l : l = [c EXCEPT !.noreply = b]
  OBVIOUS
<1>11. PICK msg : msg = IF items[Head(r.keys)] = NoItem THEN "NOT_FOUND" ELSE "DELETED"
  OBVIOUS
<1>12. session' = [session EXCEPT ![s] = e] /\ reply(s, l, msg)
  BY <1>1, <1>2, <1>8, <1>9, <1>10, <1>11 DEF doDelete, Replied
<1>13. l.connected = c.connected /\ l.noreply = b
  <2>1. DOMAIN c = SessionFields
    BY <1>4, FieldsOf
  <2> QED
    BY <1>10, <2>1 DEF SessionFields
<1>14. /\ e \in SessionStates /\ e.state = c.state /\ e.buf = Behind(c) /\ ~e.noreply /\ e.keys = c.keys
       /\ e.connected = c.connected /\ e.busy = c.busy
  BY <1>4, <1>9, LineAnswered
<1>15. PICK x : x = Sends(c.connected, a, IF c.noreply \/ r.noreply THEN <<>> ELSE <<msg>>)
  OBVIOUS
<1>16. answers' = [answers EXCEPT ![s] = x]
  <2>1. answers' = [answers EXCEPT ![s] = Sends(l.connected, a, IF l.noreply THEN <<>> ELSE <<msg>>)]
    BY <1>6, <1>7, <1>12, ReplyIs
  <2> QED
    BY <1>8, <1>13, <1>15, <2>1
<1>17. StreamOK(e, w, due[s], x)
  <2>1. r.op \notin Updates \cup {"get", "gets", "quit", "shutdown", "version", "malformed", "unknown", "empty"}
    BY <1>3 DEF Updates
  <2>2. msg \in {"DELETED", "NOT_FOUND"}
    BY <1>11
  <2>3. x = IF r.op \in {"quit", "shutdown"} THEN a
            ELSE Sends(c.connected, a, IF c.noreply \/ r.noreply THEN <<>> ELSE <<msg>>)
    BY <1>15, <2>1
  <2>4. LineReplied(c, r, e, msg, a, x)
    BY <1>2, <1>4, <1>14, <2>1, <2>2, <2>3 DEF LineReplied
  <2> QED
    BY <1>4, <1>7, <2>4, LineRepliedStream
<1> QED
  BY <1>3, <1>5, <1>12, <1>14, <1>16, <1>17, StreamStep

LEMMA processRequestStreams ==
    ASSUME MemTypeOK, StreamInv, NEW s \in Sessions, processRequest(s)
    PROVE  StreamInv'
<1>1. PICK c : c = session[s]
  OBVIOUS
<1>2. PICK r : r = Parsed(c)
  OBVIOUS
<1>3. NewLine(s) /\ r.op \notin Updates \cup {"get", "gets", "delete"} /\ wire' = wire /\ due' = due
  BY <1>1, <1>2 DEF processRequest
<1>4. c \in SessionStates /\ c.busy /\ c.keys = <<>> /\ c.state = "kNewCommand" /\ Crlf(c) > 0 /\ r \in SentCommands
  BY <1>1, <1>2, <1>3, NewLineFacts
<1>5. PICK w : w = wire[s]
  OBVIOUS
<1>6. PICK a : a = answers[s]
  OBVIOUS
<1>7. w \in Seq(StreamUnits) /\ StreamOK(c, w, due[s], a) /\ answers \in [Sessions -> Seq(AnswerTexts)]
  BY <1>1, <1>5, <1>6, SessionKnown
<1>8. PICK b \in BOOLEAN : b = (c.noreply \/ r.noreply)
  OBVIOUS
<1>9. PICK g : g = Replied(c, b)
  OBVIOUS
<1>10. PICK up \in BOOLEAN : up = (g.connected /\ r.op \notin {"quit", "shutdown"})
  OBVIOUS
<1>11. PICK e : e = Shut(c, b, up)
  OBVIOUS
<1>12. PICK l : l = [c EXCEPT !.noreply = b]
  OBVIOUS
<1>13. session' = [session EXCEPT ![s] = e]
  BY <1>1, <1>2, <1>8, <1>9, <1>10, <1>11 DEF processRequest, Shut, Replied
<1>14. /\ e \in SessionStates /\ e.state = c.state /\ e.buf = Behind(c) /\ ~e.noreply /\ e.keys = c.keys
       /\ (e.connected <=> up) /\ e.busy = c.busy /\ g.connected = c.connected
  <2>1. b \in BOOLEAN /\ up \in BOOLEAN
    BY <1>8, <1>10
  <2>2. g.connected = c.connected
    BY <1>4, <1>9, <2>1, LineAnswered
  <2> QED
    <3>1. c \in SessionStates /\ Crlf(c) > 0
      BY <1>4
    <3>2. /\ e \in SessionStates /\ e.state = c.state /\ e.buf = Behind(c) /\ ~e.noreply /\ e.keys = c.keys
          /\ (e.connected <=> up) /\ e.busy = c.busy
      BY <1>11, <2>1, <3>1, LineDone
    <3> QED
      BY <2>2, <3>2
<1>15. (e.connected => c.connected) /\ (r.op \in {"quit", "shutdown"} => ~e.connected)
  BY <1>10, <1>14
<1>16. PICK msg : msg = IF r.op = "version" THEN "VERSION" ELSE IF r.op = "malformed" THEN "CLIENT_ERROR" ELSE "ERROR"
  OBVIOUS
<1>17. PICK x : x = IF r.op \in {"quit", "shutdown"} THEN a
                    ELSE Sends(c.connected, a, IF c.noreply \/ r.noreply THEN <<>> ELSE <<msg>>)
  OBVIOUS
<1>18. answers' = [answers EXCEPT ![s] = x]
  <2>1. CASE r.op \in {"quit", "shutdown"}
    <3>1. answers' = answers
      BY <1>1, <1>2, <2>1 DEF processRequest
    <3> QED
      BY <1>6, <1>7, <1>17, <2>1, <3>1
  <2>2. CASE r.op \notin {"quit", "shutdown"}
    <3>1. reply(s, l, msg)
      BY <1>1, <1>2, <1>8, <1>12, <1>16, <2>2 DEF processRequest
    <3>2. l.connected = c.connected /\ l.noreply = b
      <4>1. DOMAIN c = SessionFields
        BY <1>4, FieldsOf
      <4> QED
        BY <1>12, <4>1 DEF SessionFields
    <3>3. answers' = [answers EXCEPT ![s] = Sends(l.connected, a, IF l.noreply THEN <<>> ELSE <<msg>>)]
      BY <1>6, <1>7, <3>1, ReplyIs
    <3> QED
      BY <1>8, <1>17, <2>2, <3>2, <3>3
  <2> QED
    BY <2>1, <2>2
<1>19. StreamOK(e, w, due[s], x)
  <2>1. r.op \notin Updates \cup {"get", "gets"} /\ r.op # "delete"
    BY <1>3
  <2>2. /\ (r.op = "version" => msg = "VERSION") /\ (r.op = "malformed" => msg = "CLIENT_ERROR")
        /\ (r.op \in {"unknown", "empty"} => msg = "ERROR")
    BY <1>16
  <2>3. LineReplied(c, r, e, msg, a, x)
    BY <1>2, <1>4, <1>14, <1>15, <1>17, <2>1, <2>2 DEF LineReplied
  <2> QED
    BY <1>4, <1>7, <2>3, LineRepliedStream
<1> QED
  BY <1>3, <1>5, <1>13, <1>14, <1>18, <1>19, StreamStep

\* What storeItem's result is answered with is what the update calls for.
LEMMA StoredIsDue ==
    ASSUME NEW item, NEW policy \in Updates
    PROVE  Stored(item, policy) \in StoredAnswers(policy)
<1>1. CASE Stores(item, policy)
  <2>1. Stored(item, policy) = "STORED"
    BY <1>1 DEF Stored
  <2> QED
    BY <2>1 DEF StoredAnswers
<1>2. CASE ~Stores(item, policy) /\ policy = "cas"
  <2>1. Stored(item, policy) \in {"NOT_FOUND", "EXISTS"}
    BY <1>2 DEF Stored
  <2> QED
    BY <1>2, <2>1 DEF StoredAnswers
<1>3. CASE ~Stores(item, policy) /\ policy # "cas"
  <2>1. Stored(item, policy) = "NOT_STORED"
    BY <1>3 DEF Stored
  <2>2. policy # "set"
    BY <1>3 DEF Stores
  <2> QED
    BY <1>3, <2>1, <2>2 DEF StoredAnswers
<1> QED
  BY <1>1, <1>2, <1>3

LEMMA receiveValueStreams ==
    ASSUME MemTypeOK, StreamInv, NEW s \in Sessions, receiveValue(s)
    PROVE  StreamInv'
<1>1. PICK c : c = session[s]
  OBVIOUS
<1>2. PICK n : n = Minimum(Len(c.buf), c.needed)
  OBVIOUS
<1>3. PICK g : g = ValuePart(c, n)
  OBVIOUS
<1>4. PICK w : w = wire[s]
  OBVIOUS
<1>5. PICK a : a = answers[s]
  OBVIOUS
<1>6. /\ c \in SessionStates /\ ValueAwaited(c) /\ w \in Seq(StreamUnits) /\ StreamOK(c, w, due[s], a)
      /\ answers \in [Sessions -> Seq(AnswerTexts)]
  BY <1>1, <1>4, <1>5, SessionKnown
<1>7. c.state = "kReceiveValue" /\ c.buf # <<>> /\ c.busy /\ wire' = wire /\ due' = due
  BY <1>1 DEF receiveValue, Reading
<1>8. /\ n \in 1 .. Len(c.buf) /\ n <= c.needed /\ c.needed \in Nat /\ g \in SessionStates
      /\ g.buf = SubSeq(c.buf, n + 1, Len(c.buf)) /\ g.needed = c.needed - n
      /\ g.state = c.state /\ g.policy = c.policy /\ g.noreply = c.noreply /\ g.keys = c.keys
      /\ g.connected = c.connected /\ g.busy = c.busy
  <2>1. c \in SessionStates /\ ValueAwaited(c) /\ c.state = "kReceiveValue" /\ c.buf # <<>>
    BY <1>6, <1>7
  <2> QED
    BY <1>2, <1>3, <2>1, ValueRead, SMTT(30)
<1>9. /\ Len(g.currItem.value) = Len(c.currItem.value) + n /\ Len(c.currItem.value) \in Nat
      /\ Last(g.currItem.value) = c.buf[n]
  BY <1>2, <1>3, <1>6, <1>7, WholeIsSomething
<1>10. n \in 0 .. Len(c.buf) /\ n \in Nat
  <2>1. c.buf \in Seq(StreamUnits)
    BY <1>6, FieldsOf
  <2>2. PICK lb \in Nat : lb = Len(c.buf)
    BY <2>1
  <2> QED
    BY <1>8, <2>2
<1>11. CASE g.needed > 0
  <2>1. session' = [session EXCEPT ![s] = g] /\ answers' = answers
    BY <1>1, <1>2, <1>3, <1>11 DEF receiveValue, ValuePart
  <2>2. StreamOK(g, w, due[s], a)
    BY <1>6, <1>7, <1>8, <1>9, <1>10, ValueStream
  <2>3. answers' = [answers EXCEPT ![s] = a]
    BY <1>5, <1>6, <2>1
  <2> QED
    BY <1>4, <1>7, <1>8, <2>1, <2>2, <2>3, StreamStep
<1>12. CASE ~(g.needed > 0)
  <2>1. PICK e : e = ValueOver(g)
    OBVIOUS
  <2>2. PICK item : item = [g.currItem EXCEPT !.value = Front(g.currItem.value)]
    OBVIOUS
  <2>3. PICK msg : msg = IF c.buf[n] = EOL THEN Stored(item, c.policy) ELSE "CLIENT_ERROR"
    OBVIOUS
  <2>4. session' = [session EXCEPT ![s] = e]
    BY <1>1, <1>2, <1>3, <1>12, <2>1 DEF receiveValue, ValuePart, ValueOver
  <2>5. reply(s, c, msg)
    <3>1. CASE c.buf[n] = EOL
      <4>1. Last(g.currItem.value) = EOL
        BY <1>9, <3>1
      <4>2. reply(s, c, Stored(item, c.policy))
        BY <1>1, <1>2, <1>3, <1>12, <2>2, <4>1 DEF receiveValue, ValuePart
      <4> QED
        BY <2>3, <3>1, <4>2
    <3>2. CASE c.buf[n] # EOL
      <4>1. Last(g.currItem.value) # EOL
        BY <1>9, <3>2
      <4>2. reply(s, c, "CLIENT_ERROR")
        BY <1>1, <1>2, <1>3, <1>12, <4>1 DEF receiveValue, ValuePart
      <4> QED
        BY <2>3, <3>2, <4>2
    <3> QED
      BY <3>1, <3>2
  <2>6. PICK x : x = Sends(c.connected, a, IF c.noreply THEN <<>> ELSE <<msg>>)
    OBVIOUS
  <2>7. answers' = [answers EXCEPT ![s] = x]
    BY <1>5, <1>6, <2>5, <2>6, ReplyIs
  <2>8. /\ e \in SessionStates /\ e.state = "kNewCommand" /\ ~e.noreply /\ e.buf = g.buf /\ e.keys = g.keys
        /\ e.connected = g.connected /\ e.busy = g.busy
    BY <1>8, <2>1, ValueDone
  <2>9. n = c.needed
    <3>1. PICK nd \in Nat : nd = c.needed
      BY <1>8
    <3>2. ~(nd - n > 0) /\ n <= nd
      BY <1>8, <1>12, <3>1
    <3>3. n = nd
      BY <1>10, <3>1, <3>2
    <3> QED
      BY <3>1, <3>3
  <2>10. (c.buf[n] = EOL => msg \in StoredAnswers(c.policy)) /\ (c.buf[n] # EOL => msg = "CLIENT_ERROR")
    <3>1. c.policy \in Updates
      BY <1>6, <1>7 DEF ValueAwaited
    <3>2. Stored(item, c.policy) \in StoredAnswers(c.policy)
      BY <3>1, StoredIsDue
    <3> QED
      BY <2>3, <3>2
  <2>11. /\ e.buf = SubSeq(c.buf, n + 1, Len(c.buf)) /\ e.state = "kNewCommand" /\ e.keys = c.keys /\ e.busy
         /\ e.connected = c.connected /\ ~e.noreply
    BY <1>7, <1>8, <2>8
  <2>12. StreamOK(e, w, due[s], x)
    BY <1>6, <1>7, <1>8, <1>9, <2>6, <2>9, <2>10, <2>11, ValueOverStream
  <2> QED
    BY <1>4, <1>7, <2>4, <2>7, <2>8, <2>12, StreamStep
<1> QED
  BY <1>11, <1>12

LEMMA discardValueStreams ==
    ASSUME MemTypeOK, StreamInv, NEW s \in Sessions, discardValue(s)
    PROVE  StreamInv'
<1>1. PICK c : c = session[s]
  OBVIOUS
<1>2. PICK n : n = Minimum(Len(c.buf), c.bytesToDiscard)
  OBVIOUS
<1>3. PICK g : g = Dropped(c, n)
  OBVIOUS
<1>4. PICK w : w = wire[s]
  OBVIOUS
<1>5. PICK a : a = answers[s]
  OBVIOUS
<1>6. /\ c \in SessionStates /\ w \in Seq(StreamUnits) /\ StreamOK(c, w, due[s], a)
      /\ answers \in [Sessions -> Seq(AnswerTexts)]
  BY <1>1, <1>4, <1>5, SessionKnown
<1>7. c.state = "kDiscardValue" /\ c.busy /\ wire' = wire /\ due' = due /\ answers' = answers
  BY <1>1 DEF discardValue, Reading
<1>8. /\ n \in 0 .. Len(c.buf) /\ n <= c.bytesToDiscard /\ g \in SessionStates
      /\ g.buf = SubSeq(c.buf, n + 1, Len(c.buf)) /\ g.bytesToDiscard = c.bytesToDiscard - n
      /\ g.state = c.state /\ g.keys = c.keys /\ g.connected = c.connected /\ g.busy = c.busy
  <2>1. c \in SessionStates /\ c.state = "kDiscardValue"
    BY <1>6, <1>7
  <2> QED
    BY <1>2, <1>3, <2>1, ValueDiscarded, SMTT(30)
<1>9. answers' = [answers EXCEPT ![s] = a]
  BY <1>5, <1>6, <1>7
<1>10. CASE g.bytesToDiscard > 0
  <2>1. session' = [session EXCEPT ![s] = g]
    BY <1>1, <1>2, <1>3, <1>10 DEF discardValue, Dropped
  <2>2. StreamOK(g, w, due[s], a)
    BY <1>6, <1>7, <1>8, <1>10, DropStream
  <2> QED
    BY <1>4, <1>7, <1>8, <1>9, <2>1, <2>2, StreamStep
<1>11. CASE ~(g.bytesToDiscard > 0)
  <2>1. PICK e : e = ValueOver(g)
    OBVIOUS
  <2>2. session' = [session EXCEPT ![s] = e]
    BY <1>1, <1>2, <1>3, <1>11, <2>1 DEF discardValue, Dropped, ValueOver
  <2>3. /\ e \in SessionStates /\ e.state = "kNewCommand" /\ ~e.noreply /\ e.buf = g.buf /\ e.keys = g.keys
        /\ e.connected = g.connected /\ e.busy = g.busy
    BY <1>8, <2>1, ValueDone
  <2>4. n = c.bytesToDiscard
    <3>1. PICK b \in Nat : b = c.bytesToDiscard
      BY <1>6, FieldsOf
    <3>2. n \in Nat
      <4>1. c.buf \in Seq(StreamUnits)
        BY <1>6, FieldsOf
      <4>2. PICK lb \in Nat : lb = Len(c.buf)
        BY <4>1
      <4> QED
        BY <1>8, <4>2
    <3>3. ~(b - n > 0) /\ n <= b
      BY <1>8, <1>11, <3>1
    <3>4. n = b
      BY <3>1, <3>2, <3>3
    <3> QED
      BY <3>1, <3>4
  <2>5. /\ e.buf = SubSeq(c.buf, n + 1, Len(c.buf)) /\ e.keys = c.keys /\ e.busy /\ e.connected = c.connected
    BY <1>7, <1>8, <2>3
  <2>6. StreamOK(e, w, due[s], a)
    BY <1>6, <1>7, <1>8, <2>3, <2>4, <2>5, DropOverStream
  <2> QED
    BY <1>4, <1>7, <1>9, <2>2, <2>3, <2>6, StreamStep
<1> QED
  BY <1>10, <1>11

-----------------------------------------------------------------------------
\* The inductive invariant.
MemInv == MemTypeOK /\ CasInv /\ StreamInv

LEMMA MemInvStarts == MemInit => MemInv
<1>1. SUFFICES ASSUME MemInit PROVE StreamInv
  BY MemStarts DEF MemInv
<1>2. ASSUME NEW s \in Sessions PROVE StreamOK(session[s], wire[s], due[s], answers[s])
  <2>1. session[s] = NewSession /\ wire[s] = <<>> /\ due[s] = <<>> /\ answers[s] = <<>>
    BY <1>1 DEF MemInit
  <2> QED
    BY <2>1, NewStream
<1>3. due \in [Sessions -> Seq(SUBSET AnswerTexts)] /\ answers \in [Sessions -> Seq(AnswerTexts)]
  BY <1>1 DEF MemInit
<1> QED
  BY <1>2, <1>3 DEF StreamInv

LEMMA MemInvKept == MemInv /\ [MemNext]_memVars => MemInv'
<1>1. SUFFICES ASSUME MemInv, [MemNext]_memVars PROVE MemInv'
  OBVIOUS
<1>2. MemTypeOK /\ CasInv /\ StreamInv
  BY <1>1 DEF MemInv
<1>3. CASE UNCHANGED memVars
  <2>1. /\ items' = items /\ nextCas' = nextCas /\ session' = session /\ wire' = wire /\ requests' = requests
        /\ due' = due /\ answers' = answers /\ seen' = seen /\ swaps' = swaps
    BY <1>3 DEF memVars
  <2>2. MemTypeOK'
    BY <1>2, <2>1 DEF MemTypeOK
  <2>3. KnownItems' = KnownItems
    BY <2>1 DEF KnownItems
  <2>4. CasInv'
    BY <1>2, <2>1, <2>3 DEF CasInv
  <2>5. StreamInv'
    BY <1>2, <2>1 DEF StreamInv
  <2> QED
    BY <2>2, <2>4, <2>5 DEF MemInv
<1>4. CASE quit
  <2>1. StreamInv'
    BY <1>2, <1>4 DEF quit, StreamInv
  <2> QED
    BY <1>2, <1>4, <2>1, quitType DEF MemInv
<1>5. ASSUME NEW s \in Sessions, NEW r \in Commands[s], Request(s, r) PROVE MemInv'
  BY <1>2, <1>5, RequestType, RequestStreams DEF MemInv
<1>6. ASSUME NEW s \in Sessions, NEW n, onMessage(s, n) PROVE MemInv'
  BY <1>2, <1>6, onMessageType, onMessageStreams DEF MemInv
<1>7. ASSUME NEW s \in Sessions, onConnection(s) PROVE MemInv'
  BY <1>2, <1>7, onConnectionType, onConnectionStreams DEF MemInv
<1>8. ASSUME NEW s \in Sessions, AwaitLine(s) PROVE MemInv'
  BY <1>2, <1>8, AwaitLineType, AwaitLineStreams DEF MemInv
<1>9. ASSUME NEW s \in Sessions, doUpdate(s) PROVE MemInv'
  BY <1>2, <1>9, doUpdateType, doUpdateStreams DEF MemInv
<1>10. ASSUME NEW s \in Sessions, StartGet(s) PROVE MemInv'
  BY <1>2, <1>10, StartGetType, StartGetStreams DEF MemInv
<1>11. ASSUME NEW s \in Sessions, getItem(s) PROVE MemInv'
  BY <1>2, <1>11, getItemType, getItemStreams DEF MemInv
<1>12. ASSUME NEW s \in Sessions, doDelete(s) PROVE MemInv'
  BY <1>2, <1>12, doDeleteType, doDeleteStreams DEF MemInv
<1>13. ASSUME NEW s \in Sessions, processRequest(s) PROVE MemInv'
  BY <1>2, <1>13, processRequestType, processRequestStreams DEF MemInv
<1>14. ASSUME NEW s \in Sessions, receiveValue(s) PROVE MemInv'
  BY <1>2, <1>14, receiveValueType, receiveValueStreams DEF MemInv
<1>15. ASSUME NEW s \in Sessions, discardValue(s) PROVE MemInv'
  BY <1>2, <1>15, discardValueType, discardValueStreams DEF MemInv
<1> QED
  BY <1>1, <1>3, <1>4, <1>5, <1>6, <1>7, <1>8, <1>9, <1>10, <1>11, <1>12, <1>13, <1>14, <1>15 DEF MemNext

LEMMA MemInvGives == MemInv => MemcachedCorrect
<1>1. SUFFICES ASSUME MemInv PROVE AnswersInTurn /\ CasReplacesSeen
  BY DEF MemcachedCorrect
<1>2. ASSUME NEW w \in swaps, NEW g \in seen, w.key = g.key, w.cas = g.cas PROVE w.id = g.id
  <2>1. w \in KnownItems /\ g \in KnownItems
    BY <1>2, Zenon DEF KnownItems
  <2> QED
    BY <1>1, <1>2, <2>1 DEF MemInv, CasInv
<1>3. ASSUME NEW s \in Sessions
      PROVE  /\ Len(answers[s]) <= Len(due[s])
             /\ \A i \in DOMAIN answers[s] : answers[s][i] \in due[s][i]
             /\ wire[s] = <<>> /\ ~session[s].busy /\ session[s].connected => Len(answers[s]) = Len(due[s])
  <2>1. PICK c : c = session[s]
    OBVIOUS
  <2>2. PICK a : a = answers[s]
    OBVIOUS
  <2>3. PICK d : d = due[s]
    OBVIOUS
  <2>4. c \in SessionStates /\ ValueAwaited(c) /\ StreamOK(c, wire[s], d, a)
    BY <1>1, <2>1, <2>2, <2>3, SessionKnown DEF MemInv
  <2>5. a \in Seq(AnswerTexts) /\ Len(a) <= Len(d) /\ \A i \in 1 .. Len(a) : a[i] \in d[i]
    BY <2>4 DEF StreamOK, Answered
  <2>6. Len(a) <= Len(d) /\ \A i \in DOMAIN a : a[i] \in d[i]
    BY <2>5
  <2>7. wire[s] = <<>> /\ ~c.busy /\ c.connected => Len(a) = Len(d)
    BY <2>4, AllAnswered
  <2> QED
    BY <2>1, <2>2, <2>3, <2>6, <2>7
<1> QED
  BY <1>2, <1>3 DEF AnswersInTurn, CasReplacesSeen

(* The inductive invariant of the server (Connect::onMessage,              *)
(* Connect::receiveValue, Connect::discardValue, Connect::processRequest,  *)
(* MemcacheServer::storeItem): every session is at a place of its stream   *)
(* that fits its state, and identifiers tell items apart.                  *)
THEOREM MemcachedInvariant == MemSpec => []MemInv
<1>1. MemInit => MemInv
  BY MemInvStarts
<1>2. MemInv /\ [MemNext]_memVars => MemInv'
  BY MemInvKept
<1> QED
  BY <1>1, <1>2, PTL DEF MemSpec

(* Every command is answered once, in its turn and with an answer of its   *)
(* kind, no byte of a value is answered, a session that has read all it    *)
(* was sent owes nothing, and a cas replaces the very item that a gets     *)
(* showed (Connect::onMessage, MemcacheServer::storeItem).                 *)
THEOREM MemcachedServes == MemSpec => []MemcachedCorrect
  BY MemcachedInvariant, MemInvGives, PTL
=============================================================================
