--------------------------- MODULE ConnectionProofs ---------------------------
(***************************************************************************)
(* Programs over the connections of an event loop.                         *)
(*                                                                         *)
(* The tunnel between a user and a backend, for any number of bytes and    *)
(* any high-water mark.  The invariant says where the bytes are that a     *)
(* peer has sent (received by the other one, in its output, or in the      *)
(* input buffer), that reading is stopped only while something is left     *)
(* that starts it again, and that there are callbacks only once enough     *)
(* was sent to reach the mark.                                             *)
(*                                                                         *)
(* Idle connections, for any number of peers and any time they may be      *)
(* silent.  The list is in the order of the last message, whatever the     *)
(* clock says; the bucket of an entry says how often the timer was handled *)
(* since then.                                                             *)
(***************************************************************************)
EXTENDS Tunnel, Idle, FiniteSetTheorems, SequenceTheorems, TLAPS

Callbacks == [callback : {"onHighWaterMark", "onWriteComplete"}, side : Sides]

TunnelTypeOK ==
    /\ request \in {"good", "unresolved", "long", "done"}
    /\ tunnel \in {"none", "connecting", "up", "torn", "gone"}
    /\ mapped \in BOOLEAN
    /\ sideSent \in [Sides -> Nat]
    /\ sideBuf \in [Sides -> Seq(Nat)]
    /\ sideOut \in [Sides -> Seq(Nat)]
    /\ sideGot \in [Sides -> Seq(Nat)]
    /\ sideReads \in [Sides -> BOOLEAN]
    /\ sideState \in [Sides -> {"up", "shut", "down"}]
    /\ onWritten \in [Sides -> BOOLEAN]
    /\ queued \in Seq(Callbacks)
    /\ crashed \in BOOLEAN

\* The bytes of seq are the ones after the n-th.
Follows(seq, n) == \A i \in 1 .. Len(seq) : seq[i] = n + i

\* Nothing on the way to s was dropped.
Intact(s) == tunnel \in {"none", "connecting"} \/ (tunnel = "up" /\ sideState[s] = "up")

Passed(s) == Len(sideGot[s]) + Len(sideOut[s])

StreamTo(s) ==
    /\ Follows(sideGot[s], 0)
    /\ Follows(sideOut[s], Len(sideGot[s]))
    /\ Passed(s) <= sideSent[Opposite(s)]
    /\ Intact(s) => /\ Follows(sideBuf[Opposite(s)], Passed(s))
                    /\ Passed(s) + Len(sideBuf[Opposite(s)]) = sideSent[Opposite(s)]

NothingBefore ==
    /\ request # "done" => tunnel = "none"
    /\ tunnel \in {"none", "connecting"} => \A s \in Sides : sideOut[s] = <<>> /\ sideGot[s] = <<>>

Completion(s) == [callback |-> "onWriteComplete", side |-> s]

\* Reading stops only for an output that is being written, or whose
\* completion is queued.
StoppedInUse(s) ==
    ~sideReads[Opposite(s)] => /\ onWritten[s]
                               /\ \/ sideOut[s] # <<>>
                                  \/ \E i \in 1 .. Len(queued) : queued[i] = Completion(s)

MarkReached == \E s \in Sides : sideSent[s] >= HighWater

MarksReached ==
    /\ queued # <<>> => MarkReached
    /\ \A s \in Sides : onWritten[s] => MarkReached
    /\ crashed => tunnel = "torn" /\ MarkReached

TunnelInv ==
    /\ \A s \in Sides : StreamTo(s)
    /\ NothingBefore
    /\ BothUp => \A s \in Sides : StoppedInUse(s)
    /\ MarksReached

-----------------------------------------------------------------------------
(* Sequences of bytes.                                                     *)

LEMMA EmptyFollows == \A n \in Nat : Follows(<<>>, n) /\ <<>> \in Seq(Nat) /\ Len(<<>>) = 0
  BY EmptySeq DEF Follows

LEMMA AppendFollows ==
    ASSUME NEW s \in Seq(Nat), NEW n \in Nat, Follows(s, n), NEW b \in Nat, b = n + Len(s) + 1
    PROVE  Append(s, b) \in Seq(Nat) /\ Len(Append(s, b)) = Len(s) + 1 /\ Follows(Append(s, b), n)
<1> PICK r : r = Append(s, b)
  OBVIOUS
<1>1. /\ r \in Seq(Nat) /\ Len(r) = Len(s) + 1
      /\ (\A i \in 1 .. Len(s) : r[i] = s[i]) /\ r[Len(s) + 1] = b
  BY AppendProperties
<1>2. Len(s) \in Nat
  BY LenProperties
<1>3. ASSUME NEW i \in 1 .. Len(s) + 1 PROVE r[i] = n + i
  <2>1. CASE i = Len(s) + 1
    BY <2>1, <1>1, <1>2
  <2>2. CASE i \in 1 .. Len(s)
    BY <2>2, <1>1 DEF Follows
  <2> QED
    BY <2>1, <2>2, <1>2
<1> QED
  BY <1>1, <1>3 DEF Follows

LEMMA TailFollows ==
    ASSUME NEW s \in Seq(Nat), s # <<>>, NEW n \in Nat, Follows(s, n)
    PROVE  /\ Len(s) \in Nat \ {0} /\ Head(s) = n + 1
           /\ Tail(s) \in Seq(Nat) /\ Len(Tail(s)) = Len(s) - 1 /\ Follows(Tail(s), n + 1)
<1>1. Len(s) \in Nat \ {0}
  BY EmptySeq
<1>2. Head(s) = n + 1
  BY <1>1 DEF Follows
<1> PICK r : r = Tail(s)
  OBVIOUS
<1>3. r \in Seq(Nat) /\ Len(r) = Len(s) - 1 /\ \A i \in 1 .. Len(r) : r[i] = s[i + 1]
  BY HeadTailProperties
<1>4. ASSUME NEW i \in 1 .. Len(r) PROVE r[i] = (n + 1) + i
  <2>1. i + 1 \in 1 .. Len(s)
    BY <1>1, <1>3
  <2>2. s[i + 1] = n + (i + 1)
    BY <2>1 DEF Follows
  <2> QED
    BY <2>2, <1>3
<1> QED
  BY <1>1, <1>2, <1>3, <1>4 DEF Follows

LEMMA ConcatFollows ==
    ASSUME NEW s \in Seq(Nat), NEW t \in Seq(Nat), NEW n \in Nat,
           Follows(s, n), Follows(t, n + Len(s))
    PROVE  s \o t \in Seq(Nat) /\ Len(s \o t) = Len(s) + Len(t) /\ Follows(s \o t, n)
<1> PICK r : r = s \o t
  OBVIOUS
<1>1. /\ r \in Seq(Nat) /\ Len(r) = Len(s) + Len(t)
      /\ \A i \in 1 .. Len(s) + Len(t) : r[i] = IF i <= Len(s) THEN s[i] ELSE t[i - Len(s)]
  BY ConcatProperties
<1>2. Len(s) \in Nat /\ Len(t) \in Nat
  BY LenProperties
<1>3. ASSUME NEW i \in 1 .. Len(s) + Len(t) PROVE r[i] = n + i
  <2>1. CASE i <= Len(s)
    <3>1. i \in 1 .. Len(s) /\ r[i] = s[i]
      BY <2>1, <1>1, <1>2
    <3> QED
      BY <3>1 DEF Follows
  <2>2. CASE ~(i <= Len(s))
    <3>1. i - Len(s) \in 1 .. Len(t) /\ r[i] = t[i - Len(s)]
      BY <2>2, <1>1, <1>2
    <3>2. t[i - Len(s)] = (n + Len(s)) + (i - Len(s))
      BY <3>1 DEF Follows
    <3> QED
      BY <3>1, <3>2, <1>2
  <2> QED
    BY <2>1, <2>2
<1> QED
  BY <1>1, <1>3 DEF Follows

\* A sequence that follows 0 is the first numbers.
LEMMA FollowsIsNumbers ==
    ASSUME NEW s \in Seq(Nat), Follows(s, 0)
    PROVE  s = Numbers(Len(s))
<1>1. Len(s) \in Nat /\ s \in [1 .. Len(s) -> Nat]
  BY LenProperties
<1>2. \A i \in 1 .. Len(s) : s[i] = i
  BY <1>1 DEF Follows
<1> QED
  BY <1>1, <1>2 DEF Numbers

LEMMA TwoSides ==
    ASSUME NEW s \in Sides
    PROVE  /\ Opposite(s) \in Sides /\ Opposite(s) # s /\ Opposite(Opposite(s)) = s
           /\ \A r \in Sides : r = s \/ r = Opposite(s)
  BY DEF Sides, Opposite

\* Appending to the queue of callbacks.
LEMMA AppendCallback ==
    ASSUME NEW q \in Seq(Callbacks), NEW c \in Callbacks
    PROVE  /\ Append(q, c) \in Seq(Callbacks)
           /\ Append(q, c)[Len(q) + 1] = c /\ Len(q) + 1 \in 1 .. Len(Append(q, c))
           /\ \A i \in 1 .. Len(q) : i \in 1 .. Len(Append(q, c)) /\ Append(q, c)[i] = q[i]
<1>1. Len(q) \in Nat
  BY LenProperties
<1>2. Append(q, c) \in Seq(Callbacks) /\ Len(Append(q, c)) = Len(q) + 1
  BY AppendProperties
<1>3. (\A i \in 1 .. Len(q) : Append(q, c)[i] = q[i]) /\ Append(q, c)[Len(q) + 1] = c
  BY AppendProperties
<1> QED
  BY <1>1, <1>2, <1>3

\* A stopped side stays in use when nothing about it changes and the queue
\* only grows.
LEMMA StillStopped ==
    ASSUME TunnelTypeOK, NEW s \in Sides, StoppedInUse(s),
           UNCHANGED <<sideReads, onWritten>>,
           sideOut[s] # <<>> => sideOut'[s] # <<>>,
           queued' = queued \/ \E c \in Callbacks : queued' = Append(queued, c)
    PROVE  StoppedInUse(s)'
<1>1. \A c : (\E i \in 1 .. Len(queued) : queued[i] = c) => \E i \in 1 .. Len(queued') : queued'[i] = c
  <2>1. queued \in Seq(Callbacks)
    BY DEF TunnelTypeOK
  <2>2. CASE queued' = queued
    BY <2>2
  <2>3. ASSUME NEW c \in Callbacks, queued' = Append(queued, c)
        PROVE  \A i \in 1 .. Len(queued) : i \in 1 .. Len(queued') /\ queued'[i] = queued[i]
    BY <2>1, <2>3, AppendCallback
  <2> QED
    BY <2>2, <2>3
<1> QED
  BY <1>1 DEF StoppedInUse, Completion

-----------------------------------------------------------------------------
(* One lemma for each step.                                                *)

LEMMA InitTunnel == TunnelInit => TunnelTypeOK /\ TunnelInv
<1> SUFFICES ASSUME TunnelInit PROVE TunnelTypeOK /\ TunnelInv
  OBVIOUS
<1>1. <<>> \in Seq(Nat) /\ <<>> \in Seq(Callbacks) /\ Len(<<>>) = 0 /\ Follows(<<>>, 0)
  BY EmptySeq, EmptyFollows
<1>2. TunnelTypeOK
  <2>1. /\ sideSent \in [Sides -> Nat] /\ sideBuf \in [Sides -> Seq(Nat)]
        /\ sideOut \in [Sides -> Seq(Nat)] /\ sideGot \in [Sides -> Seq(Nat)]
        /\ sideReads \in [Sides -> BOOLEAN] /\ onWritten \in [Sides -> BOOLEAN]
        /\ queued \in Seq(Callbacks)
    BY <1>1 DEF TunnelInit
  <2>2. sideState \in [Sides -> {"up", "shut", "down"}]
    BY DEF TunnelInit
  <2>3. /\ request \in {"good", "unresolved", "long", "done"} /\ tunnel \in {"none", "connecting"}
        /\ mapped \in BOOLEAN /\ crashed \in BOOLEAN
    BY DEF TunnelInit
  <2> QED
    BY <2>1, <2>2, <2>3 DEF TunnelTypeOK
<1>3. ASSUME NEW s \in Sides PROVE StreamTo(s)
  <2>1. /\ sideGot[s] = <<>> /\ sideOut[s] = <<>> /\ sideBuf[Opposite(s)] = <<>> /\ sideSent[Opposite(s)] = 0
    BY TwoSides DEF TunnelInit
  <2> QED
    BY <2>1, <1>1 DEF StreamTo, Passed
<1>4. NothingBefore /\ ~BothUp
  BY DEF TunnelInit, NothingBefore, BothUp
<1>5. MarksReached
  BY DEF TunnelInit, MarksReached
<1> QED
  BY <1>2, <1>3, <1>4, <1>5 DEF TunnelInv

\* A step that leaves the bytes alone and drops no byte from the streams
\* that were intact, which is what tunnels and sides that end do.
LEMMA StreamsKept ==
    ASSUME \A s \in Sides : StreamTo(s), UNCHANGED <<sideSent, sideBuf, sideOut, sideGot>>,
           \A s \in Sides : Intact(s)' => Intact(s)
    PROVE  \A s \in Sides : StreamTo(s)'
<1> SUFFICES ASSUME NEW s \in Sides PROVE StreamTo(s)'
  OBVIOUS
<1>1. StreamTo(s)
  OBVIOUS
<1>2. Intact(s)' => Intact(s)
  OBVIOUS
<1> QED
  BY <1>1, <1>2 DEF StreamTo, Passed

\* A request, and the connections that close.
LEMMA EndStep ==
    ASSUME TunnelTypeOK, TunnelInv, onServerRequest \/ BackendCloses \/ UserCloses
    PROVE  TunnelTypeOK' /\ TunnelInv'
<1>1. /\ UNCHANGED <<sideSent, sideBuf, sideOut, sideGot, sideReads, onWritten, queued, crashed>>
      /\ ~crashed
  BY DEF onServerRequest, BackendCloses, UserCloses
<1>2. /\ request' \in {"good", "unresolved", "long", "done"}
      /\ tunnel' \in {"none", "connecting", "up", "torn", "gone"}
      /\ mapped' \in BOOLEAN
      /\ sideState' \in [Sides -> {"up", "shut", "down"}]
  <2>1. CASE onServerRequest
    BY <2>1 DEF onServerRequest, TunnelTypeOK
  <2>2. CASE BackendCloses
    BY <2>2 DEF BackendCloses, TunnelTypeOK, Sides
  <2>3. CASE UserCloses
    BY <2>3 DEF UserCloses, TunnelTypeOK, Sides
  <2> QED
    BY <2>1, <2>2, <2>3
<1>3. TunnelTypeOK'
  BY <1>1, <1>2 DEF TunnelTypeOK
<1>4. /\ tunnel' \in {"none", "connecting"} => tunnel \in {"none", "connecting"}
      /\ tunnel' = "up" => tunnel = "up"
      /\ \A s \in Sides : sideState'[s] = "up" => sideState[s] = "up"
  <2>1. CASE onServerRequest
    <3>1. tunnel = "none"
      BY <2>1 DEF onServerRequest, TunnelInv, NothingBefore
    <3> QED
      BY <2>1, <3>1 DEF onServerRequest, TunnelTypeOK
  <2>2. CASE BackendCloses
    BY <2>2 DEF BackendCloses, TunnelTypeOK, Sides
  <2>3. CASE UserCloses
    BY <2>3 DEF UserCloses, TunnelTypeOK, Sides
  <2> QED
    BY <2>1, <2>2, <2>3
<1>5. \A s \in Sides : StreamTo(s)'
  <2>1. \A s \in Sides : Intact(s)' => Intact(s)
    BY <1>4 DEF Intact
  <2> QED
    BY <1>1, <2>1, StreamsKept DEF TunnelInv
<1>6. NothingBefore'
  <2>1. request' # "done" => tunnel' = "none"
    BY DEF onServerRequest, BackendCloses, UserCloses, TunnelInv, NothingBefore
  <2> QED
    BY <1>1, <1>4, <2>1 DEF TunnelInv, NothingBefore
<1>7. BothUp' => \A s \in Sides : StoppedInUse(s)'
  BY <1>1, <1>4 DEF TunnelInv, BothUp, StoppedInUse
<1>8. MarksReached'
  BY <1>1 DEF TunnelInv, MarksReached, MarkReached
<1> QED
  BY <1>3, <1>5, <1>6, <1>7, <1>8 DEF TunnelInv

\* The backend comes up: what the user has sent so far is forwarded.
LEMMA UpStep ==
    ASSUME TunnelTypeOK, TunnelInv, onClientUp
    PROVE  TunnelTypeOK' /\ TunnelInv'
<1> DEFINE u == "user"
           b == "backend"
           bytes == sideBuf[u]
           c == [callback |-> "onHighWaterMark", side |-> b]
<1>1. /\ ~crashed /\ tunnel = "connecting" /\ tunnel' = "up"
      /\ sideState' = [sideState EXCEPT ![b] = "up"]
      /\ sideReads' = [s \in Sides |-> TRUE]
      /\ sideOut' = [sideOut EXCEPT ![b] = bytes]
      /\ queued' = (IF Len(bytes) >= HighWater THEN Append(queued, c) ELSE queued)
      /\ sideBuf' = [sideBuf EXCEPT ![u] = <<>>]
      /\ UNCHANGED <<request, mapped, sideSent, sideGot, onWritten, crashed>>
  BY DEF onClientUp, Forwarded
<1>2. u \in Sides /\ b \in Sides /\ Opposite(b) = u /\ Opposite(u) = b /\ Sides = {u, b} /\ u # b
  BY DEF Sides, Opposite
<1>3. bytes \in Seq(Nat) /\ <<>> \in Seq(Nat) /\ c \in Callbacks /\ queued \in Seq(Callbacks) /\ Len(bytes) \in Nat
  BY <1>2, EmptySeq, LenProperties DEF TunnelTypeOK, Callbacks
<1>4. TunnelTypeOK'
  <2>1. queued' \in Seq(Callbacks)
    BY <1>1, <1>3, AppendCallback
  <2>2. sideOut' \in [Sides -> Seq(Nat)] /\ sideBuf' \in [Sides -> Seq(Nat)]
    BY <1>1, <1>2, <1>3 DEF TunnelTypeOK
  <2>3. sideState' \in [Sides -> {"up", "shut", "down"}] /\ sideReads' \in [Sides -> BOOLEAN]
    BY <1>1, <1>2 DEF TunnelTypeOK
  <2> QED
    BY <1>1, <2>1, <2>2, <2>3 DEF TunnelTypeOK
<1>5. sideOut[b] = <<>> /\ sideGot[b] = <<>> /\ sideOut[u] = <<>> /\ sideGot[u] = <<>> /\ Len(<<>>) = 0
  BY <1>1, <1>2, EmptySeq DEF TunnelInv, NothingBefore
<1>6. /\ Follows(bytes, 0) /\ Len(bytes) = sideSent[u]
      /\ Follows(sideBuf[b], 0) /\ Len(sideBuf[b]) = sideSent[b]
  <2>1. StreamTo(b) /\ StreamTo(u) /\ Intact(b) /\ Intact(u)
    BY <1>1, <1>2 DEF TunnelInv, Intact
  <2>2. Passed(b) = 0 /\ Passed(u) = 0
    BY <1>5 DEF Passed
  <2>3. Len(sideBuf[b]) \in Nat
    BY <1>2, LenProperties DEF TunnelTypeOK
  <2> QED
    BY <2>1, <2>2, <2>3, <1>2, <1>3 DEF StreamTo
<1>7. StreamTo(b)'
  <2>1. /\ sideGot'[b] = <<>> /\ sideOut'[b] = bytes /\ sideBuf'[u] = <<>> /\ sideSent'[u] = sideSent[u]
    BY <1>1, <1>2, <1>5 DEF TunnelTypeOK
  <2>2. Follows(<<>>, 0) /\ Follows(<<>>, Len(bytes))
    BY <1>3, EmptyFollows
  <2>3. sideSent[u] \in Nat
    BY <1>2 DEF TunnelTypeOK
  <2> QED
    BY <2>1, <2>2, <2>3, <1>2, <1>3, <1>5, <1>6 DEF StreamTo, Passed
<1>8. StreamTo(u)'
  <2>1. /\ sideGot'[u] = <<>> /\ sideOut'[u] = <<>> /\ sideBuf'[b] = sideBuf[b] /\ sideSent'[b] = sideSent[b]
    BY <1>1, <1>2, <1>5 DEF TunnelTypeOK
  <2>2. Follows(<<>>, 0)
    BY EmptyFollows
  <2>3. sideSent[b] \in Nat
    BY <1>2 DEF TunnelTypeOK
  <2> QED
    BY <2>1, <2>2, <2>3, <1>2, <1>5, <1>6 DEF StreamTo, Passed
<1>9. NothingBefore'
  BY <1>1 DEF TunnelInv, NothingBefore
<1>10. \A s \in Sides : StoppedInUse(s)'
  BY <1>1, <1>2, TwoSides DEF StoppedInUse
<1>11. MarksReached'
  <2>1. CASE Len(bytes) >= HighWater
    <3>1. sideSent'[u] >= HighWater
      BY <2>1, <1>1, <1>6
    <3> QED
      BY <3>1, <1>1, <1>2 DEF MarksReached, MarkReached
  <2>2. CASE ~(Len(bytes) >= HighWater)
    BY <2>2, <1>1 DEF TunnelInv, MarksReached, MarkReached
  <2> QED
    BY <2>1, <2>2
<1> QED
  BY <1>2, <1>4, <1>7, <1>8, <1>9, <1>10, <1>11 DEF TunnelInv

\* The kernel takes a byte of the output.
LEMMA WrittenStep ==
    ASSUME TunnelTypeOK, TunnelInv, NEW s \in Sides, Written(s)
    PROVE  TunnelTypeOK' /\ TunnelInv'
<1>opp. PICK o \in Sides : o = Opposite(s) /\ o # s /\ Opposite(o) = s /\ \A r \in Sides : r = s \/ r = o
  BY TwoSides
<1>1. /\ ~crashed /\ sideOut[s] # <<>>
      /\ sideGot' = [sideGot EXCEPT ![s] = Append(sideGot[s], Head(sideOut[s]))]
      /\ sideOut' = [sideOut EXCEPT ![s] = Tail(sideOut[s])]
      /\ queued' = (IF Len(sideOut[s]) = 1 /\ onWritten[s] THEN Append(queued, Completion(s)) ELSE queued)
      /\ UNCHANGED <<request, tunnel, mapped, sideSent, sideBuf, sideReads, sideState, onWritten, crashed>>
  BY DEF Written, Completion
<1>2. sideOut[s] \in Seq(Nat) /\ sideGot[s] \in Seq(Nat) /\ queued \in Seq(Callbacks) /\ Completion(s) \in Callbacks
  BY DEF TunnelTypeOK, Callbacks, Completion
<1>3. Len(sideGot[s]) \in Nat /\ Len(sideOut[s]) \in Nat
  BY <1>2, LenProperties
<1>4. StreamTo(s) /\ StreamTo(o)
  BY DEF TunnelInv
<1>5. /\ Len(sideOut[s]) \in Nat \ {0} /\ Head(sideOut[s]) = Len(sideGot[s]) + 1
      /\ Tail(sideOut[s]) \in Seq(Nat) /\ Len(Tail(sideOut[s])) = Len(sideOut[s]) - 1
      /\ Follows(Tail(sideOut[s]), Len(sideGot[s]) + 1)
  BY <1>1, <1>2, <1>3, <1>4, TailFollows DEF StreamTo
<1>6. PICK g : g = Append(sideGot[s], Head(sideOut[s]))
  OBVIOUS
<1>7. g \in Seq(Nat) /\ Len(g) = Len(sideGot[s]) + 1 /\ Follows(g, 0)
  <2>1. Head(sideOut[s]) = 0 + Len(sideGot[s]) + 1 /\ Head(sideOut[s]) \in Nat
    BY <1>3, <1>5
  <2> QED
    BY <1>2, <1>4, <1>6, <2>1, AppendFollows DEF StreamTo
<1>8. TunnelTypeOK'
  <2>1. queued' \in Seq(Callbacks)
    BY <1>1, <1>2, AppendCallback
  <2>2. sideOut' \in [Sides -> Seq(Nat)] /\ sideGot' \in [Sides -> Seq(Nat)]
    BY <1>1, <1>5, <1>6, <1>7 DEF TunnelTypeOK
  <2> QED
    BY <1>1, <2>1, <2>2 DEF TunnelTypeOK
<1>9. /\ sideGot'[s] = g /\ sideOut'[s] = Tail(sideOut[s])
      /\ sideGot'[o] = sideGot[o] /\ sideOut'[o] = sideOut[o]
      /\ sideBuf' = sideBuf /\ sideSent' = sideSent
  BY <1>1, <1>6, <1>opp DEF TunnelTypeOK
<1>10. StreamTo(s)'
  <2>1. Len(sideGot'[s]) + Len(sideOut'[s]) = Len(sideGot[s]) + Len(sideOut[s])
    <3>1. Len(sideGot'[s]) = Len(sideGot[s]) + 1 /\ Len(sideOut'[s]) = Len(sideOut[s]) - 1
      BY <1>9, <1>7, <1>5, Zenon
    <3>2. PICK a \in Nat, b \in Nat : a = Len(sideGot[s]) /\ b = Len(sideOut[s])
      BY <1>3
    <3>3. (a + 1) + (b - 1) = a + b
      OBVIOUS
    <3> QED
      BY <3>1, <3>2, <3>3, Zenon
  <2>2. Intact(s)' => Intact(s)
    BY <1>1 DEF Intact
  <2>3. Follows(sideGot'[s], 0) /\ Follows(sideOut'[s], Len(sideGot'[s]))
    BY <1>5, <1>7, <1>9
  <2> QED
    BY <1>4, <1>9, <2>1, <2>2, <2>3 DEF StreamTo, Passed
<1>11. StreamTo(o)'
  <2>1. Intact(o)' => Intact(o)
    BY <1>1 DEF Intact
  <2> QED
    BY <1>4, <1>9, <2>1 DEF StreamTo, Passed
<1>12. NothingBefore'
  BY <1>1 DEF TunnelInv, NothingBefore
<1>13. ASSUME BothUp', NEW r \in Sides PROVE StoppedInUse(r)'
  <2>1. StoppedInUse(r)
    BY <1>1, <1>13 DEF TunnelInv, BothUp
  <2>2. CASE r = o \/ sideOut'[s] # <<>>
    BY <2>1, <2>2, <1>1, <1>2, <1>9, <1>opp, StillStopped
  <2>3. CASE r = s /\ sideOut'[s] = <<>>
    <3>1. Len(sideOut[s]) = 1
      <4>1. Len(Tail(sideOut[s])) = 0
        BY <2>3, <1>9, EmptySeq
      <4> QED
        BY <4>1, <1>5
    <3> SUFFICES ASSUME ~sideReads'[Opposite(s)]
                 PROVE  onWritten'[s] /\ \E i \in 1 .. Len(queued') : queued'[i] = Completion(s)
      BY <2>3 DEF StoppedInUse, Completion
    <3>2. onWritten[s]
      BY <2>1, <2>3, <1>1 DEF StoppedInUse
    <3>3. queued' = Append(queued, Completion(s))
      BY <3>1, <3>2, <1>1
    <3>4. queued'[Len(queued) + 1] = Completion(s) /\ Len(queued) + 1 \in 1 .. Len(queued')
      BY <3>3, <1>2, AppendCallback
    <3> QED
      BY <3>2, <3>4, <1>1
  <2> QED
    BY <2>2, <2>3, <1>opp
<1>14. MarksReached'
  BY <1>1 DEF TunnelInv, MarksReached, MarkReached
<1> QED
  BY <1>8, <1>10, <1>11, <1>12, <1>13, <1>14, <1>opp DEF TunnelInv

\* The loop reads a byte from a side.
LEMMA MessageStep ==
    ASSUME TunnelTypeOK, TunnelInv, NEW o \in Sides, SideMessage(o)
    PROVE  TunnelTypeOK' /\ TunnelInv'
<1> DEFINE byte == sideSent[o] + 1
<1>1. PICK s \in Sides : s = Opposite(o) /\ s # o /\ Opposite(s) = o /\ \A r \in Sides : r = s \/ r = o
  BY TwoSides
<1>2. /\ ~crashed /\ request = "done" /\ (o = "backend" => tunnel = "up")
      /\ sideSent' = [sideSent EXCEPT ![o] = byte]
      /\ UNCHANGED <<request, tunnel, mapped, sideGot, sideReads, sideState, onWritten, crashed>>
  BY DEF SideMessage
<1>3. /\ sideSent[o] \in Nat /\ sideSent[s] \in Nat
      /\ sideBuf[o] \in Seq(Nat) /\ sideBuf[s] \in Seq(Nat) /\ sideOut[s] \in Seq(Nat)
      /\ sideGot[s] \in Seq(Nat) /\ queued \in Seq(Callbacks) /\ byte \in Nat
  BY DEF TunnelTypeOK
<1>4. Len(sideBuf[o]) \in Nat /\ Len(sideOut[s]) \in Nat /\ Len(sideGot[s]) \in Nat /\ Passed(s) \in Nat
  <2>1. Len(sideBuf[o]) \in Nat /\ Len(sideOut[s]) \in Nat /\ Len(sideGot[s]) \in Nat
    BY <1>3, LenProperties
  <2> QED
    <3>1. \A a, b \in Nat : a + b \in Nat
      OBVIOUS
    <3> QED
      BY <2>1, <3>1, Zenon DEF Passed
<1>5. StreamTo(s) /\ StreamTo(o)
  BY DEF TunnelInv
<1>6. sideSent'[o] = sideSent[o] + 1 /\ sideSent'[s] = sideSent[s] /\ sideSent' \in [Sides -> Nat]
  BY <1>1, <1>2, <1>3 DEF TunnelTypeOK
<1>7. MarkReached => MarkReached'
  <2>1. \A r \in Sides : sideSent'[r] >= sideSent[r] /\ sideSent'[r] \in Nat /\ sideSent[r] \in Nat
    <3>1. \A a \in Nat : a + 1 >= a /\ a >= a /\ a + 1 \in Nat
      OBVIOUS
    <3> QED
      BY <1>1, <1>3, <1>6, <3>1, Zenon
  <2> QED
    BY <2>1, TunnelAssumption DEF MarkReached
\* What waits in the buffer, with the byte, follows what has passed.
<1>8. PICK m : m = sideBuf[o] \o <<byte>>
  OBVIOUS
<1>9. m \in Seq(Nat) /\ Len(m) = Len(sideBuf[o]) + 1
  <2>1. <<byte>> \in Seq(Nat) /\ Len(<<byte>>) = 1
    BY <1>3
  <2> QED
    BY <1>3, <1>8, <2>1, ConcatProperties
<1>10. ASSUME Intact(s)
       PROVE  /\ Follows(sideBuf[o], Passed(s)) /\ Passed(s) + Len(sideBuf[o]) = sideSent[o]
              /\ Follows(m, Passed(s)) /\ Passed(s) + Len(m) = sideSent'[o]
  <2>1. Follows(sideBuf[o], Passed(s)) /\ Passed(s) + Len(sideBuf[o]) = sideSent[o]
    BY <1>1, <1>5, <1>10 DEF StreamTo
  <2>2. <<byte>> \in Seq(Nat) /\ Len(<<byte>>) = 1 /\ <<byte>>[1] = byte
    BY <1>3
  <2>3. Follows(<<byte>>, Passed(s) + Len(sideBuf[o]))
    <3>1. \A i \in 1 .. Len(<<byte>>) : i = 1
      BY <2>2
    <3> QED
      BY <2>1, <2>2, <3>1, <1>3 DEF Follows
  <2>4. Follows(m, Passed(s))
    BY <1>3, <1>4, <1>8, <2>1, <2>2, <2>3, ConcatFollows
  <2>5. Passed(s) + Len(m) = sideSent'[o]
    BY <2>1, <1>3, <1>4, <1>6, <1>9
  <2> QED
    BY <2>1, <2>4, <2>5
<1> HIDE DEF byte
\* The other direction is left alone.
<1>11. ASSUME sideOut'[o] = sideOut[o], sideBuf'[s] = sideBuf[s] PROVE StreamTo(o)'
  <2>1. Intact(o)' => Intact(o)
    BY <1>2 DEF Intact
  <2>2. sideGot'[o] = sideGot[o]
    BY <1>2
  <2> QED
    BY <1>1, <1>5, <1>6, <1>11, <2>1, <2>2 DEF StreamTo, Passed
<1>12. ASSUME StreamTo(s)', StreamTo(o)', NothingBefore', queued' \in Seq(Callbacks),
              sideOut' \in [Sides -> Seq(Nat)], sideBuf' \in [Sides -> Seq(Nat)],
              \A r \in Sides : sideOut[r] # <<>> => sideOut'[r] # <<>>,
              queued' = queued \/ (MarkReached' /\ \E c \in Callbacks : queued' = Append(queued, c))
       PROVE  TunnelTypeOK' /\ TunnelInv'
  <2>1. TunnelTypeOK'
    BY <1>2, <1>6, <1>12 DEF TunnelTypeOK
  <2>2. ASSUME BothUp', NEW r \in Sides PROVE StoppedInUse(r)'
    <3>1. StoppedInUse(r)
      BY <1>2, <2>2 DEF TunnelInv, BothUp
    <3>2. UNCHANGED <<sideReads, onWritten>>
      BY <1>2
    <3>3. queued' = queued \/ \E c \in Callbacks : queued' = Append(queued, c)
      BY <1>12
    <3>4. sideOut[r] # <<>> => sideOut'[r] # <<>>
      BY <1>12
    <3> QED
      BY <3>1, <3>2, <3>3, <3>4, StillStopped
  <2>3. MarksReached'
    <3>1. queued' # <<>> => MarkReached'
      BY <1>7, <1>12 DEF TunnelInv, MarksReached
    <3>2. \A r \in Sides : onWritten'[r] => MarkReached'
      BY <1>2, <1>7 DEF TunnelInv, MarksReached
    <3> QED
      BY <1>2, <3>1, <3>2 DEF MarksReached
  <2> QED
    BY <1>1, <1>12, <2>1, <2>2, <2>3 DEF TunnelInv
\* No backend yet, or no longer: the byte stays in the buffer.
<1>13. CASE tunnel # "up"
  <2>1. sideBuf' = [sideBuf EXCEPT ![o] = Append(sideBuf[o], byte)] /\ UNCHANGED <<sideOut, queued>>
    BY <1>13 DEF SideMessage, byte
  <2>2. sideBuf'[o] = m /\ sideBuf'[s] = sideBuf[s] /\ sideBuf' \in [Sides -> Seq(Nat)]
    <3>1. Append(sideBuf[o], byte) = m
      BY <1>3, <1>8, AppendIsConcat
    <3> QED
      BY <1>1, <1>9, <2>1, <3>1 DEF TunnelTypeOK
  <2>3. StreamTo(s)'
    <3>1. Intact(s)' => Intact(s)
      BY <1>2 DEF Intact
    <3>2. sideGot'[s] = sideGot[s] /\ sideOut'[s] = sideOut[s]
      BY <1>2, <2>1
    <3>3. Passed(s) <= sideSent'[o]
      BY <1>1, <1>3, <1>4, <1>5, <1>6 DEF StreamTo
    <3> QED
      BY <1>1, <1>5, <1>10, <2>2, <3>1, <3>2, <3>3 DEF StreamTo, Passed
  <2>4. NothingBefore'
    BY <1>2, <2>1 DEF TunnelInv, NothingBefore
  <2>5. StreamTo(o)'
    BY <1>11, <2>1, <2>2
  <2> QED
    BY <1>12, <1>3, <2>1, <2>2, <2>3, <2>4, <2>5 DEF TunnelTypeOK
\* Both are there: what waits and the byte go out, if the other side is up.
<1>14. CASE tunnel = "up"
  <2>1. /\ sideOut' = Output(s, m) /\ queued' = Marked(s, m)
        /\ sideBuf' = [sideBuf EXCEPT ![o] = <<>>]
    BY <1>1, <1>8, <1>14 DEF SideMessage, byte
  <2>2. sideBuf'[o] = <<>> /\ sideBuf'[s] = sideBuf[s] /\ sideBuf' \in [Sides -> Seq(Nat)]
    BY <1>1, <2>1, EmptySeq DEF TunnelTypeOK
  <2>3. NothingBefore'
    BY <1>2, <1>14 DEF NothingBefore
  <2>4. CASE sideState[s] # "up"
    <3>1. UNCHANGED <<sideOut, queued>>
      BY <2>1, <2>4 DEF Output, Marked
    <3>2. ~Intact(s)'
      BY <1>2, <1>14, <2>4 DEF Intact
    <3>3. Passed(s) <= sideSent'[o]
      BY <1>1, <1>3, <1>4, <1>5, <1>6 DEF StreamTo
    <3>4. StreamTo(s)'
      BY <1>1, <1>2, <1>5, <3>1, <3>2, <3>3 DEF StreamTo, Passed
    <3>5. StreamTo(o)'
      BY <1>11, <2>2, <3>1
    <3> QED
      BY <1>12, <1>3, <2>2, <2>3, <3>1, <3>4, <3>5 DEF TunnelTypeOK
  <2>5. CASE sideState[s] = "up"
    <3>1. PICK n : n = sideOut[s] \o m
      OBVIOUS
    <3>2. Intact(s)
      BY <1>14, <2>5 DEF Intact
    <3>3. Follows(sideOut[s], Len(sideGot[s])) /\ Follows(m, Len(sideGot[s]) + Len(sideOut[s]))
      BY <1>5, <1>10, <3>2 DEF StreamTo, Passed
    <3>4. n \in Seq(Nat) /\ Len(n) = Len(sideOut[s]) + Len(m) /\ Follows(n, Len(sideGot[s]))
      BY <1>3, <1>4, <1>9, <3>1, <3>3, ConcatFollows
    <3>5. sideOut' = [sideOut EXCEPT ![s] = n]
      BY <2>1, <2>5, <3>1 DEF Output
    <3>6. sideOut'[s] = n /\ sideOut'[o] = sideOut[o] /\ sideOut' \in [Sides -> Seq(Nat)]
      BY <1>1, <3>4, <3>5 DEF TunnelTypeOK
    <3>7. Len(sideGot[s]) + Len(n) = sideSent'[o]
      <4>1. (Len(sideGot[s]) + Len(sideOut[s])) + Len(m) = sideSent'[o]
        BY <1>10, <3>2 DEF Passed
      <4>2. Len(m) \in Nat
        BY <1>4, <1>9
      <4>3. PICK a \in Nat, b \in Nat, c \in Nat : a = Len(sideGot[s]) /\ b = Len(sideOut[s]) /\ c = Len(m)
        BY <1>4, <4>2
      <4>4. (a + b) + c = a + (b + c)
        OBVIOUS
      <4> QED
        BY <3>4, <4>1, <4>3, <4>4, Zenon
    <3>8. StreamTo(s)'
      <4>1. Follows(<<>>, sideSent'[o]) /\ Len(<<>>) = 0 /\ sideSent'[o] \in Nat
        BY <1>3, <1>6, EmptyFollows
      <4>2. sideGot'[s] = sideGot[s] /\ Follows(sideGot[s], 0)
        BY <1>2, <1>5 DEF StreamTo
      <4>3. \A a \in Nat : a <= a /\ a + 0 = a
        OBVIOUS
      <4> QED
        BY <1>1, <2>2, <3>4, <3>6, <3>7, <4>1, <4>2, <4>3, Zenon DEF StreamTo, Passed
    <3>9. StreamTo(o)'
      BY <1>11, <2>2, <3>6
    <3>10. \A r \in Sides : sideOut[r] # <<>> => sideOut'[r] # <<>>
      <4>1. Len(n) > 0
        <5>1. PICK a \in Nat, b \in Nat : a = Len(sideBuf[o]) /\ b = Len(sideOut[s])
          BY <1>4
        <5>2. b + (a + 1) > 0
          OBVIOUS
        <5> QED
          BY <1>9, <3>4, <5>1, <5>2, Zenon
      <4>2. n # <<>>
        <5> SUFFICES ASSUME n = <<>> PROVE FALSE
          OBVIOUS
        <5>1. 0 > 0
          BY <4>1, EmptySeq
        <5> QED
          BY <5>1
      <4> QED
        BY <1>1, <3>6, <4>2
    <3>11. queued' = queued \/ (MarkReached' /\ \E c \in Callbacks : queued' = Append(queued, c))
      <4>1. CASE queued' # queued
        <5>1. Len(n) >= HighWater /\ queued' = Append(queued, [callback |-> "onHighWaterMark", side |-> s])
          BY <2>1, <3>1, <4>1 DEF Marked
        <5>2. sideSent'[o] >= HighWater
          <6>1. Len(n) \in Nat /\ HighWater \in Nat
            BY <3>4, LenProperties, TunnelAssumption
          <6>2. PICK a \in Nat, b \in Nat : a = Len(sideGot[s]) /\ b = Len(n)
            BY <6>1, <1>4
          <6>3. b >= HighWater => a + b >= HighWater
            BY <6>1
          <6> QED
            BY <5>1, <6>2, <6>3, <3>7, Zenon
        <5>3. [callback |-> "onHighWaterMark", side |-> s] \in Callbacks
          BY DEF Callbacks
        <5> QED
          BY <5>1, <5>2, <5>3 DEF MarkReached
      <4> QED
        BY <4>1
    <3>12. queued' \in Seq(Callbacks)
      BY <1>3, <3>11, AppendCallback
    <3> QED
      BY <1>12, <2>2, <2>3, <3>6, <3>8, <3>9, <3>10, <3>11, <3>12
  <2> QED
    BY <2>4, <2>5
<1> QED
  BY <1>13, <1>14

\* The loop runs a callback.
LEMMA CallbackStep ==
    ASSUME TunnelTypeOK, TunnelInv, RunQueued
    PROVE  TunnelTypeOK' /\ TunnelInv'
<1> DEFINE q == Head(queued)
<1>1. /\ ~crashed /\ queued # <<>> /\ queued' = Tail(queued)
      /\ UNCHANGED <<request, tunnel, mapped, sideSent, sideBuf, sideOut, sideGot, sideState>>
  BY DEF RunQueued
<1>2. /\ q \in Callbacks /\ queued' \in Seq(Callbacks)
      /\ Len(queued') = Len(queued) - 1 /\ \A i \in 1 .. Len(queued') : queued'[i] = queued[i + 1]
  BY <1>1, HeadTailProperties DEF TunnelTypeOK
<1>3. Len(queued) \in Nat \ {0} /\ q = queued[1]
  BY <1>1, EmptySeq DEF TunnelTypeOK
<1> PICK s \in Sides : s = q.side
  BY <1>2 DEF Callbacks
<1>4. PICK o \in Sides : o = Opposite(s) /\ o # s /\ Opposite(o) = s /\ \A r \in Sides : r = s \/ r = o
  BY TwoSides
\* What a callback does.
<1>5. \/ UNCHANGED <<sideReads, onWritten, crashed>> /\ (tunnel = "up" => q.callback = "onHighWaterMark")
      \/ UNCHANGED <<sideReads, onWritten>> /\ tunnel = "torn" /\ crashed' = TRUE
      \/ /\ q.callback = "onHighWaterMark" /\ tunnel # "gone" /\ (tunnel = "up" => sideOut[s] # <<>>)
         /\ sideReads' = [sideReads EXCEPT ![o] = FALSE]
         /\ onWritten' = [onWritten EXCEPT ![s] = TRUE] /\ UNCHANGED crashed
      \/ /\ q = Completion(s)
         /\ sideReads' = [sideReads EXCEPT ![o] = TRUE]
         /\ onWritten' = [onWritten EXCEPT ![s] = FALSE] /\ UNCHANGED crashed
  <2>1. CASE tunnel = "gone"
    BY <2>1 DEF RunQueued
  <2>2. CASE tunnel # "gone" /\ q.callback = "onHighWaterMark"
    <3>1. onHighWaterMark(s)
      BY <2>2 DEF RunQueued
    <3> QED
      BY <2>2, <3>1, <1>4 DEF onHighWaterMark
  <2>3. CASE tunnel # "gone" /\ q.callback = "onWriteComplete"
    <3>1. onWriteComplete(s)
      BY <2>3 DEF RunQueued
    <3>2. q = Completion(s)
      BY <2>3, <1>2 DEF Completion, Callbacks
    <3> QED
      BY <3>1, <3>2, <1>4 DEF onWriteComplete
  <2> QED
    BY <2>1, <2>2, <2>3, <1>2 DEF Callbacks
<1>6. TunnelTypeOK'
  <2>1. sideReads' \in [Sides -> BOOLEAN] /\ onWritten' \in [Sides -> BOOLEAN] /\ crashed' \in BOOLEAN
    BY <1>5 DEF TunnelTypeOK
  <2> QED
    BY <1>1, <1>2, <2>1 DEF TunnelTypeOK
<1>7. \A r \in Sides : StreamTo(r)'
  <2>1. \A r \in Sides : Intact(r)' => Intact(r)
    BY <1>1 DEF Intact
  <2>2. \A r \in Sides : StreamTo(r)
    BY DEF TunnelInv
  <2>3. UNCHANGED <<sideSent, sideBuf, sideOut, sideGot>>
    BY <1>1
  <2> QED
    BY <2>1, <2>2, <2>3, StreamsKept
<1>8. NothingBefore'
  BY <1>1 DEF TunnelInv, NothingBefore
\* Any other callback is still in the queue.
<1>9. ASSUME NEW c, q # c, \E i \in 1 .. Len(queued) : queued[i] = c
      PROVE  \E i \in 1 .. Len(queued') : queued'[i] = c
  <2>1. PICK i \in 1 .. Len(queued) : queued[i] = c
    BY <1>9
  <2>2. i # 1
    BY <2>1, <1>3, <1>9
  <2>3. i - 1 \in 1 .. Len(queued') /\ (i - 1) + 1 = i
    <3>1. PICK n \in Nat : n = Len(queued)
      BY <1>3
    <3>2. i - 1 \in 1 .. n - 1 /\ (i - 1) + 1 = i
      BY <2>2, <3>1
    <3> QED
      BY <3>1, <3>2, <1>2, Zenon
  <2> QED
    BY <2>1, <2>3, <1>2
<1>10. ASSUME BothUp', NEW r \in Sides PROVE StoppedInUse(r)'
  <2>1. StoppedInUse(r) /\ tunnel = "up"
    BY <1>1, <1>10 DEF TunnelInv, BothUp
  <2> SUFFICES ASSUME ~sideReads'[Opposite(r)]
               PROVE  /\ onWritten'[r]
                      /\ sideOut'[r] # <<>> \/ \E i \in 1 .. Len(queued') : queued'[i] = Completion(r)
    BY DEF StoppedInUse, Completion
  <2>2. CASE sideReads[Opposite(r)]
    <3>1. r = s /\ sideOut[s] # <<>> /\ onWritten' = [onWritten EXCEPT ![s] = TRUE]
      <4>1. sideReads'[Opposite(r)] # sideReads[Opposite(r)]
        BY <2>2
      <4>2. sideReads' # sideReads /\ sideReads' # [sideReads EXCEPT ![o] = TRUE]
        BY <2>2, <4>1, TwoSides DEF TunnelTypeOK
      <4>3. /\ sideReads' = [sideReads EXCEPT ![o] = FALSE] /\ sideOut[s] # <<>>
            /\ onWritten' = [onWritten EXCEPT ![s] = TRUE]
        BY <2>1, <4>2, <1>5
      <4>4. Opposite(r) = o
        BY <4>1, <4>3, TwoSides DEF TunnelTypeOK
      <4>5. r = s
        BY <4>4, <1>4
      <4> QED
        BY <4>3, <4>5
    <3> QED
      BY <3>1, <1>1 DEF TunnelTypeOK
  <2>3. CASE ~sideReads[Opposite(r)]
    <3>1. onWritten[r] /\ (sideOut[r] # <<>> \/ \E i \in 1 .. Len(queued) : queued[i] = Completion(r))
      BY <2>1, <2>3 DEF StoppedInUse
    <3>2. q # Completion(r)
      <4> SUFFICES ASSUME q = Completion(r) PROVE FALSE
        OBVIOUS
      <4>1. r = s /\ q.callback = "onWriteComplete"
        BY DEF Completion
      <4> QED
        BY <2>1, <4>1, <1>4, <1>5 DEF TunnelTypeOK
    <3>3. onWritten'[r]
      <4>1. q = Completion(s) => s # r
        BY <3>2
      <4> QED
        BY <2>1, <3>1, <4>1, <1>4, <1>5 DEF TunnelTypeOK
    <3> QED
      BY <3>1, <3>2, <3>3, <1>1, <1>9
  <2> QED
    BY <2>2, <2>3
<1>11. MarksReached'
  <2>1. MarkReached'
    BY <1>1 DEF TunnelInv, MarksReached, MarkReached
  <2>2. crashed' => tunnel' = "torn"
    BY <1>1, <1>5
  <2> QED
    BY <2>1, <2>2 DEF MarksReached
<1> QED
  BY <1>6, <1>7, <1>8, <1>10, <1>11 DEF TunnelInv

-----------------------------------------------------------------------------
\* The invariant of the tunnel holds in every behaviour of it (Tunnel,
\* socks4a.cc, tcprelay.cc).
THEOREM TunnelCorrect == TunnelSpec => [](TunnelTypeOK /\ TunnelInv)
<1>1. TunnelInit => TunnelTypeOK /\ TunnelInv
  BY InitTunnel
<1>2. TunnelTypeOK /\ TunnelInv /\ [TunnelNext]_tunnelVars => TunnelTypeOK' /\ TunnelInv'
  <2> SUFFICES ASSUME TunnelTypeOK, TunnelInv, [TunnelNext]_tunnelVars
               PROVE  TunnelTypeOK' /\ TunnelInv'
    OBVIOUS
  <2>1. CASE onServerRequest \/ BackendCloses \/ UserCloses
    BY <2>1, EndStep
  <2>2. CASE onClientUp
    BY <2>2, UpStep
  <2>3. CASE RunQueued
    BY <2>3, CallbackStep
  <2>4. ASSUME NEW s \in Sides, SideMessage(s) PROVE TunnelTypeOK' /\ TunnelInv'
    BY <2>4, MessageStep
  <2>5. ASSUME NEW s \in Sides, Written(s) PROVE TunnelTypeOK' /\ TunnelInv'
    BY <2>5, WrittenStep
  <2>6. CASE UNCHANGED tunnelVars
    <3>1. TunnelTypeOK'
      BY <2>6 DEF tunnelVars, TunnelTypeOK
    <3>2. \A s \in Sides : StreamTo(s)'
      BY <2>6 DEF tunnelVars, TunnelInv, StreamTo, Passed, Intact
    <3>3. NothingBefore' /\ MarksReached'
      BY <2>6 DEF tunnelVars, TunnelInv, NothingBefore, MarksReached, MarkReached
    <3>4. BothUp' => \A s \in Sides : StoppedInUse(s)'
      BY <2>6 DEF tunnelVars, TunnelInv, BothUp, StoppedInUse
    <3> QED
      BY <3>1, <3>2, <3>3, <3>4 DEF TunnelInv
  <2> QED
    BY <2>1, <2>2, <2>3, <2>4, <2>5, <2>6 DEF TunnelNext
<1> QED
  BY <1>1, <1>2, PTL DEF TunnelSpec

\* Each peer gets what the other one has sent, in order and without a gap,
\* reading goes on when the output is written, and clientConn is used after
\* its reset only if a side was at its mark (onServerMessage,
\* onClientMessage, onHighWaterMark, onWriteComplete, teardown).
THEOREM TunnelRelaysCorrect == TunnelSpec => []TunnelRelays
<1>1. TunnelTypeOK /\ TunnelInv => TunnelRelays
  <2> SUFFICES ASSUME TunnelTypeOK, TunnelInv PROVE TunnelRelays
    OBVIOUS
  <2>1. ASSUME NEW s \in Sides
        PROVE  /\ sideGot[s] = Numbers(Len(sideGot[s])) /\ Len(sideGot[s]) <= sideSent[Opposite(s)]
               /\ BothUp => sideGot[s] \o sideOut[s] \o sideBuf[Opposite(s)] = Numbers(sideSent[Opposite(s)])
    <3>1. PICK o \in Sides : o = Opposite(s)
      BY TwoSides
    <3>2. StreamTo(s)
      BY DEF TunnelInv
    <3>3. sideGot[s] \in Seq(Nat) /\ sideOut[s] \in Seq(Nat) /\ sideBuf[o] \in Seq(Nat) /\ sideSent[o] \in Nat
      BY DEF TunnelTypeOK
    <3>4. PICK a \in Nat, b \in Nat : a = Len(sideGot[s]) /\ b = Len(sideOut[s])
      BY <3>3, LenProperties
    <3>5. sideGot[s] = Numbers(Len(sideGot[s]))
      BY <3>2, <3>3, FollowsIsNumbers DEF StreamTo
    <3>6. a <= sideSent[o]
      <4>1. a + b <= sideSent[o]
        BY <3>1, <3>2, <3>4, Zenon DEF StreamTo, Passed
      <4> QED
        BY <4>1, <3>3
    <3>7. ASSUME BothUp
          PROVE  sideGot[s] \o sideOut[s] \o sideBuf[o] = Numbers(sideSent[o])
      <4>1. Intact(s)
        BY <3>7 DEF BothUp, Intact
      <4>2. PICK x : x = sideGot[s] \o sideOut[s]
        OBVIOUS
      <4>3. 0 + a = a /\ a + b \in Nat
        OBVIOUS
      <4>4. x \in Seq(Nat) /\ Len(x) = a + b /\ Follows(x, 0)
        <5>1. Follows(sideGot[s], 0) /\ Follows(sideOut[s], 0 + Len(sideGot[s]))
          BY <3>2, <3>4, <4>3, Zenon DEF StreamTo
        <5> QED
          BY <3>3, <3>4, <4>2, <5>1, ConcatFollows
      <4>5. Follows(sideBuf[o], a + b) /\ (a + b) + Len(sideBuf[o]) = sideSent[o]
        BY <3>1, <3>2, <3>4, <4>1, Zenon DEF StreamTo, Passed
      <4>6. Follows(sideBuf[o], 0 + Len(x))
        <5>1. 0 + (a + b) = a + b
          OBVIOUS
        <5> QED
          BY <4>4, <4>5, <5>1, Zenon
      <4>7. PICK y : y = x \o sideBuf[o]
        OBVIOUS
      <4>8. y \in Seq(Nat) /\ Len(y) = sideSent[o] /\ Follows(y, 0)
        <5>1. y \in Seq(Nat) /\ Len(y) = Len(x) + Len(sideBuf[o]) /\ Follows(y, 0)
          BY <3>3, <4>4, <4>6, <4>7, ConcatFollows
        <5> QED
          BY <4>4, <4>5, <5>1, Zenon
      <4>9. y = Numbers(sideSent[o])
        BY <4>8, FollowsIsNumbers
      <4> QED
        BY <4>2, <4>7, <4>9
    <3> QED
      BY <3>1, <3>4, <3>5, <3>6, <3>7, Zenon
  <2>2. ASSUME BothUp, queued = <<>>, NEW s \in Sides, sideOut[s] = <<>>
        PROVE  sideReads[Opposite(s)]
    <3>1. StoppedInUse(s) /\ Len(queued) = 0
      BY <2>2, EmptySeq DEF TunnelInv
    <3> QED
      BY <2>2, <3>1 DEF StoppedInUse
  <2>3. crashed => tunnel = "torn" /\ \E s \in Sides : sideSent[s] >= HighWater
    BY DEF TunnelInv, MarksReached, MarkReached
  <2> QED
    BY <2>1, <2>2, <2>3 DEF TunnelRelays
<1> QED
  BY <1>1, TunnelCorrect, PTL
-----------------------------------------------------------------------------
(* Idle connections.                                                       *)

IdleTypeOK ==
    /\ closer \in {"list", "wheel"} /\ time \in Nat /\ setback \in Nat
    /\ timerDue \in BOOLEAN /\ (timerDue => time % PerSecond = 0)
    /\ tcp \in [IdlePeers -> {"none", "up", "shut", "closed"}]
    /\ heard \in [IdlePeers -> Nat] /\ \A p \in IdlePeers : heard[p] <= time
    /\ quiet \in [IdlePeers -> Nat]
    /\ lastReceiveTime \in [IdlePeers -> Int]
    /\ connectionList \in Seq(IdlePeers)
    /\ connectionBuckets \in Seq(SUBSET IdlePeers) /\ Len(connectionBuckets) = idleSeconds

\* Steps since the timer was handled: a whole second when it is due.
SinceTimer == IF timerDue THEN PerSecond ELSE time % PerSecond

Held(list) == {list[i] : i \in 1 .. Len(list)}

\* The list holds the connections that have not ended, in the order in which
\* something was last received from them.
Ordered(list, h) ==
    /\ \A i, j \in 1 .. Len(list) : list[i] = list[j] => i = j
    /\ \A i, j \in 1 .. Len(list) : i <= j => h[list[i]] <= h[list[j]]

\* The clock that was set back may make a connection look younger than it
\* is, by as much, and never older.
ListInv ==
    /\ Ordered(connectionList, heard)
    /\ Held(connectionList) = {p \in IdlePeers : tcp[p] \in {"up", "shut"}}
    /\ \A p \in IdlePeers : /\ heard[p] - setback <= lastReceiveTime[p]
                            /\ lastReceiveTime[p] <= heard[p]
                            /\ tcp[p] = "up" => Silence(p) <= idleSeconds * PerSecond + setback + SinceTimer

\* The newest entry of p is in bucket i, because the timer was handled so
\* often since something was last received.
InBucket(p, i) ==
    /\ p \in connectionBuckets[i] /\ \A j \in i + 1 .. idleSeconds : p \notin connectionBuckets[j]
    /\ Silence(p) <= (idleSeconds - i) * PerSecond + SinceTimer
    /\ i < idleSeconds => Silence(p) >= (idleSeconds - i - 1) * PerSecond + SinceTimer

WheelInv == \A p \in IdlePeers : tcp[p] = "up" => \E i \in 1 .. idleSeconds : InBucket(p, i)

QuietInv == \A p \in IdlePeers : tcp[p] = "shut" => quiet[p] >= Fewest

IdleInv ==
    /\ IdleTypeOK /\ QuietInv
    /\ closer = "list" => ListInv
    /\ closer = "wheel" => WheelInv

-----------------------------------------------------------------------------
(* Arithmetic.                                                             *)

LEMMA Division ==
    ASSUME NEW t \in Nat, NEW P \in Nat \ {0}
    PROVE  t = P * (t \div P) + (t % P) /\ t % P \in 0 .. P - 1 /\ t \div P \in Nat
  BY SMTT(60)

LEMMA Remainder ==
    ASSUME NEW q \in Nat, NEW P \in Nat \ {0}, NEW r \in 0 .. P - 1
    PROVE  (P * q + r) % P = r
  BY SMTT(60)

\* The steps of a second are counted from 0.
LEMMA NextRemainder ==
    ASSUME NEW t \in Nat, NEW P \in Nat \ {0}
    PROVE  (t + 1) % P = IF t % P = P - 1 THEN 0 ELSE (t % P) + 1
<1>1. PICK q \in Nat, r \in 0 .. P - 1 : t = P * q + r /\ r = t % P
  <2>1. t = P * (t \div P) + (t % P) /\ t % P \in 0 .. P - 1 /\ t \div P \in Nat
    BY Division
  <2> QED
    BY <2>1, Zenon
<1>2. CASE r = P - 1
  <2>1. P * q + (P - 1) + 1 = P * (q + 1) + 0
    OBVIOUS
  <2>2. t + 1 = P * q + (P - 1) + 1
    BY <1>1, <1>2, Zenon
  <2>3. (P * (q + 1) + 0) % P = 0
    BY Remainder
  <2> QED
    BY <1>1, <1>2, <2>1, <2>2, <2>3
<1>3. CASE r # P - 1
  <2>1. r + 1 \in 0 .. P - 1 /\ P * q + r + 1 = P * q + (r + 1)
    BY <1>3
  <2>2. (P * q + (r + 1)) % P = r + 1
    BY <2>1, Remainder
  <2> QED
    BY <1>1, <1>3, <2>1, <2>2
<1> QED
  BY <1>2, <1>3

\* So many whole seconds.
LEMMA Seconds ==
    ASSUME NEW n \in Nat, NEW P \in Nat
    PROVE  n * P \in Nat /\ (n + 1) * P = n * P + P /\ 0 * P = 0
  OBVIOUS

LEMMA MoreSeconds ==
    ASSUME NEW n \in Nat, NEW m \in Nat, NEW P \in Nat, n <= m
    PROVE  n * P <= m * P
<1>1. PICK d \in Nat : m = n + d
  <2>1. m - n \in Nat /\ m = n + (m - n)
    OBVIOUS
  <2> QED
    BY <2>1
<1>2. d * P \in Nat /\ n * P \in Nat /\ (n + d) * P = n * P + d * P
  OBVIOUS
<1>3. n * P <= n * P + d * P
  BY <1>2
<1> QED
  BY <1>1, <1>2, <1>3

-----------------------------------------------------------------------------
(* The list.                                                               *)

LEMMA RemovedAt ==
    ASSUME NEW S, NEW list \in Seq(S), NEW at \in 1 .. Len(list)
    PROVE  /\ RemoveAt(list, at) \in Seq(S) /\ Len(RemoveAt(list, at)) = Len(list) - 1
           /\ \A i \in 1 .. Len(list) - 1 : RemoveAt(list, at)[i] = IF i < at THEN list[i] ELSE list[i + 1]
<1> DEFINE n == Len(list)
           a == SubSeq(list, 1, at - 1)
           b == SubSeq(list, at + 1, n)
           r == RemoveAt(list, at)
<1>1. n \in Nat /\ (\A i \in 1 .. n : list[i] \in S)
  BY LenProperties, ElementOfSeq
<1>2. a \in Seq(S) /\ Len(a) = at - 1 /\ \A i \in 1 .. at - 1 : a[i] = list[i]
  <2>1. \A i \in 1 .. at - 1 : list[i] \in S
    BY <1>1
  <2>2. /\ SubSeq(list, 1, at - 1) \in Seq(S)
        /\ Len(SubSeq(list, 1, at - 1)) = IF 1 <= at - 1 THEN (at - 1) - 1 + 1 ELSE 0
        /\ \A i \in 1 .. (at - 1) - 1 + 1 : SubSeq(list, 1, at - 1)[i] = list[1 + i - 1]
    BY <2>1, <1>1, SubSeqProperties
  <2> QED
    BY <2>2, <1>1
<1>3. b \in Seq(S) /\ Len(b) = n - at /\ \A i \in 1 .. n - at : b[i] = list[at + i]
  <2>1. \A i \in at + 1 .. n : list[i] \in S
    BY <1>1
  <2>2. /\ SubSeq(list, at + 1, n) \in Seq(S)
        /\ Len(SubSeq(list, at + 1, n)) = IF at + 1 <= n THEN n - (at + 1) + 1 ELSE 0
        /\ \A i \in 1 .. n - (at + 1) + 1 : SubSeq(list, at + 1, n)[i] = list[at + 1 + i - 1]
    BY <2>1, <1>1, SubSeqProperties
  <2>3. n - (at + 1) + 1 = n - at /\ \A i \in 1 .. n - at : at + 1 + i - 1 = at + i
    BY <1>1
  <2>4. (IF at + 1 <= n THEN n - (at + 1) + 1 ELSE 0) = n - at
    BY <1>1
  <2> HIDE DEF n
  <2> QED
    BY <2>2, <2>3, <2>4
<1>4. r = a \o b
  BY DEF RemoveAt
<1> HIDE DEF a, b, n
<1>cat. /\ a \o b \in Seq(S) /\ Len(a \o b) = Len(a) + Len(b)
      /\ \A i \in 1 .. Len(a) + Len(b) : (a \o b)[i] = IF i <= Len(a) THEN a[i] ELSE b[i - Len(a)]
  BY <1>2, <1>3, ConcatProperties
<1>5. /\ r \in Seq(S) /\ Len(r) = (at - 1) + (n - at)
      /\ \A i \in 1 .. (at - 1) + (n - at) : r[i] = IF i <= at - 1 THEN a[i] ELSE b[i - (at - 1)]
  <2> HIDE DEF r
  <2> QED
    BY <1>2, <1>3, <1>4, <1>cat, Zenon
<1> HIDE DEF r
<1>6. Len(r) = n - 1
  BY <1>1, <1>5
<1>at. at \in 1 .. n
  BY DEF n
<1>7. ASSUME NEW i \in 1 .. n - 1
      PROVE  r[i] = IF i < at THEN list[i] ELSE list[i + 1]
  <2>1. CASE i < at
    BY <2>1, <1>1, <1>2, <1>5
  <2>2. CASE i >= at
    <3>1. i - (at - 1) \in 1 .. n - at /\ at + (i - (at - 1)) = i + 1
      BY <2>2, <1>1, <1>at
    <3>2. r[i] = b[i - (at - 1)]
      BY <2>2, <1>1, <1>5
    <3> QED
      BY <3>1, <3>2, <2>2, <1>3, <1>1
  <2> QED
    BY <2>1, <2>2, <1>1, <1>at
<1> QED
  BY <1>5, <1>6, <1>7 DEF r, n

\* A connection that ends leaves the others in their order.
LEMMA OffListed ==
    ASSUME NEW h, NEW p \in Held(connectionList), connectionList \in Seq(IdlePeers), Ordered(connectionList, h)
    PROVE  /\ OffList(p) \in Seq(IdlePeers)
           /\ Ordered(OffList(p), h)
           /\ Held(OffList(p)) = Held(connectionList) \ {p}
<1> PICK list : list = connectionList
  OBVIOUS
<1> DEFINE at == CHOOSE i \in DOMAIN connectionList : connectionList[i] = p
           n == Len(list)
<1>1. n \in Nat /\ DOMAIN list = 1 .. n /\ list \in Seq(IdlePeers)
  BY LenProperties
<1>2. at \in 1 .. n /\ list[at] = p
  BY <1>1 DEF Held
<1>3. PICK r : r = OffList(p) /\ r = RemoveAt(list, at)
  BY DEF OffList
<1> HIDE DEF at
<1>4. /\ r \in Seq(IdlePeers) /\ Len(r) = n - 1
      /\ \A i \in 1 .. n - 1 : r[i] = IF i < at THEN list[i] ELSE list[i + 1]
  BY <1>1, <1>2, <1>3, RemovedAt
<1> DEFINE From(i) == IF i < at THEN i ELSE i + 1
<1>5. \A i \in 1 .. n - 1 : From(i) \in 1 .. n /\ From(i) # at /\ r[i] = list[From(i)]
  BY <1>1, <1>2, <1>4
<1>6. \A i, j \in 1 .. n - 1 : /\ From(i) = From(j) => i = j
                               /\ i <= j => From(i) <= From(j)
  BY <1>1, <1>2
<1>7. \A j \in 1 .. n : j # at => \E i \in 1 .. n - 1 : From(i) = j
  <2> SUFFICES ASSUME NEW j \in 1 .. n, j # at PROVE \E i \in 1 .. n - 1 : From(i) = j
    OBVIOUS
  <2>1. CASE j < at
    BY <1>1, <1>2, <2>1
  <2>2. CASE j > at
    <3>1. j - 1 \in 1 .. n - 1 /\ From(j - 1) = j
      BY <1>1, <1>2, <2>2
    <3> QED
      BY <3>1
  <2> QED
    BY <1>1, <1>2, <2>1, <2>2
<1> HIDE DEF From, n
<1>8. /\ \A i, j \in 1 .. n : list[i] = list[j] => i = j
      /\ \A i, j \in 1 .. n : i <= j => h[list[i]] <= h[list[j]]
  BY DEF Ordered, n
<1>9. Ordered(r, h)
  <2>1. \A i, j \in 1 .. n - 1 : r[i] = r[j] => i = j
    BY <1>5, <1>6, <1>8
  <2>2. \A i, j \in 1 .. n - 1 : i <= j => h[r[i]] <= h[r[j]]
    BY <1>5, <1>6, <1>8
  <2> QED
    BY <1>4, <2>1, <2>2 DEF Ordered
<1>10. Held(r) = Held(list) \ {p}
  <2>1. Held(r) = {r[i] : i \in 1 .. n - 1} /\ Held(list) = {list[i] : i \in 1 .. n}
    BY <1>4 DEF Held, n
  <2> QED
    BY <1>2, <1>5, <1>7, <1>8, <2>1
<1> QED
  BY <1>3, <1>4, <1>9, <1>10

\* A connection from which something was just received goes to the end.
LEMMA AppendedList ==
    ASSUME NEW list \in Seq(IdlePeers), NEW h \in [IdlePeers -> Nat], NEW p \in IdlePeers \ Held(list), NEW t \in Nat,
           \A q \in IdlePeers : h[q] <= t, Ordered(list, h)
    PROVE  /\ Append(list, p) \in Seq(IdlePeers)
           /\ Ordered(Append(list, p), [h EXCEPT ![p] = t])
           /\ Held(Append(list, p)) = Held(list) \cup {p}
<1> DEFINE n == Len(list)
           g == [h EXCEPT ![p] = t]
<1>1. n \in Nat /\ \A i \in 1 .. n : list[i] \in IdlePeers
  BY LenProperties, ElementOfSeq
<1>2. PICK r : /\ r = Append(list, p) /\ r \in Seq(IdlePeers) /\ Len(r) = n + 1
               /\ (\A i \in 1 .. n : r[i] = list[i]) /\ r[n + 1] = p
  BY AppendProperties
<1>3. \A i \in 1 .. n : list[i] # p
  BY DEF Held
<1>4. g[p] = t /\ \A q \in IdlePeers : g[q] <= t /\ (q # p => g[q] = h[q])
  OBVIOUS
<1>5. /\ \A i, j \in 1 .. n : list[i] = list[j] => i = j
      /\ \A i, j \in 1 .. n : i <= j => h[list[i]] <= h[list[j]]
  BY DEF Ordered
<1> HIDE DEF n, g
<1>6. \A i \in 1 .. n + 1 : i \in 1 .. n \/ i = n + 1
  BY <1>1
<1>7. 1 .. n \subseteq 1 .. n + 1 /\ n + 1 \in 1 .. n + 1 /\ \A i \in 1 .. n : ~(n + 1 <= i)
  BY <1>1
<1>8. \A i, j \in 1 .. n + 1 : r[i] = r[j] => i = j
  BY <1>2, <1>3, <1>5, <1>6, Zenon
<1>9. \A i, j \in 1 .. n + 1 : i <= j => g[r[i]] <= g[r[j]]
  <2> SUFFICES ASSUME NEW i \in 1 .. n + 1, NEW j \in 1 .. n + 1, i <= j PROVE g[r[i]] <= g[r[j]]
    OBVIOUS
  <2>1. CASE j = n + 1
    <3>1. r[i] \in IdlePeers /\ r[j] = p
      BY <1>1, <1>2, <1>6, <2>1
    <3> QED
      BY <1>4, <3>1
  <2>2. CASE j \in 1 .. n
    <3>1. i \in 1 .. n
      BY <1>6, <1>7, <2>2
    <3>2. g[r[i]] = h[list[i]] /\ g[r[j]] = h[list[j]]
      BY <1>1, <1>2, <1>3, <1>4, <2>2, <3>1
    <3> QED
      BY <1>5, <2>2, <3>1, <3>2
  <2> QED
    BY <1>6, <2>1, <2>2
<1>10. Ordered(r, g)
  BY <1>2, <1>8, <1>9 DEF Ordered
<1>11. Held(r) = Held(list) \cup {p}
  <2>1. Held(r) = {r[i] : i \in 1 .. n + 1} /\ Held(list) = {list[i] : i \in 1 .. n}
    BY <1>2 DEF Held, n
  <2> QED
    BY <1>2, <1>6, <1>7, <2>1
<1> QED
  BY <1>2, <1>10, <1>11 DEF g

-----------------------------------------------------------------------------
(* Time.                                                                   *)

LEMMA SinceTimerBounded ==
    ASSUME IdleTypeOK
    PROVE  SinceTimer \in 0 .. PerSecond /\ (~timerDue => SinceTimer < PerSecond) /\ (timerDue => SinceTimer = PerSecond)
<1>1. time % PerSecond \in 0 .. PerSecond - 1
  BY Division, IdleAssumption DEF IdleTypeOK
<1> QED
  BY <1>1, IdleAssumption DEF SinceTimer

LEMMA TimerHandled ==
    ASSUME IdleTypeOK, timerDue, timerDue' = FALSE, time' = time
    PROVE  SinceTimer' = 0 /\ SinceTimer = PerSecond
  BY DEF IdleTypeOK, SinceTimer

LEMMA TimePasses ==
    ASSUME IdleTypeOK, Pass
    PROVE  SinceTimer' = SinceTimer + 1 /\ timerDue' \in BOOLEAN /\ (timerDue' => time' % PerSecond = 0)
<1> PICK t \in Nat, P \in Nat \ {0} : t = time /\ P = PerSecond
  BY IdleAssumption DEF IdleTypeOK
<1>1. time' = t + 1 /\ timerDue = FALSE /\ timerDue' = ((t + 1) % P = 0)
  BY DEF Pass, IdleTypeOK
<1>2. (t + 1) % P = IF t % P = P - 1 THEN 0 ELSE (t % P) + 1
  BY NextRemainder
<1>3. t % P \in 0 .. P - 1
  BY Division
<1>4. SinceTimer = t % P /\ SinceTimer' = IF (t + 1) % P = 0 THEN P ELSE (t + 1) % P
  BY <1>1 DEF SinceTimer
<1>5. PICK a \in 0 .. P - 1, b \in Nat : a = t % P /\ b = (t + 1) % P /\ b = IF a = P - 1 THEN 0 ELSE a + 1
  BY <1>2, <1>3
<1>6. (IF b = 0 THEN P ELSE b) = a + 1
  BY <1>5
<1> QED
  BY <1>1, <1>4, <1>5, <1>6

\* Neither the time nor the timer.
LEMMA SameTime ==
    ASSUME UNCHANGED <<time, timerDue>>
    PROVE  SinceTimer' = SinceTimer
  BY DEF SinceTimer

LEMMA IdleConstants ==
    /\ idleSeconds \in Nat \ {0} /\ PerSecond \in Nat \ {0} /\ idleSeconds * PerSecond \in Nat
    /\ (idleSeconds - 1) * PerSecond \in Nat
<1>1. idleSeconds \in Nat \ {0} /\ PerSecond \in Nat \ {0} /\ idleSeconds - 1 \in Nat
  BY IdleAssumption
<1> QED
  BY <1>1, Seconds

-----------------------------------------------------------------------------
(* EchoServer.                                                             *)

\* What stays true of a peer that an action does not touch.
Timed(q) ==
    /\ heard[q] - setback <= lastReceiveTime[q]
    /\ lastReceiveTime[q] <= heard[q]
    /\ tcp[q] = "up" => Silence(q) <= idleSeconds * PerSecond + setback + SinceTimer

LEMMA UpList ==
    ASSUME IdleTypeOK, ListInv, closer = "list", NEW p \in IdlePeers, onConnectionUp(p)
    PROVE  IdleTypeOK' /\ ListInv'
<1>1. /\ tcp[p] = "none" /\ tcp' = [tcp EXCEPT ![p] = "up"] /\ heard' = [heard EXCEPT ![p] = time]
      /\ connectionList' = Append(connectionList, p) /\ lastReceiveTime' = [lastReceiveTime EXCEPT ![p] = now]
      /\ UNCHANGED <<connectionBuckets, closer, time, setback, timerDue, shutAt, quiet>>
  BY DEF onConnectionUp
<1>2. p \notin Held(connectionList)
  BY <1>1 DEF ListInv
<1>3. /\ connectionList' \in Seq(IdlePeers) /\ Ordered(connectionList', heard') /\ Held(connectionList') = Held(connectionList) \cup {p}
  BY <1>1, <1>2, AppendedList DEF IdleTypeOK, ListInv
<1>4. IdleTypeOK'
  <2>1. now \in Int
    BY DEF now, IdleTypeOK
  <2> QED
    BY <1>1, <1>3, <2>1 DEF IdleTypeOK
<1>5. Held(connectionList') = {q \in IdlePeers : tcp'[q] \in {"up", "shut"}}
  BY <1>1, <1>3 DEF ListInv, IdleTypeOK
<1>6. ASSUME NEW q \in IdlePeers PROVE Timed(q)'
  <2>1. CASE q = p
    <3>1. heard'[q] = time /\ lastReceiveTime'[q] = time - setback /\ time' = time /\ setback' = setback
      BY <1>1, <2>1 DEF now, IdleTypeOK
    <3>2. SinceTimer' \in Nat /\ time \in Nat /\ setback \in Nat
      BY <1>4, SinceTimerBounded, <1>1, SameTime DEF IdleTypeOK
    <3>3. PICK I \in Nat, c \in Nat : I = idleSeconds * PerSecond /\ c = SinceTimer'
      BY <3>2, IdleConstants
    <3>4. time - time <= I + setback + c /\ time - setback <= time - setback /\ time - setback <= time
      BY <3>2
    <3> QED
      BY <3>1, <3>3, <3>4 DEF Timed, Silence
  <2>2. CASE q # p
    <3>1. heard'[q] = heard[q] /\ lastReceiveTime'[q] = lastReceiveTime[q] /\ tcp'[q] = tcp[q] /\ time' = time /\ setback' = setback
      BY <1>1, <2>2 DEF IdleTypeOK
    <3> QED
      BY <1>1, <3>1, SameTime DEF Timed, Silence, ListInv
  <2> QED
    BY <2>1, <2>2
<1> QED
  BY <1>3, <1>4, <1>5, <1>6 DEF ListInv, Timed

LEMMA DownList ==
    ASSUME IdleTypeOK, ListInv, closer = "list", NEW p \in IdlePeers, onConnectionDown(p)
    PROVE  IdleTypeOK' /\ ListInv'
<1>1. /\ tcp[p] \in {"up", "shut"} /\ tcp' = [tcp EXCEPT ![p] = "closed"] /\ connectionList' = OffList(p)
      /\ UNCHANGED <<closer, time, setback, timerDue, heard, shutAt, quiet, lastReceiveTime, connectionBuckets>>
  BY DEF onConnectionDown
<1>2. p \in Held(connectionList)
  BY <1>1 DEF ListInv
<1>3. connectionList' \in Seq(IdlePeers) /\ Ordered(connectionList', heard) /\ Held(connectionList') = Held(connectionList) \ {p}
  BY <1>1, <1>2, OffListed DEF IdleTypeOK, ListInv
<1>4. IdleTypeOK'
  BY <1>1, <1>3 DEF IdleTypeOK
<1>5. Held(connectionList') = {q \in IdlePeers : tcp'[q] \in {"up", "shut"}}
  BY <1>1, <1>3 DEF ListInv, IdleTypeOK
<1>6. ASSUME NEW q \in IdlePeers PROVE Timed(q)'
  <2>1. tcp'[q] = "up" => tcp[q] = "up"
    BY <1>1 DEF IdleTypeOK
  <2> QED
    BY <1>1, <2>1, SameTime DEF Timed, Silence, ListInv
<1> QED
  BY <1>1, <1>3, <1>4, <1>5, <1>6 DEF ListInv, Timed

LEMMA MessageList ==
    ASSUME IdleTypeOK, ListInv, closer = "list", NEW p \in IdlePeers, onIdleMessage(p)
    PROVE  IdleTypeOK' /\ ListInv'
<1>1. /\ tcp[p] \in {"up", "shut"} /\ heard' = [heard EXCEPT ![p] = time]
      /\ connectionList' = Append(OffList(p), p) /\ lastReceiveTime' = [lastReceiveTime EXCEPT ![p] = now]
      /\ UNCHANGED <<connectionBuckets, closer, time, setback, timerDue, tcp, shutAt, quiet>>
  BY DEF onIdleMessage, Spliced
<1>2. p \in Held(connectionList)
  BY <1>1 DEF ListInv
<1>3. PICK list : /\ list = OffList(p) /\ list \in Seq(IdlePeers) /\ Ordered(list, heard)
                  /\ Held(list) = Held(connectionList) \ {p}
  BY <1>2, OffListed DEF IdleTypeOK, ListInv
<1>4. connectionList' \in Seq(IdlePeers) /\ Ordered(connectionList', heard') /\ Held(connectionList') = Held(connectionList)
  <2>1. /\ Append(list, p) \in Seq(IdlePeers) /\ Ordered(Append(list, p), [heard EXCEPT ![p] = time])
        /\ Held(Append(list, p)) = Held(list) \cup {p}
    BY <1>3, AppendedList DEF IdleTypeOK
  <2> QED
    BY <1>1, <1>2, <1>3, <2>1
<1>5. IdleTypeOK'
  <2>1. now \in Int
    BY DEF now, IdleTypeOK
  <2> QED
    BY <1>1, <1>4, <2>1, SMTT(40) DEF IdleTypeOK
<1>6. Held(connectionList') = {q \in IdlePeers : tcp'[q] \in {"up", "shut"}}
  BY <1>1, <1>4 DEF ListInv
<1>7. ASSUME NEW q \in IdlePeers PROVE Timed(q)'
  <2>1. CASE q = p
    <3>1. heard'[q] = time /\ lastReceiveTime'[q] = time - setback /\ time' = time /\ setback' = setback
      BY <1>1, <2>1 DEF now, IdleTypeOK
    <3>2. SinceTimer' \in Nat /\ time \in Nat /\ setback \in Nat
      BY <1>1, SinceTimerBounded, SameTime DEF IdleTypeOK
    <3>3. PICK I \in Nat, c \in Nat : I = idleSeconds * PerSecond /\ c = SinceTimer'
      BY <3>2, IdleConstants
    <3>4. time - time <= I + setback + c /\ time - setback <= time - setback /\ time - setback <= time
      BY <3>2
    <3> QED
      BY <3>1, <3>3, <3>4 DEF Timed, Silence
  <2>2. CASE q # p
    <3>1. heard'[q] = heard[q] /\ lastReceiveTime'[q] = lastReceiveTime[q] /\ tcp'[q] = tcp[q] /\ time' = time /\ setback' = setback
      BY <1>1, <2>2 DEF IdleTypeOK
    <3> QED
      BY <1>1, <3>1, SameTime DEF Timed, Silence, ListInv
  <2> QED
    BY <2>1, <2>2
<1> QED
  BY <1>4, <1>5, <1>6, <1>7 DEF ListInv, Timed

\* shutdown, of connections that were silent for long enough.
LEMMA ShutdownStep ==
    ASSUME IdleTypeOK, QuietInv, NEW ps, Shutdown(ps), closer' = closer,
           \A p \in IdlePeers : p \in ps /\ tcp[p] = "up" => Silence(p) >= Fewest
    PROVE  /\ tcp' \in [IdlePeers -> {"none", "up", "shut", "closed"}]
           /\ quiet' \in [IdlePeers -> Nat]
           /\ QuietInv'
           /\ \A p \in IdlePeers : /\ tcp'[p] = "up" <=> tcp[p] = "up" /\ p \notin ps
                                   /\ tcp'[p] \in {"up", "shut"} <=> tcp[p] \in {"up", "shut"}
<1> DEFINE open == {p \in ps : tcp[p] = "up"}
<1>1. /\ tcp' = [p \in IdlePeers |-> IF p \in open THEN "shut" ELSE tcp[p]]
      /\ quiet' = [p \in IdlePeers |-> IF p \in open THEN time - heard[p] ELSE quiet[p]]
  BY DEF Shutdown
<1>2. \A p \in IdlePeers : time - heard[p] \in Nat
  BY DEF IdleTypeOK
<1>3. /\ tcp' \in [IdlePeers -> {"none", "up", "shut", "closed"}] /\ quiet' \in [IdlePeers -> Nat]
  BY <1>1, <1>2 DEF IdleTypeOK
<1>4. Fewest' = Fewest
  BY DEF Fewest
<1>5. \A p \in IdlePeers : tcp'[p] = "shut" => quiet'[p] >= Fewest
  BY <1>1 DEF QuietInv, Silence
<1>6. QuietInv'
  BY <1>4, <1>5 DEF QuietInv
<1>7. \A p \in IdlePeers : /\ tcp'[p] = "up" <=> tcp[p] = "up" /\ p \notin ps
                           /\ tcp'[p] \in {"up", "shut"} <=> tcp[p] \in {"up", "shut"}
  BY <1>1
<1> QED
  BY <1>3, <1>6, <1>7

LEMMA TimerList ==
    ASSUME IdleTypeOK, QuietInv, ListInv, onTimerList
    PROVE  IdleTypeOK' /\ QuietInv' /\ ListInv'
<1> DEFINE I == idleSeconds * PerSecond
           Young(i) == Age(connectionList[i]) \in 0 .. I
           seen == {connectionList[i] : i \in {j \in DOMAIN connectionList : \A k \in 1 .. j : ~Young(k)}}
           ps == {p \in seen : Age(p) > 0}
<1>1. /\ timerDue /\ closer = "list" /\ timerDue' = FALSE /\ Shutdown(ps)
      /\ lastReceiveTime' = [p \in IdlePeers |-> IF p \in seen /\ Age(p) < 0 THEN now ELSE lastReceiveTime[p]]
      /\ UNCHANGED <<closer, time, setback, heard, connectionList, connectionBuckets>>
  BY DEF onTimerList
<1>2. /\ time \in Nat /\ setback \in Nat /\ now = time - setback /\ now \in Int /\ I \in Nat
      /\ \A p \in IdlePeers : /\ heard[p] \in Nat /\ heard[p] <= time /\ lastReceiveTime[p] \in Int
                              /\ Age(p) = now - lastReceiveTime[p] /\ Silence(p) = time - heard[p]
                              /\ heard[p] - setback <= lastReceiveTime[p] /\ lastReceiveTime[p] <= heard[p]
  BY IdleConstants DEF IdleTypeOK, now, Age, Silence, ListInv
<1>3. PICK n \in Nat : n = Len(connectionList) /\ DOMAIN connectionList = 1 .. n /\ \A i \in 1 .. n : connectionList[i] \in IdlePeers
  BY LenProperties, ElementOfSeq DEF IdleTypeOK
<1>4. \A p \in seen : p \in IdlePeers /\ Age(p) \notin 0 .. I
  <2> SUFFICES ASSUME NEW p \in seen PROVE p \in IdlePeers /\ Age(p) \notin 0 .. I
    OBVIOUS
  <2>1. PICK j \in 1 .. n : p = connectionList[j] /\ \A k \in 1 .. j : ~Young(k)
    BY <1>3
  <2>2. j \in 1 .. j
    BY <1>3
  <2> QED
    BY <1>3, <2>1, <2>2
<1>5. ASSUME NEW p \in IdlePeers, tcp[p] = "up", p \notin seen
      PROVE  heard[p] >= now - I
  <2>1. PICK j \in 1 .. n : p = connectionList[j]
    BY <1>3, <1>5 DEF ListInv, Held
  <2>2. PICK k \in 1 .. j : Young(k)
    BY <1>3, <1>5, <2>1
  <2>3. PICK q \in IdlePeers : q = connectionList[k] /\ k \in 1 .. n /\ k <= j /\ Age(q) \in 0 .. I
    BY <1>3, <2>1, <2>2
  <2>4. heard[q] <= heard[p]
    BY <1>3, <2>1, <2>3 DEF ListInv, Ordered
  <2> HIDE DEF I
  <2> QED
    BY <1>2, <2>3, <2>4
<1>6. \A p \in IdlePeers : p \in ps => Silence(p) >= I
  <2> HIDE DEF I, seen
  <2> QED
    BY <1>2, <1>4
<1>7. Fewest = I
  BY <1>1 DEF Fewest
<1>8. /\ tcp' \in [IdlePeers -> {"none", "up", "shut", "closed"}] /\ quiet' \in [IdlePeers -> Nat] /\ QuietInv'
      /\ \A p \in IdlePeers : /\ tcp'[p] = "up" <=> tcp[p] = "up" /\ p \notin ps
                              /\ tcp'[p] \in {"up", "shut"} <=> tcp[p] \in {"up", "shut"}
  <2> HIDE DEF ps, I
  <2> QED
    BY <1>1, <1>6, <1>7, ShutdownStep
<1>9. IdleTypeOK'
  <2>1. lastReceiveTime' \in [IdlePeers -> Int]
    BY <1>1, <1>2
  <2> QED
    BY <1>1, <1>8, <2>1 DEF IdleTypeOK
<1>10. SinceTimer' = 0
  BY <1>1, TimerHandled
<1> HIDE DEF seen, I
<1>11. ASSUME NEW p \in IdlePeers PROVE Timed(p)'
  <2>1. heard[p] - setback <= lastReceiveTime'[p] /\ lastReceiveTime'[p] <= heard[p]
    <3>1. lastReceiveTime'[p] = IF p \in seen /\ Age(p) < 0 THEN now ELSE lastReceiveTime[p]
      BY <1>1
    <3> QED
      BY <1>2, <3>1
  <2>2. ASSUME tcp'[p] = "up" PROVE time - heard[p] <= I + setback + 0
    <3>1. tcp[p] = "up" /\ p \notin ps
      BY <1>8, <2>2
    <3>2. CASE p \in seen
      <4>1. Age(p) < 0
        BY <1>2, <1>4, <3>1, <3>2
      <4> QED
        BY <1>2, <4>1
    <3>3. CASE p \notin seen
      <4>1. heard[p] >= now - I
        BY <1>5, <3>1, <3>3
      <4> QED
        BY <1>2, <4>1
    <3> QED
      BY <3>2, <3>3
  <2> QED
    BY <1>1, <1>10, <2>1, <2>2 DEF Timed, Silence, I
<1>12. Ordered(connectionList', heard') /\ Held(connectionList') = {p \in IdlePeers : tcp'[p] \in {"up", "shut"}}
  BY <1>1, <1>8 DEF ListInv
<1> QED
  BY <1>8, <1>9, <1>11, <1>12 DEF ListInv, Timed

\* The time goes on, or the clock is set back.
LEMMA ClockList ==
    ASSUME IdleTypeOK, ListInv, Pass \/ \E n \in 1 .. MaxSetBack : SetBack(n)
    PROVE  IdleTypeOK' /\ ListInv'
<1> PICK I \in Nat : I = idleSeconds * PerSecond
  BY IdleConstants
<1>1. /\ UNCHANGED <<closer, tcp, heard, shutAt, quiet, lastReceiveTime, connectionList, connectionBuckets>>
      /\ \/ time' = time + 1 /\ SinceTimer' = SinceTimer + 1 /\ setback' = setback
            /\ timerDue' \in BOOLEAN /\ (timerDue' => time' % PerSecond = 0)
         \/ /\ UNCHANGED <<time, timerDue>> /\ SinceTimer' = SinceTimer /\ setback' \in Nat /\ setback <= setback'
  BY TimePasses, SameTime, IdleAssumption DEF Pass, SetBack
<1>2. IdleTypeOK'
  BY <1>1, SMTT(40) DEF IdleTypeOK
<1>3. ASSUME NEW p \in IdlePeers PROVE Timed(p)'
  <2>1. /\ time \in Nat /\ setback \in Nat /\ heard[p] \in Nat /\ lastReceiveTime[p] \in Int /\ SinceTimer \in Nat
    BY SinceTimerBounded DEF IdleTypeOK
  <2>2. heard[p] - setback <= lastReceiveTime[p] /\ lastReceiveTime[p] <= heard[p]
        /\ (tcp[p] = "up" => time - heard[p] <= I + setback + SinceTimer)
    BY DEF ListInv, Silence
  <2>3. tcp[p] = "up" => time' - heard[p] <= I + setback' + SinceTimer'
    BY <1>1, <2>1, <2>2
  <2>4. heard[p] - setback' <= lastReceiveTime[p]
    BY <1>1, <2>1, <2>2
  <2> QED
    BY <1>1, <2>2, <2>3, <2>4 DEF Timed, Silence
<1> QED
  BY <1>1, <1>2, <1>3 DEF ListInv, Timed

-----------------------------------------------------------------------------
(* TimeWheel.                                                              *)

LEMMA SameBucket ==
    ASSUME NEW q \in IdlePeers, NEW i \in 1 .. idleSeconds, InBucket(q, i), UNCHANGED <<time, timerDue>>, heard'[q] = heard[q],
           \A j \in 1 .. idleSeconds : q \in connectionBuckets'[j] <=> q \in connectionBuckets[j]
    PROVE  InBucket(q, i)'
<1>1. \A j \in i + 1 .. idleSeconds : j \in 1 .. idleSeconds
  BY IdleConstants
<1> QED
  BY <1>1, SameTime DEF InBucket, Silence

\* An entry in the newest bucket.
LEMMA BackStep ==
    ASSUME IdleTypeOK, NEW p \in IdlePeers, connectionBuckets' = IntoBack(p)
    PROVE  /\ connectionBuckets' \in Seq(SUBSET IdlePeers) /\ Len(connectionBuckets') = idleSeconds
           /\ p \in connectionBuckets'[idleSeconds]
           /\ \A q \in IdlePeers : q # p =>
                 \A j \in 1 .. idleSeconds : q \in connectionBuckets'[j] <=> q \in connectionBuckets[j]
<1>1. idleSeconds \in 1 .. Len(connectionBuckets) /\ connectionBuckets \in Seq(SUBSET IdlePeers) /\ Len(connectionBuckets) = idleSeconds
  BY IdleConstants DEF IdleTypeOK
<1>2. connectionBuckets[idleSeconds] \cup {p} \in SUBSET IdlePeers
  BY <1>1, ElementOfSeq
<1>3. /\ connectionBuckets' \in Seq(SUBSET IdlePeers) /\ Len(connectionBuckets') = Len(connectionBuckets)
      /\ \A j \in 1 .. Len(connectionBuckets) :
            connectionBuckets'[j] = IF j = idleSeconds THEN connectionBuckets[idleSeconds] \cup {p} ELSE connectionBuckets[j]
  BY <1>1, <1>2, ExceptSeq DEF IntoBack
<1> QED
  BY <1>1, <1>3

\* Something was received, and the entry put into the newest bucket.
LEMMA HeardInBack ==
    ASSUME IdleTypeOK, NEW p \in IdlePeers, connectionBuckets' = IntoBack(p), heard' = [heard EXCEPT ![p] = time],
           UNCHANGED <<time, timerDue>>
    PROVE  idleSeconds \in 1 .. idleSeconds /\ InBucket(p, idleSeconds)'
<1>1. p \in connectionBuckets'[idleSeconds]
  BY BackStep
<1>2. idleSeconds \in Nat \ {0} /\ idleSeconds - idleSeconds = 0 /\ 0 * PerSecond = 0 /\ idleSeconds + 1 .. idleSeconds = {}
  BY IdleConstants, Seconds
<1>3. SinceTimer' \in Nat /\ time - time = 0
  BY SinceTimerBounded, SameTime DEF IdleTypeOK
<1>4. heard'[p] = time /\ time' = time
  BY DEF IdleTypeOK
<1>5. Silence(p)' = 0
  BY <1>3, <1>4 DEF Silence
<1>6. 0 <= 0 + SinceTimer'
  <2>1. \A c \in Nat : 0 <= 0 + c
    OBVIOUS
  <2> QED
    BY <1>3, <2>1, Zenon
<1> QED
  BY <1>1, <1>2, <1>5, <1>6 DEF InBucket

LEMMA UpWheel ==
    ASSUME IdleTypeOK, WheelInv, closer = "wheel", NEW p \in IdlePeers, onConnectionUp(p)
    PROVE  IdleTypeOK' /\ WheelInv'
<1>1. /\ tcp' = [tcp EXCEPT ![p] = "up"] /\ heard' = [heard EXCEPT ![p] = time] /\ connectionBuckets' = IntoBack(p)
      /\ UNCHANGED <<connectionList, lastReceiveTime, closer, time, setback, timerDue, shutAt, quiet>>
  BY DEF onConnectionUp
<1>2. IdleTypeOK'
  BY <1>1, BackStep DEF IdleTypeOK
<1>3. ASSUME NEW q \in IdlePeers, tcp'[q] = "up" PROVE \E i \in 1 .. idleSeconds : InBucket(q, i)'
  <2>1. CASE q = p
    BY <1>1, <2>1, HeardInBack
  <2>2. CASE q # p
    <3>1. tcp[q] = "up" /\ heard'[q] = heard[q]
      BY <1>1, <1>3, <2>2 DEF IdleTypeOK
    <3>2. PICK i \in 1 .. idleSeconds : InBucket(q, i)
      BY <3>1 DEF WheelInv
    <3>3. InBucket(q, i)'
      BY <1>1, <2>2, <3>1, <3>2, BackStep, SameBucket
    <3> QED
      BY <3>3
  <2> QED
    BY <2>1, <2>2
<1> QED
  BY <1>2, <1>3 DEF WheelInv

LEMMA DownWheel ==
    ASSUME IdleTypeOK, WheelInv, closer = "wheel", NEW p \in IdlePeers, onConnectionDown(p)
    PROVE  IdleTypeOK' /\ WheelInv'
<1>1. /\ tcp' = [tcp EXCEPT ![p] = "closed"] /\ connectionList' = connectionList
      /\ UNCHANGED <<closer, time, setback, timerDue, heard, shutAt, quiet, lastReceiveTime, connectionBuckets>>
  BY DEF onConnectionDown
<1>2. IdleTypeOK'
  BY <1>1 DEF IdleTypeOK
<1>3. ASSUME NEW q \in IdlePeers, tcp'[q] = "up" PROVE \E i \in 1 .. idleSeconds : InBucket(q, i)'
  <2>1. tcp[q] = "up"
    BY <1>1, <1>3 DEF IdleTypeOK
  <2>2. PICK i \in 1 .. idleSeconds : InBucket(q, i)
    BY <2>1 DEF WheelInv
  <2> QED
    BY <1>1, <2>2, SameBucket
<1> QED
  BY <1>2, <1>3 DEF WheelInv

LEMMA MessageWheel ==
    ASSUME IdleTypeOK, WheelInv, closer = "wheel", NEW p \in IdlePeers, onIdleMessage(p)
    PROVE  IdleTypeOK' /\ WheelInv'
<1>1. /\ heard' = [heard EXCEPT ![p] = time]
      /\ connectionBuckets' = IF p \in Entries(connectionBuckets) THEN IntoBack(p) ELSE connectionBuckets
      /\ UNCHANGED <<connectionList, lastReceiveTime, closer, time, setback, timerDue, tcp, shutAt, quiet>>
  BY DEF onIdleMessage
<1>2. IdleTypeOK'
  BY <1>1, BackStep DEF IdleTypeOK
<1>3. tcp[p] = "up" => p \in Entries(connectionBuckets)
  <2>1. DOMAIN connectionBuckets = 1 .. idleSeconds
    BY LenProperties DEF IdleTypeOK
  <2> QED
    BY <2>1 DEF WheelInv, InBucket, Entries, Range
<1>4. ASSUME NEW q \in IdlePeers, tcp'[q] = "up" PROVE \E i \in 1 .. idleSeconds : InBucket(q, i)'
  <2>1. tcp[q] = "up"
    BY <1>1, <1>4
  <2>2. CASE q = p
    BY <1>1, <1>3, <2>1, <2>2, HeardInBack
  <2>3. CASE q # p
    <3>1. heard'[q] = heard[q]
      BY <1>1, <2>3 DEF IdleTypeOK
    <3>2. PICK i \in 1 .. idleSeconds : InBucket(q, i)
      BY <2>1 DEF WheelInv
    <3>3. \A j \in 1 .. idleSeconds : q \in connectionBuckets'[j] <=> q \in connectionBuckets[j]
      BY <1>1, <2>3, BackStep
    <3>4. InBucket(q, i)'
      BY <1>1, <3>1, <3>2, <3>3, SameBucket
    <3> QED
      BY <3>4
  <2> QED
    BY <2>2, <2>3
<1> QED
  BY <1>2, <1>4 DEF WheelInv

LEMMA ClockWheel ==
    ASSUME IdleTypeOK, WheelInv, Pass \/ \E n \in 1 .. MaxSetBack : SetBack(n)
    PROVE  IdleTypeOK' /\ WheelInv'
<1>1. /\ UNCHANGED <<closer, tcp, heard, shutAt, quiet, lastReceiveTime, connectionList, connectionBuckets>>
      /\ \/ time' = time + 1 /\ SinceTimer' = SinceTimer + 1 /\ setback' = setback
            /\ timerDue' \in BOOLEAN /\ (timerDue' => time' % PerSecond = 0)
         \/ /\ UNCHANGED <<time, timerDue>> /\ SinceTimer' = SinceTimer /\ setback' \in Nat
  BY TimePasses, SameTime, IdleAssumption DEF Pass, SetBack
<1>2. IdleTypeOK'
  BY <1>1 DEF IdleTypeOK
<1>3. ASSUME NEW q \in IdlePeers, tcp'[q] = "up" PROVE \E i \in 1 .. idleSeconds : InBucket(q, i)'
  <2>1. PICK i \in 1 .. idleSeconds : InBucket(q, i)
    BY <1>1, <1>3 DEF WheelInv
  <2>2. PICK s \in Int, a \in Int, b \in Int : s = Silence(q) /\ a = (idleSeconds - i) * PerSecond /\ b = (idleSeconds - i - 1) * PerSecond
    <3>1. Silence(q) \in Int
      BY DEF Silence, IdleTypeOK
    <3>2. (idleSeconds - i) * PerSecond \in Int /\ (idleSeconds - i - 1) * PerSecond \in Int
      BY IdleConstants
    <3> QED
      BY <3>1, <3>2
  <2>4. SinceTimer \in Nat /\ s <= a + SinceTimer /\ (i < idleSeconds => s >= b + SinceTimer)
    BY <2>1, <2>2, SinceTimerBounded DEF InBucket
  <2>5. \/ Silence(q)' = s + 1 /\ SinceTimer' = SinceTimer + 1
        \/ Silence(q)' = s /\ SinceTimer' = SinceTimer
    BY <1>1, <2>2 DEF Silence, IdleTypeOK
  <2>6. Silence(q)' <= a + SinceTimer' /\ (i < idleSeconds => Silence(q)' >= b + SinceTimer')
    BY <2>4, <2>5
  <2>7. InBucket(q, i)'
    BY <1>1, <2>1, <2>2, <2>6 DEF InBucket
  <2> QED
    BY <2>7
<1> QED
  BY <1>2, <1>3 DEF WheelInv

\* A bucket is pushed: the others move on by one.
LEMMA PushStep ==
    ASSUME IdleTypeOK, NEW buckets, buckets = Append(Tail(connectionBuckets), {})
    PROVE  /\ buckets \in Seq(SUBSET IdlePeers) /\ Len(buckets) = idleSeconds
           /\ \A i \in 1 .. idleSeconds : buckets[i] = IF i < idleSeconds THEN connectionBuckets[i + 1] ELSE {}
<1> PICK N \in Nat \ {0} : N = idleSeconds
  BY IdleConstants
<1>1. connectionBuckets \in Seq(SUBSET IdlePeers) /\ Len(connectionBuckets) = N /\ connectionBuckets # <<>>
  BY EmptySeq DEF IdleTypeOK
<1>0. /\ Tail(connectionBuckets) \in Seq(SUBSET IdlePeers) /\ Len(Tail(connectionBuckets)) = Len(connectionBuckets) - 1
       /\ \A i \in 1 .. Len(Tail(connectionBuckets)) : Tail(connectionBuckets)[i] = connectionBuckets[i + 1]
  BY <1>1, HeadTailProperties
<1>2. PICK t \in Seq(SUBSET IdlePeers) : t = Tail(connectionBuckets) /\ Len(t) = N - 1
                                          /\ \A i \in 1 .. N - 1 : t[i] = connectionBuckets[i + 1]
  BY <1>1, <1>0, Zenon
<1>3. {} \in SUBSET IdlePeers
  OBVIOUS
<1>4. /\ buckets \in Seq(SUBSET IdlePeers) /\ Len(buckets) = N - 1 + 1
      /\ (\A i \in 1 .. N - 1 : buckets[i] = t[i]) /\ buckets[N - 1 + 1] = {}
  BY <1>2, <1>3, AppendProperties
<1>5. N - 1 + 1 = N /\ \A i \in 1 .. N : i < N \/ i = N
  OBVIOUS
<1> QED
  BY <1>2, <1>4, <1>5

LEMMA TimerWheel ==
    ASSUME IdleTypeOK, QuietInv, WheelInv, onTimerWheel
    PROVE  IdleTypeOK' /\ QuietInv' /\ WheelInv'
<1> PICK N \in Nat \ {0}, P \in Nat \ {0} : N = idleSeconds /\ P = PerSecond
  BY IdleConstants
<1> DEFINE buckets == Append(Tail(connectionBuckets), {})
           ps == Entries(connectionBuckets) \ Entries(buckets)
<1>1. /\ timerDue /\ closer = "wheel" /\ timerDue' = FALSE /\ connectionBuckets' = buckets /\ Shutdown(ps)
      /\ UNCHANGED <<closer, time, setback, heard, lastReceiveTime, connectionList>>
  BY DEF onTimerWheel
<1>2. /\ buckets \in Seq(SUBSET IdlePeers) /\ Len(buckets) = N
      /\ \A i \in 1 .. N : buckets[i] = IF i < N THEN connectionBuckets[i + 1] ELSE {}
  BY PushStep
<1> HIDE DEF buckets
<1>3. \A p : /\ p \in Entries(buckets) <=> \E i \in 1 .. N : p \in buckets[i]
             /\ p \in Entries(connectionBuckets) <=> \E i \in 1 .. N : p \in connectionBuckets[i]
  <2>1. DOMAIN buckets = 1 .. N /\ DOMAIN connectionBuckets = 1 .. N
    BY <1>2, LenProperties DEF IdleTypeOK
  <2> QED
    BY <2>1 DEF Entries, Range
<1>4. SinceTimer' = 0 /\ SinceTimer = P
  BY <1>1, TimerHandled
<1>5. \A p \in IdlePeers : Silence(p) \in Nat /\ Silence(p)' = Silence(p)
  BY <1>1 DEF Silence, IdleTypeOK
\* An entry of the oldest bucket and of no other.
<1>6. ASSUME NEW p \in IdlePeers, InBucket(p, 1)
      PROVE  p \in ps /\ Silence(p) >= (N - 1) * P
  <2>1. p \in connectionBuckets[1] /\ 1 \in 1 .. N /\ \A j \in 2 .. N : p \notin connectionBuckets[j]
    BY <1>6 DEF InBucket
  <2>2. \A i \in 1 .. N : p \notin buckets[i]
    <3>1. \A i \in 1 .. N : i < N => i + 1 \in 2 .. N
      OBVIOUS
    <3> QED
      BY <1>2, <2>1, <3>1
  <2>3. p \in ps
    BY <1>3, <2>1, <2>2
  <2>4. CASE N = 1
    <3>1. N - 1 = 0 /\ 0 * P = 0
      BY <2>4
    <3> QED
      BY <1>5, <2>3, <3>1
  <2>5. CASE N > 1
    <3>1. PICK m \in Nat : N - 1 - 1 = m /\ N - 1 = m + 1
      BY <2>5
    <3>2. Silence(p) >= m * P + P
      BY <1>4, <1>6, <2>5, <3>1 DEF InBucket
    <3>3. (m + 1) * P = m * P + P
      BY Seconds
    <3> QED
      BY <2>3, <3>1, <3>2, <3>3
  <2> QED
    BY <2>4, <2>5
\* One that is in a later bucket too.
<1>7. ASSUME NEW p \in IdlePeers, NEW i \in 2 .. N, InBucket(p, i)
      PROVE  p \notin ps /\ InBucket(p, i - 1)'
  <2>1. i - 1 \in 1 .. N /\ i - 1 < N /\ i - 1 + 1 = i
    OBVIOUS
  <2>2. p \in buckets[i - 1]
    BY <1>2, <1>7, <2>1 DEF InBucket
  <2>3. p \notin ps
    BY <1>3, <2>1, <2>2
  <2>4. \A j \in (i - 1) + 1 .. N : p \notin buckets[j]
    <3> SUFFICES ASSUME NEW j \in i .. N PROVE p \notin buckets[j]
      BY <2>1
    <3>1. j \in 1 .. N /\ (j < N => j + 1 \in i + 1 .. N)
      OBVIOUS
    <3> QED
      BY <1>2, <1>7, <3>1 DEF InBucket
  <2>5. PICK m \in Nat : m = N - i
    OBVIOUS
  <2>6. (m + 1) * P = m * P + P /\ m * P \in Nat
    BY Seconds
  <2>7. Silence(p) <= (m + 1) * P + 0
    <3>1. Silence(p) <= m * P + P
      BY <1>4, <1>7, <2>5 DEF InBucket
    <3> QED
      BY <1>5, <2>6, <3>1
  <2>8. Silence(p) >= m * P + 0
    <3>1. CASE i = N
      <4>1. m = 0 /\ 0 * P = 0
        BY <2>5, <3>1
      <4> QED
        BY <1>5, <4>1
    <3>2. CASE i < N
      <4>1. PICK k \in Nat : k = N - i - 1 /\ m = k + 1
        BY <2>5, <3>2
      <4>2. Silence(p) >= k * P + P
        BY <1>4, <1>7, <3>2, <4>1 DEF InBucket
      <4>3. (k + 1) * P = k * P + P /\ k * P \in Nat
        BY Seconds
      <4> QED
        BY <1>5, <2>6, <4>1, <4>2, <4>3
    <3> QED
      BY <3>1, <3>2
  <2>9. N - (i - 1) = m + 1 /\ N - (i - 1) - 1 = m
    BY <2>5
  <2> QED
    BY <1>1, <1>4, <1>5, <2>2, <2>3, <2>4, <2>7, <2>8, <2>9 DEF InBucket
<1>8. \A p \in IdlePeers : tcp[p] = "up" => \E i \in 1 .. N : InBucket(p, i)
  BY DEF WheelInv
<1>9. \A i \in 1 .. N : i = 1 \/ i \in 2 .. N
  OBVIOUS
<1>10. \A p \in IdlePeers : p \in ps /\ tcp[p] = "up" => Silence(p) >= Fewest
  <2>1. Fewest = (N - 1) * P
    BY <1>1 DEF Fewest
  <2> QED
    BY <1>6, <1>7, <1>8, <1>9, <2>1
<1> HIDE DEF ps
<1>11. /\ tcp' \in [IdlePeers -> {"none", "up", "shut", "closed"}] /\ quiet' \in [IdlePeers -> Nat] /\ QuietInv'
       /\ \A p \in IdlePeers : tcp'[p] = "up" <=> tcp[p] = "up" /\ p \notin ps
  BY <1>1, <1>10, ShutdownStep
<1>12. IdleTypeOK'
  BY <1>1, <1>2, <1>11 DEF IdleTypeOK
<1>13. ASSUME NEW p \in IdlePeers, tcp'[p] = "up" PROVE \E i \in 1 .. N : InBucket(p, i)'
  <2>1. tcp[p] = "up" /\ p \notin ps
    BY <1>11, <1>13
  <2>2. PICK i \in 2 .. N : InBucket(p, i)
    BY <1>6, <1>8, <1>9, <2>1
  <2>3. i - 1 \in 1 .. N
    OBVIOUS
  <2> QED
    BY <1>7, <2>2, <2>3
<1> QED
  BY <1>11, <1>12, <1>13 DEF WheelInv

-----------------------------------------------------------------------------
LEMMA InitIdle == IdleInit => IdleInv
<1> SUFFICES ASSUME IdleInit PROVE IdleInv
  OBVIOUS
<1>1. IdleTypeOK
  <2>1. [i \in 1 .. idleSeconds |-> {}] \in [1 .. idleSeconds -> SUBSET IdlePeers]
    OBVIOUS
  <2>2. connectionBuckets \in Seq(SUBSET IdlePeers) /\ Len(connectionBuckets) = idleSeconds
    BY <2>1, IdleConstants DEF IdleInit
  <2>3. connectionList \in Seq(IdlePeers)
    BY EmptySeq DEF IdleInit
  <2>4. /\ closer \in {"list", "wheel"} /\ time = 0 /\ setback = 0 /\ timerDue = FALSE
        /\ tcp \in [IdlePeers -> {"none", "up", "shut", "closed"}]
        /\ heard \in [IdlePeers -> Nat] /\ quiet \in [IdlePeers -> Nat] /\ lastReceiveTime \in [IdlePeers -> Int]
        /\ \A p \in IdlePeers : heard[p] <= time
    BY DEF IdleInit
  <2> QED
    BY <2>2, <2>3, <2>4 DEF IdleTypeOK
<1>2. ListInv
  <2>1. Len(connectionList) = 0 /\ 1 .. 0 = {}
    BY EmptySeq DEF IdleInit
  <2>2. Ordered(connectionList, heard) /\ Held(connectionList) = {p \in IdlePeers : tcp[p] \in {"up", "shut"}}
    BY <2>1 DEF IdleInit, Ordered, Held
  <2> QED
    BY <2>2 DEF IdleInit, ListInv
<1>3. WheelInv /\ QuietInv
  BY DEF IdleInit, WheelInv, QuietInv
<1> QED
  BY <1>1, <1>2, <1>3 DEF IdleInv

LEMMA SameQuiet ==
    ASSUME QuietInv, UNCHANGED <<closer, quiet>>, \A p \in IdlePeers : tcp'[p] = "shut" => tcp[p] = "shut"
    PROVE  QuietInv'
<1>1. Fewest' = Fewest
  BY DEF Fewest
<1> QED
  BY <1>1 DEF QuietInv

(* For any number of peers and any time they may be silent, the list is in *)
(* the order of the last message and a bucket has the entries of its       *)
(* second (EchoServer, TimeWheel).                                         *)
THEOREM IdleCorrect == IdleSpec => []IdleInv
<1>1. IdleInv /\ [IdleNext]_idleVars => IdleInv'
  <2> SUFFICES ASSUME IdleInv, [IdleNext]_idleVars PROVE IdleInv'
    OBVIOUS
  <2>1. IdleTypeOK /\ QuietInv /\ closer \in {"list", "wheel"} /\ (closer = "list" => ListInv) /\ (closer = "wheel" => WheelInv)
    BY DEF IdleInv, IdleTypeOK
  <2>2. ASSUME NEW p \in IdlePeers, onConnectionUp(p) \/ onConnectionDown(p) \/ onIdleMessage(p)
        PROVE  IdleInv'
    <3>1. closer' = closer /\ quiet' = quiet /\ \A q \in IdlePeers : tcp'[q] = "shut" => tcp[q] = "shut"
      BY <2>1, <2>2 DEF onConnectionUp, onConnectionDown, onIdleMessage, IdleTypeOK
    <3>2. QuietInv'
      BY <2>1, <3>1, SameQuiet
    <3>3. CASE closer = "list"
      BY <2>1, <2>2, <3>1, <3>2, <3>3, UpList, DownList, MessageList DEF IdleInv
    <3>4. CASE closer = "wheel"
      BY <2>1, <2>2, <3>1, <3>2, <3>4, UpWheel, DownWheel, MessageWheel DEF IdleInv
    <3> QED
      BY <2>1, <3>3, <3>4
  <2>3. CASE onTimerList
    <3>1. closer = "list" /\ closer' = closer
      BY <2>3 DEF onTimerList
    <3> QED
      BY <2>1, <2>3, <3>1, TimerList DEF IdleInv
  <2>4. CASE onTimerWheel
    <3>1. closer = "wheel" /\ closer' = closer
      BY <2>4 DEF onTimerWheel
    <3> QED
      BY <2>1, <2>4, <3>1, TimerWheel DEF IdleInv
  <2>5. CASE Pass \/ \E n \in 1 .. MaxSetBack : SetBack(n)
    <3>1. closer' = closer /\ quiet' = quiet /\ tcp' = tcp
      BY <2>5 DEF Pass, SetBack
    <3>2. QuietInv'
      BY <2>1, <3>1, SameQuiet
    <3>3. CASE closer = "list"
      BY <2>1, <2>5, <3>1, <3>2, <3>3, ClockList DEF IdleInv
    <3>4. CASE closer = "wheel"
      BY <2>1, <2>5, <3>1, <3>2, <3>4, ClockWheel DEF IdleInv
    <3> QED
      BY <2>1, <3>3, <3>4
  <2>6. CASE UNCHANGED idleVars
    BY <2>1, <2>6 DEF idleVars, IdleInv, IdleTypeOK, ListInv, Ordered, Held, Silence, SinceTimer, WheelInv, InBucket, QuietInv, Fewest
  <2> QED
    BY <2>2, <2>3, <2>4, <2>5, <2>6 DEF IdleNext
<1> QED
  BY <1>1, InitIdle, PTL DEF IdleSpec

(* For any number of peers and any time they may be silent, a connection   *)
(* is shut down in the second in which its time has run out and never      *)
(* before, and the list has the connections that have not ended (onTimer). *)
THEOREM IdleEndedCorrect == IdleSpec => []IdleEnded
<1>1. IdleInv => IdleEnded
  <2> SUFFICES ASSUME IdleInv PROVE IdleEnded
    OBVIOUS
  <2> PICK N \in Nat \ {0}, P \in Nat \ {0} : N = idleSeconds /\ P = PerSecond
    BY IdleConstants
  <2>1. IdleTypeOK /\ QuietInv /\ closer \in {"list", "wheel"} /\ (closer = "list" => ListInv) /\ (closer = "wheel" => WheelInv)
    BY DEF IdleInv, IdleTypeOK
  <2>2. ASSUME NEW p \in IdlePeers, tcp[p] = "up", ~timerDue PROVE Silence(p) <= Most + setback
    <3>1. SinceTimer \in Nat /\ SinceTimer < P /\ setback \in Nat /\ Silence(p) \in Int
      BY <2>1, <2>2, SinceTimerBounded DEF IdleTypeOK, Silence
    <3>2. CASE closer = "list"
      <4>1. PICK I \in Nat : I = N * P /\ (N + 1) * P = I + P
        BY Seconds
      <4>2. Silence(p) <= I + setback + SinceTimer
        BY <2>1, <2>2, <3>2, <4>1 DEF ListInv
      <4>3. Most = I + P
        BY <3>2, <4>1 DEF Most
      <4> QED
        BY <3>1, <4>2, <4>3
    <3>3. CASE closer = "wheel"
      <4>1. PICK i \in 1 .. N : Silence(p) <= (N - i) * P + SinceTimer
        BY <2>1, <2>2, <3>3 DEF WheelInv, InBucket
      <4>2. PICK m \in Nat : m = N - 1 /\ m + 1 = N
        OBVIOUS
      <4>3. N - i \in Nat /\ N - i <= m
        BY <4>2
      <4>4. (N - i) * P <= m * P
        BY <4>3, MoreSeconds
      <4>5. (m + 1) * P = m * P + P /\ m * P \in Nat /\ (N - i) * P \in Nat
        BY <4>3, Seconds
      <4>6. Most = m * P + P
        BY <3>3, <4>2, <4>5 DEF Most
      <4> QED
        BY <3>1, <4>1, <4>4, <4>5, <4>6
    <3> QED
      BY <2>1, <3>2, <3>3
  <2>3. ASSUME closer = "list"
        PROVE  /\ Range(connectionList) = {p \in IdlePeers : tcp[p] \in {"up", "shut"}}
               /\ Len(connectionList) = Cardinality(Range(connectionList))
    <3> DEFINE n == Len(connectionList)
               f == [i \in 1 .. n |-> connectionList[i]]
    <3>1. n \in Nat /\ DOMAIN connectionList = 1 .. n
      BY <2>1, LenProperties DEF IdleTypeOK
    <3>2. Range(connectionList) = Held(connectionList)
      BY <3>1 DEF Range, Held
    <3>3. f \in Injection(1 .. n, Held(connectionList)) /\ f \in Surjection(1 .. n, Held(connectionList))
      BY <2>1, <2>3 DEF Injection, IsInjective, Surjection, Held, ListInv, Ordered
    <3>4. ExistsBijection(1 .. n, Held(connectionList))
      BY <3>3 DEF ExistsBijection, Bijection
    <3>5. IsFiniteSet(1 .. n) /\ Cardinality(1 .. n) = n
      <4>1. \A m \in Nat : IsFiniteSet(1 .. m) /\ Cardinality(1 .. m) = m
        BY FS_Interval
      <4> QED
        BY <3>1, <4>1
    <3>6. Cardinality(Held(connectionList)) = n
      BY <3>4, <3>5, FS_Bijection
    <3> QED
      BY <2>1, <2>3, <3>2, <3>6 DEF ListInv
  <2> QED
    BY <2>1, <2>2, <2>3 DEF IdleEnded, QuietInv
<1> QED
  BY <1>1, IdleCorrect, PTL
=============================================================================
