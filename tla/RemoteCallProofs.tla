-------------------------- MODULE RemoteCallProofs --------------------------
(***************************************************************************)
(* Calls of remote servers: the RPC channel and RedLock.                   *)
(*                                                                         *)
(* The calls of an RPC channel, for any number of calls and ids.  The      *)
(* invariant follows a call: as long as its closure has not been run, the  *)
(* channel keeps the closure under its id, and its request or its answer   *)
(* is unsent, in a service or in a stream; a stream is made of whole       *)
(* messages, and each of them bears the id that its call has drawn.        *)
(*                                                                         *)
(* RedLock's mutual exclusion for every number of servers, clients, times  *)
(* to live and rounds.  A client counts the servers that agreed; the       *)
(* invariant says that each of them still holds the client's value, for at *)
(* least as long as the validity time that the client will compute, and    *)
(* two quorums have a server in common.                                    *)
(***************************************************************************)
EXTENDS Rpc, RedLock, SequenceTheorems, FiniteSetTheorems, TLAPS

(* The RPC channel.                                                        *)

Messages == [type : {"REQUEST", "RESPONSE"}, id : CallIds, call : RpcCalls]
Units == [unit : {"message"}, message : Messages, sound : BOOLEAN]
Bytes == Units \cup {Remainder}

RpcTypeOK ==
    /\ callId \in [RpcCalls -> CallIds \cup {0}] /\ unsent \in SUBSET RpcCalls
    /\ outstandings \in [CallIds -> RpcCalls \cup {NoCall}]
    /\ rpcWire \in [Peers -> Seq(Bytes)] /\ rpcBuf \in [Peers -> Seq(Bytes)]
    /\ rpcConn \in {"up", "down", "gone"} /\ running \in SUBSET Messages
    /\ closures \in [RpcCalls -> Seq(Messages)] /\ damage \in Nat

\* What an end has not taken yet, and whether it is made of whole messages.
Stream(e) == rpcBuf[e] \o rpcWire[e]
Framed(s) ==
    /\ Len(s) % 2 = 0
    /\ \A i \in 1 .. Len(s) : IF i % 2 = 1 THEN s[i] \in Units ELSE s[i] = Remainder

\* A message bears the id that its call has drawn.
Genuine(m) == callId[m.call] = m.id
AllGenuine(s) == \A i \in 1 .. Len(s) : s[i] # Remainder => Genuine(s[i].message)

Carries(s, c) == \E i \in 1 .. Len(s) : s[i] # Remainder /\ s[i].message.call = c

\* The request of c, or its answer, is still on its way.
Pending(c) == \/ c \in unsent \/ \E m \in running : m.call = c
              \/ \E e \in Peers : Carries(Stream(e), c)

StreamInv == \A e \in Peers : Framed(Stream(e)) /\ AllGenuine(Stream(e))

CallInv ==
    /\ \A m \in running : Genuine(m)
    /\ \A c \in unsent : callId[c] # 0
    /\ \A id \in CallIds : outstandings[id] # NoCall =>
          callId[outstandings[id]] = id /\ closures[outstandings[id]] = <<>>
    /\ \A c \in RpcCalls : closures[c] # <<>> =>
          /\ Len(closures[c]) = 1 /\ callId[c] # 0
          /\ closures[c][1].id = callId[c] /\ Genuine(closures[c][1])
    /\ rpcConn = "up" => \A c \in RpcCalls : callId[c] # 0 /\ Alone(c) /\ closures[c] = <<>> =>
          outstandings[callId[c]] = c /\ Pending(c)

RpcInv == StreamInv /\ CallInv

-----------------------------------------------------------------------------
(* Streams of bytes.                                                       *)

LEMMA RemainderIsNoMessage == Remainder \notin Units
<1>1. Remainder.unit = "tail"
  BY DEF Remainder
<1>2. \A u \in Units : u.unit = "message"
  BY DEF Units
<1> QED
  BY <1>1, <1>2

LEMMA Concatenated ==
  ASSUME NEW b \in Seq(Bytes), NEW w \in Seq(Bytes)
  PROVE  /\ b \o w \in Seq(Bytes) /\ Len(b \o w) = Len(b) + Len(w)
         /\ \A i \in 1 .. Len(b) : (b \o w)[i] = b[i]
         /\ \A i \in 1 .. Len(w) : (b \o w)[Len(b) + i] = w[i]
         /\ \A i \in Len(b) + 1 .. Len(b) + Len(w) : (b \o w)[i] = w[i - Len(b)]
  OBVIOUS

\* A message is added to a stream.
LEMMA Pushed ==
  ASSUME NEW b \in Seq(Bytes), NEW w \in Seq(Bytes), NEW u \in Units
  PROVE  LET s == b \o w
             t == b \o (w \o <<u, Remainder>>)
         IN  /\ t \in Seq(Bytes) /\ Len(t) = Len(s) + 2 /\ w \o <<u, Remainder>> \in Seq(Bytes)
             /\ \A i \in 1 .. Len(s) : t[i] = s[i]
             /\ t[Len(s) + 1] = u /\ t[Len(s) + 2] = Remainder
             /\ Framed(s) => Framed(t)
<1> DEFINE x == <<u, Remainder>>
           v == w \o x
           s == b \o w
           t == b \o v
<1>1. x \in Seq(Bytes) /\ Len(x) = 2 /\ x[1] = u /\ x[2] = Remainder
  BY DEF Bytes
<1>2. /\ v \in Seq(Bytes) /\ Len(v) = Len(w) + 2 /\ (\A i \in 1 .. Len(w) : v[i] = w[i])
      /\ v[Len(w) + 1] = u /\ v[Len(w) + 2] = Remainder
  <2> HIDE DEF x
  <2>1. /\ v \in Seq(Bytes) /\ Len(v) = Len(w) + Len(x)
        /\ \A i \in 1 .. Len(w) : v[i] = w[i]
        /\ \A i \in 1 .. Len(x) : v[Len(w) + i] = x[i]
    BY <1>1, Concatenated
  <2>2. 1 \in 1 .. Len(x) /\ 2 \in 1 .. Len(x)
    BY <1>1
  <2> HIDE DEF v
  <2> QED
    BY <1>1, <2>1, <2>2
<1>3. /\ t \in Seq(Bytes) /\ Len(t) = Len(b) + Len(w) + 2
      /\ \A i \in 1 .. Len(b) : t[i] = b[i]
      /\ \A i \in Len(b) + 1 .. Len(b) + Len(v) : t[i] = v[i - Len(b)]
  <2> HIDE DEF v
  <2>1. /\ t \in Seq(Bytes) /\ Len(t) = Len(b) + Len(v)
        /\ \A i \in 1 .. Len(b) : t[i] = b[i]
        /\ \A i \in Len(b) + 1 .. Len(b) + Len(v) : t[i] = v[i - Len(b)]
    BY <1>2, Concatenated
  <2>2. Len(b) \in Nat /\ Len(w) \in Nat
    OBVIOUS
  <2> QED
    BY <1>2, <2>1, <2>2
<1>4. /\ s \in Seq(Bytes) /\ Len(s) = Len(b) + Len(w)
      /\ \A i \in 1 .. Len(b) : s[i] = b[i]
      /\ \A i \in Len(b) + 1 .. Len(b) + Len(w) : s[i] = w[i - Len(b)]
  BY Concatenated
<1>n. Len(b) \in Nat /\ Len(w) \in Nat
  OBVIOUS
<1> HIDE DEF t, s, v, x
<1>5. ASSUME NEW i \in 1 .. Len(s) PROVE t[i] = s[i]
  <2>1. CASE i <= Len(b)
    BY <1>3, <1>4, <1>n, <2>1
  <2>2. CASE i > Len(b)
    <3>1. i - Len(b) \in 1 .. Len(w) /\ i \in Len(b) + 1 .. Len(b) + Len(w) /\ i \in Len(b) + 1 .. Len(b) + Len(v)
      BY <1>2, <1>4, <1>n, <2>2
    <3> QED
      BY <1>2, <1>3, <1>4, <3>1
  <2> QED
    BY <1>4, <1>n, <2>1, <2>2
<1>6. t[Len(s) + 1] = u /\ t[Len(s) + 2] = Remainder
  <2>1. /\ Len(s) + 1 \in Len(b) + 1 .. Len(b) + Len(v) /\ Len(s) + 1 - Len(b) = Len(w) + 1
        /\ Len(s) + 2 \in Len(b) + 1 .. Len(b) + Len(v) /\ Len(s) + 2 - Len(b) = Len(w) + 2
    BY <1>2, <1>4, <1>n
  <2> QED
    BY <1>2, <1>3, <2>1
<1>7. ASSUME Framed(s) PROVE Framed(t)
  <2>1. Len(t) = Len(s) + 2 /\ Len(s) \in Nat /\ Len(s) % 2 = 0
    BY <1>3, <1>4, <1>7, <1>n DEF Framed
  <2>2. Len(t) % 2 = 0 /\ (Len(s) + 1) % 2 = 1 /\ (Len(s) + 2) % 2 = 0
    BY <2>1
  <2>3. ASSUME NEW i \in 1 .. Len(t) PROVE IF i % 2 = 1 THEN t[i] \in Units ELSE t[i] = Remainder
    <3>1. CASE i \in 1 .. Len(s)
      BY <1>5, <1>7, <3>1 DEF Framed
    <3>2. CASE i = Len(s) + 1
      BY <1>6, <2>2, <3>2
    <3>3. CASE i = Len(s) + 2
      BY <1>6, <2>2, <3>3
    <3> QED
      BY <2>1, <3>1, <3>2, <3>3
  <2> QED
    BY <2>2, <2>3 DEF Framed
<1> QED
  BY <1>2, <1>3, <1>4, <1>5, <1>6, <1>7 DEF s, t, v, x

\* The first message is taken from a stream.
LEMMA Popped ==
  ASSUME NEW b \in Seq(Bytes), NEW w \in Seq(Bytes), Len(b) >= 2, Framed(b \o w)
  PROVE  LET s == b \o w
             t == SubSeq(b, 3, Len(b)) \o w
         IN  /\ t \in Seq(Bytes) /\ Len(t) = Len(s) - 2 /\ SubSeq(b, 3, Len(b)) \in Seq(Bytes)
             /\ \A i \in 1 .. Len(t) : t[i] = s[i + 2]
             /\ Head(b) = s[1] /\ s[1] \in Units /\ s[2] = Remainder
             /\ Framed(t)
<1> DEFINE a == SubSeq(b, 3, Len(b))
           s == b \o w
           t == a \o w
<1>n. Len(b) \in Nat /\ Len(w) \in Nat
  OBVIOUS
<1>1. a \in Seq(Bytes) /\ Len(a) = Len(b) - 2 /\ \A i \in 1 .. Len(a) : a[i] = b[i + 2]
  <2>0. 3 \in Int /\ Len(b) \in Int /\ \A i \in 3 .. Len(b) : b[i] \in Bytes
    BY <1>n
  <2>1. /\ a \in Seq(Bytes) /\ Len(a) = IF 3 <= Len(b) THEN Len(b) - 3 + 1 ELSE 0
        /\ \A i \in 1 .. Len(b) - 3 + 1 : a[i] = b[3 + i - 1]
    BY <2>0, SubSeqProperties
  <2> HIDE DEF a
  <2>2. /\ a \in Seq(Bytes) /\ Len(a) = Len(b) - 3 + 1
        /\ \A i \in 1 .. Len(b) - 3 + 1 : a[i] = b[3 + i - 1]
    <3>1. PICK k \in Nat : k = Len(b) /\ k >= 2
      BY <1>n
    <3>2. (IF 3 <= k THEN k - 3 + 1 ELSE 0) = k - 3 + 1
      BY <3>1
    <3> QED
      BY <2>1, <3>1, <3>2
  <2>3. ASSUME NEW i \in 1 .. Len(a) PROVE a[i] = b[i + 2]
    <3>1. i \in 1 .. Len(b) - 3 + 1 /\ 3 + i - 1 = i + 2
      BY <1>n, <2>2
    <3> QED
      BY <2>2, <3>1
  <2> QED
    BY <1>n, <2>2, <2>3
<1>2. /\ s \in Seq(Bytes) /\ Len(s) = Len(b) + Len(w)
      /\ \A i \in 1 .. Len(b) : s[i] = b[i]
      /\ \A i \in Len(b) + 1 .. Len(b) + Len(w) : s[i] = w[i - Len(b)]
  BY Concatenated
<1>3. /\ t \in Seq(Bytes) /\ Len(t) = Len(a) + Len(w)
      /\ \A i \in 1 .. Len(a) : t[i] = a[i]
      /\ \A i \in Len(a) + 1 .. Len(a) + Len(w) : t[i] = w[i - Len(a)]
  <2> HIDE DEF a
  <2> QED
    BY <1>1, Concatenated
<1>4. Head(b) = b[1]
  OBVIOUS
<1>5. Framed(s)
  OBVIOUS
<1> HIDE DEF t, s, a
<1>6. ASSUME NEW i \in 1 .. Len(t) PROVE t[i] = s[i + 2] /\ i \in Nat
  <2>1. CASE i <= Len(a)
    <3>1. i \in 1 .. Len(a) /\ i + 2 \in 1 .. Len(b)
      BY <1>1, <1>n, <2>1
    <3> QED
      BY <1>1, <1>2, <1>3, <3>1
  <2>2. CASE i > Len(a)
    <3>1. i \in Len(a) + 1 .. Len(a) + Len(w) /\ i + 2 \in Len(b) + 1 .. Len(b) + Len(w) /\ i - Len(a) = i + 2 - Len(b)
      BY <1>1, <1>3, <1>n, <2>2
    <3> QED
      BY <1>2, <1>3, <3>1, SMTT(40)
  <2> QED
    BY <1>1, <1>3, <1>n, <2>1, <2>2
<1>7. Len(t) = Len(s) - 2 /\ Len(s) \in Nat /\ Len(s) >= 2
  BY <1>1, <1>2, <1>3, <1>n
<1>8. Head(b) = s[1] /\ s[1] \in Units /\ s[2] = Remainder
  <2>1. 1 \in 1 .. Len(s) /\ 2 \in 1 .. Len(s) /\ 1 % 2 = 1 /\ 2 % 2 = 0 /\ 1 \in 1 .. Len(b)
    BY <1>7, <1>n
  <2> QED
    BY <1>2, <1>4, <1>5, <2>1 DEF Framed
<1>9. Framed(t)
  <2>1. Len(t) % 2 = 0
    BY <1>5, <1>7 DEF Framed
  <2>2. ASSUME NEW i \in 1 .. Len(t) PROVE IF i % 2 = 1 THEN t[i] \in Units ELSE t[i] = Remainder
    <3>1. i + 2 \in 1 .. Len(s) /\ (i + 2) % 2 = i % 2
      BY <1>6, <1>7
    <3> QED
      BY <1>5, <1>6, <3>1 DEF Framed
  <2> QED
    BY <2>1, <2>2 DEF Framed
<1> QED
  BY <1>1, <1>3, <1>6, <1>7, <1>8, <1>9 DEF s, t, a

\* One unit goes from the wire to the buffer.
LEMMA Moved ==
  ASSUME NEW b \in Seq(Bytes), NEW w \in Seq(Bytes), w # <<>>
  PROVE  /\ Append(b, Head(w)) \in Seq(Bytes) /\ Tail(w) \in Seq(Bytes)
         /\ Append(b, Head(w)) \o Tail(w) = b \o w
  OBVIOUS

-----------------------------------------------------------------------------
(* What the steps do to the streams.                                       *)

LEMMA RpcConstants == /\ 0 \notin CallIds /\ NoCall = 0 /\ NoCall \notin RpcCalls
                      /\ "client" \in Peers /\ "server" \in Peers /\ "client" # "server"
                      /\ \A e \in Peers : e = "client" \/ e = "server"
  BY RpcAssumption DEF NoCall, Peers

StreamKept(e) == /\ Framed(Stream(e)) /\ AllGenuine(Stream(e))

LEMMA SameStream ==
  ASSUME NEW e \in Peers, rpcBuf'[e] = rpcBuf[e], rpcWire'[e] = rpcWire[e], callId' = callId, StreamKept(e)
  PROVE  StreamKept(e)' /\ \A c \in RpcCalls : Carries(Stream(e), c) <=> Carries(Stream(e), c)'
<1>1. Stream(e)' = Stream(e)
  BY DEF Stream
<1> QED
  BY <1>1 DEF StreamKept, AllGenuine, Genuine, Framed, Carries

LEMMA SentTo ==
  ASSUME RpcTypeOK, NEW e \in Peers, NEW m \in Messages, CodecSend(e, m), rpcBuf'[e] = rpcBuf[e],
         callId' = callId, Genuine(m), StreamKept(e)
  PROVE  /\ rpcWire' \in [Peers -> Seq(Bytes)] /\ StreamKept(e)'
         /\ \A c \in RpcCalls : Carries(Stream(e), c) => Carries(Stream(e), c)'
         /\ rpcConn = "up" => Carries(Stream(e), m.call)'
         /\ \A p \in Peers : p # e => rpcWire'[p] = rpcWire[p]
<1>0. rpcWire \in [Peers -> Seq(Bytes)] /\ rpcBuf \in [Peers -> Seq(Bytes)]
  BY DEF RpcTypeOK
<1>1. CASE rpcConn # "up"
  <2>1. rpcWire' = rpcWire
    BY <1>1 DEF CodecSend
  <2> QED
    BY <1>0, <1>1, <2>1, SameStream
<1>2. CASE rpcConn = "up"
  <2> DEFINE u == [unit |-> "message", message |-> m, sound |-> TRUE]
             v == rpcWire[e] \o <<u, Remainder>>
             s == rpcBuf[e] \o rpcWire[e]
             t == rpcBuf[e] \o v
  <2>1. rpcWire' = [rpcWire EXCEPT ![e] = v]
    BY <1>2 DEF CodecSend
  <2>2. u \in Units /\ u.message = m /\ u # Remainder
    <3>1. u \in Units /\ u.message = m
      BY DEF Units
    <3> HIDE DEF u
    <3> QED
      BY <3>1, RemainderIsNoMessage
  <2>3. Stream(e) = s /\ Stream(e)' = t
    BY <1>0, <2>1 DEF Stream
  <2> HIDE DEF u
  <2>4. /\ t \in Seq(Bytes) /\ Len(t) = Len(s) + 2 /\ v \in Seq(Bytes)
        /\ \A i \in 1 .. Len(s) : t[i] = s[i]
        /\ t[Len(s) + 1] = u /\ t[Len(s) + 2] = Remainder
        /\ Framed(s) => Framed(t)
    BY <1>0, <2>2, Pushed
  <2>5. Len(s) \in Nat
    BY <1>0, Concatenated
  <2> HIDE DEF s, t, v
  <2>6. Framed(s) /\ AllGenuine(s)
    BY <2>3 DEF StreamKept
  <2>7. \A i \in 1 .. Len(t) : t[i] # Remainder => Genuine(t[i].message)
    <3>1. ASSUME NEW i \in 1 .. Len(t), t[i] # Remainder PROVE Genuine(t[i].message)
      <4>1. CASE i \in 1 .. Len(s)
        BY <2>4, <2>6, <3>1, <4>1 DEF AllGenuine
      <4>2. CASE i = Len(s) + 1
        BY <2>2, <2>4, <4>2
      <4>3. CASE i = Len(s) + 2
        BY <2>4, <3>1, <4>3
      <4> QED
        BY <2>4, <2>5, <4>1, <4>2, <4>3
    <3> QED
      BY <3>1
  <2>8. StreamKept(e)'
    BY <2>3, <2>4, <2>6, <2>7 DEF StreamKept, AllGenuine, Genuine, Framed
  <2>9. ASSUME NEW c \in RpcCalls, Carries(Stream(e), c) PROVE Carries(Stream(e), c)'
    <3>1. PICK i \in 1 .. Len(s) : s[i] # Remainder /\ s[i].message.call = c
      BY <2>3, <2>9 DEF Carries
    <3>2. i \in 1 .. Len(t) /\ t[i] = s[i]
      BY <2>4, <2>5
    <3> QED
      BY <2>3, <3>1, <3>2 DEF Carries
  <2>10. Carries(Stream(e), m.call)'
    <3>1. Len(s) + 1 \in 1 .. Len(t) /\ t[Len(s) + 1] # Remainder /\ t[Len(s) + 1].message.call = m.call
      BY <2>2, <2>4, <2>5
    <3> QED
      BY <2>3, <3>1 DEF Carries
  <2> QED
    BY <1>0, <2>1, <2>4, <2>8, <2>9, <2>10
<1> QED
  BY <1>1, <1>2

LEMMA TakenFrom ==
  ASSUME RpcTypeOK, NEW e \in Peers, Whole(e), Retrieve(e), rpcWire'[e] = rpcWire[e],
         callId' = callId, StreamKept(e)
  PROVE  /\ rpcBuf' \in [Peers -> Seq(Bytes)] /\ StreamKept(e)'
         /\ Head(rpcBuf[e]) \in Units /\ FirstMessage(e) \in Messages /\ Genuine(FirstMessage(e))
         /\ \A c \in RpcCalls : Carries(Stream(e), c) => c = FirstMessage(e).call \/ Carries(Stream(e), c)'
         /\ \A p \in Peers : p # e => rpcBuf'[p] = rpcBuf[p]
<1>0. /\ rpcWire \in [Peers -> Seq(Bytes)] /\ rpcBuf \in [Peers -> Seq(Bytes)]
      /\ Len(rpcBuf[e]) >= 2 /\ Framed(rpcBuf[e] \o rpcWire[e])
  BY DEF RpcTypeOK, Whole, StreamKept, Stream
<1> DEFINE a == SubSeq(rpcBuf[e], 3, Len(rpcBuf[e]))
           s == rpcBuf[e] \o rpcWire[e]
           t == a \o rpcWire[e]
<1>1. rpcBuf' = [rpcBuf EXCEPT ![e] = a]
  BY DEF Retrieve
<1>2. /\ t \in Seq(Bytes) /\ Len(t) = Len(s) - 2 /\ a \in Seq(Bytes)
      /\ \A i \in 1 .. Len(t) : t[i] = s[i + 2]
      /\ Head(rpcBuf[e]) = s[1] /\ s[1] \in Units /\ s[2] = Remainder
      /\ Framed(t)
  BY <1>0, Popped
<1>3. Stream(e) = s /\ Stream(e)' = t
  BY <1>0, <1>1 DEF Stream
<1>4. Len(s) \in Nat /\ Len(t) \in Nat
  <2>1. Len(s) = Len(rpcBuf[e]) + Len(rpcWire[e]) /\ Len(rpcBuf[e]) \in Nat /\ Len(rpcWire[e]) \in Nat
    BY <1>0, Concatenated
  <2> QED
    BY <1>0, <1>2, <2>1
<1> HIDE DEF a, s, t
<1>5. AllGenuine(s) /\ s[1] # Remainder /\ 1 \in 1 .. Len(s)
  BY <1>2, <1>3, <1>4, RemainderIsNoMessage DEF StreamKept
<1>6. s[1].message \in Messages /\ Genuine(s[1].message)
  BY <1>2, <1>5 DEF AllGenuine, Units
<1>7. StreamKept(e)'
  <2>1. ASSUME NEW i \in 1 .. Len(t), t[i] # Remainder PROVE Genuine(t[i].message)
    <3>1. i + 2 \in 1 .. Len(s) /\ t[i] = s[i + 2]
      BY <1>2, <1>4
    <3> QED
      BY <1>5, <2>1, <3>1 DEF AllGenuine
  <2> QED
    BY <1>2, <1>3, <2>1 DEF StreamKept, AllGenuine, Genuine, Framed
<1>8. ASSUME NEW c \in RpcCalls, Carries(Stream(e), c) PROVE c = s[1].message.call \/ Carries(Stream(e), c)'
  <2>1. PICK i \in 1 .. Len(s) : s[i] # Remainder /\ s[i].message.call = c
    BY <1>3, <1>8 DEF Carries
  <2>2. CASE i = 1
    BY <2>1, <2>2
  <2>3. CASE i = 2
    BY <1>2, <2>1, <2>3
  <2>4. CASE i >= 3
    <3>1. i - 2 \in 1 .. Len(t) /\ t[i - 2] = s[i]
      <4>1. i - 2 \in 1 .. Len(t) /\ (i - 2) + 2 = i
        BY <1>2, <1>4, <2>4
      <4> QED
        BY <1>2, <4>1
    <3> QED
      BY <1>3, <2>1, <3>1 DEF Carries
  <2> QED
    BY <1>4, <2>2, <2>3, <2>4
<1>9. FirstMessage(e) = s[1].message
  BY <1>2 DEF FirstMessage
<1> QED
  BY <1>0, <1>1, <1>2, <1>6, <1>7, <1>8, <1>9

-----------------------------------------------------------------------------
(* The invariant.                                                          *)

LEMMA RpcStarts ==
  ASSUME RpcInit PROVE RpcTypeOK /\ RpcInv
<1>1. <<>> \in Seq(Bytes) /\ <<>> \in Seq(Messages)
  OBVIOUS
<1>2. RpcTypeOK
  BY <1>1 DEF RpcInit, RpcTypeOK
<1>3. ASSUME NEW e \in Peers PROVE Stream(e) = <<>>
  BY DEF RpcInit, Stream
<1>4. StreamInv
  <2>1. Len(<<>>) = 0 /\ 0 % 2 = 0 /\ 1 .. 0 = {}
    OBVIOUS
  <2> QED
    BY <1>3, <2>1 DEF StreamInv, Framed, AllGenuine
<1>5. CallInv
  BY DEF RpcInit, CallInv, NoCall
<1> QED
  BY <1>2, <1>4, <1>5 DEF RpcInv

\* Steps that move messages and leave the closures alone.
LEMMA CallsKept ==
  ASSUME RpcTypeOK, CallInv, UNCHANGED <<callId, outstandings, closures>>,
         \A m \in running' : Genuine(m), unsent' \subseteq unsent, rpcConn' = "up" => rpcConn = "up",
         rpcConn = "up" => \A c \in RpcCalls : Pending(c) => Pending(c)'
  PROVE  CallInv'
<1>1. \A m \in running' : Genuine(m)'
  BY DEF Genuine
<1>2. \A c \in unsent' : callId'[c] # 0
  BY DEF CallInv
<1>3. ASSUME NEW c \in RpcCalls PROVE (closures[c] # <<>> => Genuine(closures[c][1])) <=> (closures[c] # <<>> => Genuine(closures[c][1]))'
  BY DEF Genuine
<1>4. ASSUME NEW c \in RpcCalls PROVE Alone(c)' <=> Alone(c)
  BY DEF Alone
<1>5. ASSUME NEW c \in RpcCalls, rpcConn' = "up", callId'[c] # 0, Alone(c)', closures'[c] = <<>>
      PROVE  outstandings'[callId'[c]] = c /\ Pending(c)'
  BY <1>4, <1>5 DEF CallInv
<1> QED
  BY <1>1, <1>2, <1>3, <1>5 DEF CallInv, Genuine

LEMMA StreamsKept ==
  /\ StreamInv <=> \A e \in Peers : StreamKept(e)
  /\ StreamInv' <=> \A e \in Peers : StreamKept(e)'
  BY DEF StreamInv, StreamKept

LEMMA CallMethodStep ==
  ASSUME RpcTypeOK, RpcInv, NEW c \in RpcCalls, NEW id \in CallIds, CallMethod(c, id)
  PROVE  RpcTypeOK' /\ RpcInv'
<1>1. /\ callId[c] = 0 /\ callId' = [callId EXCEPT ![c] = id] /\ outstandings' = [outstandings EXCEPT ![id] = c]
      /\ unsent' = unsent \cup {c} /\ UNCHANGED <<rpcWire, rpcBuf, rpcConn, running, closures, damage>>
  BY DEF CallMethod
<1>2. RpcTypeOK'
  BY <1>1 DEF RpcTypeOK
<1>3. ASSUME NEW m \in Messages, Genuine(m) PROVE Genuine(m)'
  BY <1>1, <1>3, RpcConstants DEF Genuine, Messages, RpcTypeOK
<1>4. ASSUME NEW e \in Peers PROVE Stream(e)' = Stream(e)
  BY <1>1 DEF Stream
<1>5. StreamInv'
  <2>1. ASSUME NEW e \in Peers PROVE Framed(Stream(e))' /\ AllGenuine(Stream(e))'
    <3>1. PICK s : s = Stream(e)
      OBVIOUS
    <3>2. Framed(s) /\ AllGenuine(s)
      BY <3>1 DEF RpcInv, StreamInv
    <3>3. ASSUME NEW i \in 1 .. Len(s), s[i] # Remainder PROVE Genuine(s[i].message)'
      <4>1. s[i].message \in Messages /\ Genuine(s[i].message)
        BY <3>2, <3>3 DEF Framed, AllGenuine, Units
      <4> QED
        BY <1>3, <4>1
    <3> QED
      BY <1>4, <3>1, <3>2, <3>3 DEF AllGenuine, Framed
  <2> QED
    BY <2>1 DEF StreamInv
<1>6. closures[c] = <<>>
  BY <1>1 DEF RpcInv, CallInv
<1>7. CallInv'
  <2>1. \A m \in running' : Genuine(m)'
    BY <1>1, <1>3 DEF RpcInv, CallInv, RpcTypeOK
  <2>2. \A d \in unsent' : callId'[d] # 0
    BY <1>1, RpcConstants DEF RpcInv, CallInv, RpcTypeOK
  <2>3. ASSUME NEW i \in CallIds, outstandings'[i] # NoCall
        PROVE  callId'[outstandings'[i]] = i /\ closures'[outstandings'[i]] = <<>>
    <3>1. CASE i = id
      BY <1>1, <1>6, <3>1 DEF RpcTypeOK
    <3>2. CASE i # id
      <4>1. outstandings'[i] = outstandings[i] /\ outstandings[i] \in RpcCalls
        BY <1>1, <2>3, <3>2 DEF RpcTypeOK
      <4>2. callId[outstandings[i]] = i /\ closures[outstandings[i]] = <<>>
        BY <2>3, <4>1 DEF RpcInv, CallInv
      <4> QED
        BY <1>1, <4>1, <4>2, RpcConstants DEF RpcTypeOK
    <3> QED
      BY <3>1, <3>2
  <2>4. ASSUME NEW d \in RpcCalls, closures'[d] # <<>>
        PROVE  /\ Len(closures'[d]) = 1 /\ callId'[d] # 0
               /\ closures'[d][1].id = callId'[d] /\ Genuine(closures[d][1])'
    <3>1. /\ d # c /\ Len(closures[d]) = 1 /\ callId[d] # 0
          /\ closures[d][1].id = callId[d] /\ Genuine(closures[d][1])
      BY <1>1, <1>6, <2>4 DEF RpcInv, CallInv
    <3>2. PICK m \in Messages : m = closures[d][1] /\ m = closures'[d][1]
      <4>1. closures[d] \in Seq(Messages) /\ closures' = closures
        BY <1>1 DEF RpcTypeOK
      <4>2. closures[d][1] \in Messages
        BY <3>1, <4>1
      <4> QED
        BY <4>1, <4>2
    <3>3. Genuine(m)'
      BY <1>3, <3>1, <3>2
    <3> QED
      BY <1>1, <3>1, <3>2, <3>3 DEF RpcTypeOK, Genuine
  <2>5. ASSUME NEW d \in RpcCalls, rpcConn' = "up", callId'[d] # 0, Alone(d)', closures'[d] = <<>>
        PROVE  outstandings'[callId'[d]] = d /\ Pending(d)'
    <3>1. CASE d = c
      <4>1. callId'[d] = id /\ outstandings'[id] = c /\ d \in unsent'
        BY <1>1, <3>1 DEF RpcTypeOK
      <4> QED
        BY <3>1, <4>1 DEF Pending
    <3>2. CASE d # c
      <4>1. callId'[d] = callId[d] /\ callId[d] # id /\ callId[d] \in CallIds
        BY <1>1, <2>5, <3>2 DEF Alone, RpcTypeOK
      <4>2. Alone(d)
        <5>1. ASSUME NEW f \in RpcCalls \ {d} PROVE callId[f] # callId[d]
          <6>1. CASE f = c
            BY <1>1, <4>1, <6>1, RpcConstants
          <6>2. CASE f # c
            BY <1>1, <2>5, <4>1, <6>2 DEF Alone, RpcTypeOK
          <6> QED
            BY <6>1, <6>2
        <5> QED
          BY <5>1 DEF Alone
      <4>3. outstandings[callId[d]] = d /\ Pending(d)
        BY <1>1, <2>5, <4>1, <4>2 DEF RpcInv, CallInv
      <4>4. outstandings'[callId'[d]] = d
        BY <1>1, <4>1, <4>3 DEF RpcTypeOK
      <4>5. Pending(d)'
        BY <1>1, <1>4, <4>3 DEF Pending, Carries
      <4> QED
        BY <4>4, <4>5
    <3> QED
      BY <3>1, <3>2
  <2> QED
    BY <2>1, <2>2, <2>3, <2>4, <2>5 DEF CallInv
<1> QED
  BY <1>2, <1>5, <1>7 DEF RpcInv

LEMMA SendCallStep ==
  ASSUME RpcTypeOK, RpcInv, NEW c \in RpcCalls, SendCall(c)
  PROVE  RpcTypeOK' /\ RpcInv'
<1>m. PICK m : m = [type |-> "REQUEST", id |-> callId[c], call |-> c]
  OBVIOUS
<1>1. /\ c \in unsent /\ unsent' = unsent \ {c} /\ CodecSend("server", m)
      /\ UNCHANGED <<callId, outstandings, rpcBuf, rpcConn, running, closures, damage>>
  BY <1>m DEF SendCall
<1>2. m \in Messages /\ Genuine(m) /\ m.call = c
  <2>1. callId[c] \in CallIds
    BY <1>1, RpcConstants DEF RpcInv, CallInv, RpcTypeOK
  <2> QED
    BY <1>m, <2>1 DEF Messages, Genuine
<1>3. \A e \in Peers : StreamKept(e)
  BY StreamsKept DEF RpcInv
<1>4. /\ rpcWire' \in [Peers -> Seq(Bytes)] /\ StreamKept("server")'
      /\ \A d \in RpcCalls : Carries(Stream("server"), d) => Carries(Stream("server"), d)'
      /\ rpcConn = "up" => Carries(Stream("server"), m.call)'
      /\ \A p \in Peers : p # "server" => rpcWire'[p] = rpcWire[p]
  BY <1>1, <1>2, <1>3, SentTo, RpcConstants
<1>5. StreamKept("client")' /\ \A d \in RpcCalls : Carries(Stream("client"), d) <=> Carries(Stream("client"), d)'
  BY <1>1, <1>3, <1>4, SameStream, RpcConstants
<1>6. StreamInv'
  BY <1>4, <1>5, StreamsKept, RpcConstants
<1>7. ASSUME NEW d \in RpcCalls, Pending(d), rpcConn = "up" PROVE Pending(d)'
  <2>1. CASE d = c
    BY <1>2, <1>4, <1>7, <2>1, RpcConstants DEF Pending
  <2>2. CASE d # c
    BY <1>1, <1>4, <1>5, <1>7, <2>2, RpcConstants DEF Pending
  <2> QED
    BY <2>1, <2>2
<1>8. CallInv'
  BY <1>1, <1>7, CallsKept DEF RpcInv, CallInv
<1>9. RpcTypeOK'
  BY <1>1, <1>4 DEF RpcTypeOK
<1> QED
  BY <1>6, <1>8, <1>9 DEF RpcInv

LEMMA RpcReadStep ==
  ASSUME RpcTypeOK, RpcInv, NEW e \in Peers, RpcRead(e)
  PROVE  RpcTypeOK' /\ RpcInv'
<1>0. rpcWire \in [Peers -> Seq(Bytes)] /\ rpcBuf \in [Peers -> Seq(Bytes)]
  BY DEF RpcTypeOK
<1> DEFINE b == Append(rpcBuf[e], Head(rpcWire[e]))
           w == Tail(rpcWire[e])
<1>1. /\ rpcBuf' = [rpcBuf EXCEPT ![e] = b] /\ rpcWire' = [rpcWire EXCEPT ![e] = w] /\ rpcWire[e] # <<>>
      /\ UNCHANGED <<callId, unsent, outstandings, rpcConn, running, closures, damage>>
  BY DEF RpcRead
<1>2. b \in Seq(Bytes) /\ w \in Seq(Bytes) /\ b \o w = rpcBuf[e] \o rpcWire[e]
  BY <1>0, <1>1, Moved
<1> HIDE DEF b, w
<1>3. ASSUME NEW p \in Peers PROVE Stream(p)' = Stream(p)
  BY <1>0, <1>1, <1>2 DEF Stream
<1>4. RpcTypeOK'
  BY <1>0, <1>1, <1>2 DEF RpcTypeOK
<1>5. StreamInv'
  BY <1>1, <1>3 DEF RpcInv, StreamInv, AllGenuine, Genuine, Framed
<1>6. ASSUME NEW d \in RpcCalls, Pending(d) PROVE Pending(d)'
  BY <1>1, <1>3, <1>6 DEF Pending, Carries
<1>7. CallInv'
  BY <1>1, <1>6, CallsKept DEF RpcInv, CallInv
<1> QED
  BY <1>4, <1>5, <1>7 DEF RpcInv

LEMMA CheckSumErrorStep ==
  ASSUME RpcTypeOK, RpcInv, NEW e \in Peers, CheckSumError(e)
  PROVE  RpcTypeOK' /\ RpcInv'
<1>1. rpcConn' = "down" /\ UNCHANGED <<callId, unsent, outstandings, rpcWire, rpcBuf, running, closures, damage>>
  BY DEF CheckSumError
<1>2. RpcTypeOK'
  BY <1>1 DEF RpcTypeOK
<1>3. ASSUME NEW p \in Peers PROVE StreamKept(p)' /\ \A c \in RpcCalls : Carries(Stream(p), c) <=> Carries(Stream(p), c)'
  BY <1>1, SameStream, StreamsKept DEF RpcInv
<1>4. ASSUME NEW d \in RpcCalls, Pending(d) PROVE Pending(d)'
  BY <1>1, <1>3, <1>4 DEF Pending
<1>5. CallInv'
  BY <1>1, <1>4, CallsKept DEF RpcInv, CallInv
<1> QED
  BY <1>2, <1>3, <1>5, StreamsKept DEF RpcInv

LEMMA DamageStep ==
  ASSUME RpcTypeOK, RpcInv, NEW e \in Peers, Damage(e)
  PROVE  RpcTypeOK' /\ RpcInv'
<1>0. rpcWire \in [Peers -> Seq(Bytes)] /\ rpcBuf \in [Peers -> Seq(Bytes)]
  BY DEF RpcTypeOK
<1>1. /\ rpcWire[e] # <<>> /\ Head(rpcWire[e]) # Remainder /\ damage' = damage + 1
      /\ rpcWire' = [rpcWire EXCEPT ![e] = [rpcWire[e] EXCEPT ![1] = [rpcWire[e][1] EXCEPT !.sound = FALSE]]]
      /\ UNCHANGED <<callId, unsent, outstandings, rpcBuf, rpcConn, running, closures>>
  BY DEF Damage
<1>2. PICK w \in Seq(Bytes), b \in Seq(Bytes) : w = rpcWire[e] /\ b = rpcBuf[e]
  BY <1>0
<1>3. PICK u \in Units : u = w[1]
  <2>1. w[1] \in Bytes /\ w[1] # Remainder
    BY <1>1, <1>2
  <2> QED
    BY <2>1 DEF Bytes
<1>4. PICK v \in Units : v = [u EXCEPT !.sound = FALSE] /\ v.message = u.message
  <2>1. [u EXCEPT !.sound = FALSE] \in Units /\ [u EXCEPT !.sound = FALSE].message = u.message
    BY DEF Units
  <2> QED
    BY <2>1
<1>5. PICK x \in Seq(Bytes) : x = [w EXCEPT ![1] = v] /\ Len(x) = Len(w)
                              /\ \A i \in 1 .. Len(w) : x[i] = IF i = 1 THEN v ELSE w[i]
  <2>1. v \in Bytes
    BY DEF Bytes
  <2>2. [w EXCEPT ![1] = v] \in Seq(Bytes) /\ Len([w EXCEPT ![1] = v]) = Len(w)
        /\ \A i \in 1 .. Len(w) : [w EXCEPT ![1] = v][i] = IF i = 1 THEN v ELSE w[i]
    <3>1. 1 \in 1 .. Len(w)
      BY <1>1, <1>2
    <3> QED
      BY <2>1, <3>1, ExceptSeq
  <2> QED
    BY <2>2
<1>6. rpcWire' = [rpcWire EXCEPT ![e] = x]
  <2>1. rpcWire[e] = w /\ w[1] = u
    BY <1>2, <1>3
  <2>2. [rpcWire[e][1] EXCEPT !.sound = FALSE] = v
    BY <1>4, <2>1
  <2>3. [rpcWire[e] EXCEPT ![1] = [rpcWire[e][1] EXCEPT !.sound = FALSE]] = x
    BY <1>5, <2>1, <2>2
  <2> QED
    BY <1>1, <2>3
<1>7. RpcTypeOK'
  <2>1. rpcWire' \in [Peers -> Seq(Bytes)]
    BY <1>0, <1>6
  <2> QED
    BY <1>1, <2>1 DEF RpcTypeOK
<1>8. ASSUME NEW p \in Peers, p # e
      PROVE  StreamKept(p)' /\ \A c \in RpcCalls : Carries(Stream(p), c) <=> Carries(Stream(p), c)'
  <2>1. rpcWire'[p] = rpcWire[p] /\ rpcBuf'[p] = rpcBuf[p]
    BY <1>0, <1>1, <1>6, <1>8
  <2> QED
    BY <1>1, <2>1, SameStream, StreamsKept DEF RpcInv
<1>9. StreamKept(e)' /\ \A c \in RpcCalls : Carries(Stream(e), c) => Carries(Stream(e), c)'
  <2>0. Stream(e) = b \o w /\ Stream(e)' = b \o x
    BY <1>0, <1>1, <1>2, <1>6 DEF Stream
  <2>a. /\ b \o w \in Seq(Bytes) /\ Len(b \o w) = Len(b) + Len(w)
        /\ \A i \in 1 .. Len(b) : (b \o w)[i] = b[i]
        /\ \A i \in Len(b) + 1 .. Len(b) + Len(w) : (b \o w)[i] = w[i - Len(b)]
    BY Concatenated
  <2>b. /\ b \o x \in Seq(Bytes) /\ Len(b \o x) = Len(b) + Len(x)
        /\ \A i \in 1 .. Len(b) : (b \o x)[i] = b[i]
        /\ \A i \in Len(b) + 1 .. Len(b) + Len(x) : (b \o x)[i] = x[i - Len(b)]
    BY Concatenated
  <2>1. PICK s \in Seq(Bytes) : /\ s = Stream(e) /\ Len(s) = Len(b) + Len(w)
                                /\ \A i \in 1 .. Len(b) : s[i] = b[i]
                                /\ \A i \in Len(b) + 1 .. Len(b) + Len(w) : s[i] = w[i - Len(b)]
    BY <2>0, <2>a, Zenon
  <2>2. PICK t \in Seq(Bytes) : /\ t = Stream(e)' /\ Len(t) = Len(b) + Len(x)
                                /\ \A i \in 1 .. Len(b) : t[i] = b[i]
                                /\ \A i \in Len(b) + 1 .. Len(b) + Len(x) : t[i] = x[i - Len(b)]
    BY <2>0, <2>b, Zenon
  <2>n. Len(b) \in Nat /\ Len(w) \in Nat
    OBVIOUS
  <2>3. Len(t) = Len(s) /\ Len(s) \in Nat
    BY <1>5, <2>1, <2>2, <2>n
  <2>4. ASSUME NEW i \in 1 .. Len(s)
        PROVE  t[i] = s[i] \/ (s[i] = u /\ t[i] = v)
    <3>1. CASE i \in 1 .. Len(b)
      BY <2>1, <2>2, <3>1
    <3>2. CASE i \notin 1 .. Len(b)
      <4>1. i \in Len(b) + 1 .. Len(b) + Len(w) /\ i - Len(b) \in 1 .. Len(w)
        BY <2>1, <2>n, <3>2
      <4>2. s[i] = w[i - Len(b)] /\ t[i] = x[i - Len(b)]
        BY <1>5, <2>1, <2>2, <4>1
      <4> QED
        BY <1>3, <1>5, <4>1, <4>2
    <3> QED
      BY <3>1, <3>2
  <2>5. Framed(s) /\ AllGenuine(s)
    BY <2>1 DEF RpcInv, StreamInv
  <2>6. Framed(t)
    BY <2>3, <2>4, <2>5, RemainderIsNoMessage DEF Framed
  <2>7. ASSUME NEW i \in 1 .. Len(t), t[i] # Remainder PROVE Genuine(t[i].message)'
    <3>1. s[i] # Remainder /\ s[i].message = t[i].message
      BY <1>4, <2>3, <2>4, <2>7, RemainderIsNoMessage
    <3>2. Genuine(s[i].message)
      BY <2>3, <2>5, <2>7, <3>1 DEF AllGenuine
    <3> QED
      BY <1>1, <3>1, <3>2 DEF Genuine
  <2>8. ASSUME NEW c \in RpcCalls, Carries(Stream(e), c) PROVE Carries(Stream(e), c)'
    <3>1. PICK i \in 1 .. Len(s) : s[i] # Remainder /\ s[i].message.call = c
      BY <2>1, <2>8 DEF Carries
    <3>2. t[i] # Remainder /\ t[i].message = s[i].message
      BY <1>4, <2>4, <3>1, RemainderIsNoMessage
    <3> QED
      BY <2>2, <2>3, <3>1, <3>2 DEF Carries
  <2> QED
    BY <2>2, <2>6, <2>7, <2>8 DEF StreamKept, AllGenuine, Framed
<1>10. StreamInv'
  BY <1>8, <1>9, StreamsKept
<1>11. ASSUME NEW d \in RpcCalls, Pending(d) PROVE Pending(d)'
  BY <1>1, <1>8, <1>9, <1>11 DEF Pending
<1>12. CallInv'
  BY <1>1, <1>11, CallsKept DEF RpcInv, CallInv
<1> QED
  BY <1>7, <1>10, <1>12 DEF RpcInv

LEMMA onRequestMessageStep ==
  ASSUME RpcTypeOK, RpcInv, onRequestMessage
  PROVE  RpcTypeOK' /\ RpcInv'
<1>m. PICK m : m = FirstMessage("server")
  OBVIOUS
<1>r. PICK r : r = [type |-> "RESPONSE", id |-> m.id, call |-> m.call]
  OBVIOUS
<1>1. /\ Whole("server") /\ Retrieve("server")
      /\ UNCHANGED <<callId, unsent, outstandings, rpcConn, closures, damage>>
      /\ \/ running' = running \cup {m} /\ UNCHANGED rpcWire
         \/ CodecSend("client", r) /\ UNCHANGED running
  BY <1>m, <1>r DEF onRequestMessage
<1>2. \A e \in Peers : StreamKept(e)
  BY StreamsKept DEF RpcInv
<1>3. rpcWire'["server"] = rpcWire["server"]
  BY <1>1 DEF CodecSend, RpcTypeOK, Peers
<1>4. /\ rpcBuf' \in [Peers -> Seq(Bytes)] /\ StreamKept("server")' /\ m \in Messages /\ Genuine(m)
      /\ \A c \in RpcCalls : Carries(Stream("server"), c) => c = m.call \/ Carries(Stream("server"), c)'
      /\ \A p \in Peers : p # "server" => rpcBuf'[p] = rpcBuf[p]
  BY <1>m, <1>1, <1>2, <1>3, TakenFrom, RpcConstants
<1>5. r \in Messages /\ Genuine(r) /\ r.call = m.call
  BY <1>4, <1>r DEF Messages, Genuine
<1>6. /\ rpcWire' \in [Peers -> Seq(Bytes)] /\ StreamKept("client")' /\ running' \in SUBSET Messages
      /\ \A c \in RpcCalls : Carries(Stream("client"), c) => Carries(Stream("client"), c)'
      /\ running \subseteq running' /\ \A k \in running' : Genuine(k)
      /\ rpcConn = "up" => Carries(Stream("client"), m.call)' \/ m \in running'
  <2>0. (\A k \in running : Genuine(k)) /\ running \in SUBSET Messages /\ rpcWire \in [Peers -> Seq(Bytes)]
    BY DEF RpcInv, CallInv, RpcTypeOK
  <2>1. CASE running' = running \cup {m} /\ UNCHANGED rpcWire
    <3>1. StreamKept("client")' /\ \A c \in RpcCalls : Carries(Stream("client"), c) <=> Carries(Stream("client"), c)'
      BY <1>1, <1>2, <1>4, <2>1, SameStream, RpcConstants
    <3> QED
      BY <1>4, <2>0, <2>1, <3>1
  <2>2. CASE CodecSend("client", r) /\ UNCHANGED running
    <3>1. /\ rpcWire' \in [Peers -> Seq(Bytes)] /\ StreamKept("client")'
          /\ \A c \in RpcCalls : Carries(Stream("client"), c) => Carries(Stream("client"), c)'
          /\ rpcConn = "up" => Carries(Stream("client"), r.call)'
      BY <1>1, <1>2, <1>4, <1>5, <2>2, SentTo, RpcConstants
    <3> QED
      BY <1>5, <2>0, <2>2, <3>1
  <2> QED
    BY <1>1, <2>1, <2>2
<1>7. StreamInv'
  BY <1>4, <1>6, StreamsKept, RpcConstants
<1>8. ASSUME NEW d \in RpcCalls, Pending(d), rpcConn = "up" PROVE Pending(d)'
  <2>1. CASE d = m.call
    BY <1>6, <1>8, <2>1, RpcConstants DEF Pending
  <2>2. CASE d # m.call
    BY <1>1, <1>4, <1>6, <1>8, <2>2, RpcConstants DEF Pending
  <2> QED
    BY <2>1, <2>2
<1>9. CallInv'
  BY <1>1, <1>6, <1>8, CallsKept DEF RpcInv
<1>10. RpcTypeOK'
  BY <1>1, <1>4, <1>6 DEF RpcTypeOK
<1> QED
  BY <1>7, <1>9, <1>10 DEF RpcInv

LEMMA doneCallbackStep ==
  ASSUME RpcTypeOK, RpcInv, NEW m \in running, doneCallback(m)
  PROVE  RpcTypeOK' /\ RpcInv'
<1>r. PICK r : r = [type |-> "RESPONSE", id |-> m.id, call |-> m.call]
  OBVIOUS
<1>1. /\ running' = running \ {m} /\ CodecSend("client", r)
      /\ UNCHANGED <<callId, unsent, outstandings, rpcBuf, rpcConn, closures, damage>>
  BY <1>r DEF doneCallback
<1>2. \A e \in Peers : StreamKept(e)
  BY StreamsKept DEF RpcInv
<1>3. m \in Messages /\ Genuine(m)
  BY DEF RpcInv, CallInv, RpcTypeOK
<1>4. r \in Messages /\ Genuine(r) /\ r.call = m.call
  BY <1>3, <1>r DEF Messages, Genuine
<1>5. /\ rpcWire' \in [Peers -> Seq(Bytes)] /\ StreamKept("client")'
      /\ \A c \in RpcCalls : Carries(Stream("client"), c) => Carries(Stream("client"), c)'
      /\ rpcConn = "up" => Carries(Stream("client"), r.call)'
      /\ \A p \in Peers : p # "client" => rpcWire'[p] = rpcWire[p]
  BY <1>1, <1>2, <1>4, SentTo, RpcConstants
<1>6. StreamKept("server")' /\ \A c \in RpcCalls : Carries(Stream("server"), c) <=> Carries(Stream("server"), c)'
  BY <1>1, <1>2, <1>5, SameStream, RpcConstants
<1>7. StreamInv'
  BY <1>5, <1>6, StreamsKept, RpcConstants
<1>8. ASSUME NEW d \in RpcCalls, Pending(d), rpcConn = "up" PROVE Pending(d)'
  <2>1. CASE d = m.call
    BY <1>4, <1>5, <1>8, <2>1, RpcConstants DEF Pending
  <2>2. CASE d # m.call
    BY <1>1, <1>5, <1>6, <1>8, <2>2, RpcConstants DEF Pending
  <2> QED
    BY <2>1, <2>2
<1>9. CallInv'
  BY <1>1, <1>8, CallsKept DEF RpcInv, CallInv
<1>10. RpcTypeOK'
  BY <1>1, <1>5 DEF RpcTypeOK
<1> QED
  BY <1>7, <1>9, <1>10 DEF RpcInv

LEMMA onResponseMessageStep ==
  ASSUME RpcTypeOK, RpcInv, onResponseMessage
  PROVE  RpcTypeOK' /\ RpcInv'
<1>m. PICK m : m = FirstMessage("client")
  OBVIOUS
<1>c. PICK call : call = outstandings[m.id]
  OBVIOUS
<1>1. /\ Whole("client") /\ Retrieve("client") /\ outstandings' = [outstandings EXCEPT ![m.id] = NoCall]
      /\ closures' = IF call = NoCall THEN closures ELSE [closures EXCEPT ![call] = Append(closures[call], m)]
      /\ UNCHANGED <<callId, unsent, rpcWire, rpcConn, running, damage>>
  BY <1>m, <1>c DEF onResponseMessage, Erased
<1>2. \A e \in Peers : StreamKept(e)
  BY StreamsKept DEF RpcInv
<1>3. /\ rpcBuf' \in [Peers -> Seq(Bytes)] /\ StreamKept("client")' /\ m \in Messages /\ Genuine(m)
      /\ \A c \in RpcCalls : Carries(Stream("client"), c) => c = m.call \/ Carries(Stream("client"), c)'
      /\ \A p \in Peers : p # "client" => rpcBuf'[p] = rpcBuf[p]
  BY <1>m, <1>1, <1>2, TakenFrom, RpcConstants
<1>4. StreamKept("server")' /\ \A c \in RpcCalls : Carries(Stream("server"), c) <=> Carries(Stream("server"), c)'
  BY <1>1, <1>2, <1>3, SameStream, RpcConstants
<1>5. StreamInv'
  BY <1>3, <1>4, StreamsKept, RpcConstants
<1>6. m.id \in CallIds /\ m.call \in RpcCalls /\ callId[m.call] = m.id
  BY <1>3 DEF Messages, Genuine
<1>7. call \in RpcCalls \cup {NoCall} /\ (call # NoCall => callId[call] = m.id /\ closures[call] = <<>>)
  BY <1>c, <1>6 DEF RpcTypeOK, RpcInv, CallInv
<1>8. closures' \in [RpcCalls -> Seq(Messages)]
      /\ \A d \in RpcCalls : closures'[d] = IF call # NoCall /\ d = call THEN <<m>> ELSE closures[d]
  <2>0. closures \in [RpcCalls -> Seq(Messages)]
    BY DEF RpcTypeOK
  <2>1. CASE call = NoCall
    BY <1>1, <2>0, <2>1
  <2>2. CASE call # NoCall
    <3>0. Append(<<>>, m) = <<m>> /\ <<m>> \in Seq(Messages)
      BY <1>3
    <3>1. Append(closures[call], m) = <<m>> /\ <<m>> \in Seq(Messages)
      BY <1>7, <2>2, <3>0
    <3> QED
      BY <1>1, <1>7, <2>0, <2>2, <3>1
  <2> QED
    BY <2>1, <2>2
<1>9. RpcTypeOK'
  BY <1>1, <1>3, <1>6, <1>8 DEF RpcTypeOK
<1>10. CallInv'
  <2>1. \A k \in running' : Genuine(k)'
    BY <1>1 DEF RpcInv, CallInv, Genuine
  <2>2. \A d \in unsent' : callId'[d] # 0
    BY <1>1 DEF RpcInv, CallInv
  <2>3. ASSUME NEW i \in CallIds, outstandings'[i] # NoCall
        PROVE  callId'[outstandings'[i]] = i /\ closures'[outstandings'[i]] = <<>>
    <3>1. i # m.id /\ outstandings'[i] = outstandings[i] /\ outstandings[i] \in RpcCalls
      BY <1>1, <1>6, <2>3 DEF RpcTypeOK
    <3>2. callId[outstandings[i]] = i /\ closures[outstandings[i]] = <<>>
      BY <2>3, <3>1 DEF RpcInv, CallInv
    <3>3. outstandings[i] # call \/ call = NoCall
      BY <1>7, <3>1, <3>2
    <3> QED
      BY <1>1, <1>8, <3>1, <3>2, <3>3
  <2>4. ASSUME NEW d \in RpcCalls, closures'[d] # <<>>
        PROVE  /\ Len(closures'[d]) = 1 /\ callId'[d] # 0
               /\ closures'[d][1].id = callId'[d] /\ Genuine(closures[d][1])'
    <3>1. CASE call # NoCall /\ d = call
      <4>1. closures'[d] = <<m>> /\ Len(<<m>>) = 1 /\ <<m>>[1] = m
        BY <1>8, <3>1
      <4> QED
        BY <1>1, <1>3, <1>6, <1>7, <3>1, <4>1, RpcConstants DEF Genuine
    <3>2. CASE ~ (call # NoCall /\ d = call)
      <4>1. closures'[d] = closures[d]
        BY <1>8, <3>2
      <4> QED
        BY <1>1, <2>4, <4>1 DEF RpcInv, CallInv, Genuine
    <3> QED
      BY <3>1, <3>2
  <2>5. ASSUME NEW d \in RpcCalls, rpcConn' = "up", callId'[d] # 0, Alone(d)', closures'[d] = <<>>
        PROVE  outstandings'[callId'[d]] = d /\ Pending(d)'
    <3>1. Alone(d) /\ rpcConn = "up" /\ callId'[d] = callId[d] /\ callId[d] # 0
      BY <1>1, <2>5 DEF Alone
    <3>2. d # call /\ closures[d] = <<>>
      <4>1. <<m>> # <<>>
        OBVIOUS
      <4> QED
        BY <1>8, <2>5, <4>1, RpcConstants
    <3>3. outstandings[callId[d]] = d /\ Pending(d)
      BY <3>1, <3>2 DEF RpcInv, CallInv
    <3>4. callId[d] # m.id /\ d # m.call
      BY <1>c, <1>6, <3>2, <3>3
    <3>5. outstandings'[callId'[d]] = d
      BY <1>1, <1>6, <3>1, <3>3, <3>4 DEF RpcTypeOK
    <3>6. Pending(d)'
      BY <1>1, <1>3, <1>4, <3>3, <3>4, RpcConstants DEF Pending
    <3> QED
      BY <3>5, <3>6
  <2> QED
    BY <2>1, <2>2, <2>3, <2>4, <2>5 DEF CallInv
<1> QED
  BY <1>5, <1>9, <1>10 DEF RpcInv

LEMMA DestroyStep ==
  ASSUME RpcTypeOK, RpcInv, Destroy
  PROVE  RpcTypeOK' /\ RpcInv'
<1>1. /\ rpcConn' = "gone" /\ outstandings' = [i \in CallIds |-> NoCall]
      /\ rpcWire' = [e \in Peers |-> <<>>] /\ rpcBuf' = [e \in Peers |-> <<>>]
      /\ UNCHANGED <<callId, unsent, running, closures, damage>>
  BY DEF Destroy
<1>2. <<>> \in Seq(Bytes)
  OBVIOUS
<1>3. RpcTypeOK'
  BY <1>1, <1>2 DEF RpcTypeOK
<1>4. ASSUME NEW e \in Peers PROVE Stream(e)' = <<>>
  BY <1>1 DEF Stream
<1>5. StreamInv'
  <2>1. Len(<<>>) = 0 /\ 0 % 2 = 0 /\ 1 .. 0 = {}
    OBVIOUS
  <2> QED
    BY <1>4, <2>1 DEF StreamInv, Framed, AllGenuine
<1>6. CallInv'
  BY <1>1 DEF RpcInv, CallInv, Genuine
<1> QED
  BY <1>3, <1>5, <1>6 DEF RpcInv

-----------------------------------------------------------------------------
\* The invariant of the channel (RpcChannel::CallMethod, onRpcMessage,
\* doneCallback, ProtobufCodecLite), for any number of calls and ids.
THEOREM RpcCorrect == RpcSpec => [](RpcTypeOK /\ RpcInv)
<1>1. RpcInit => RpcTypeOK /\ RpcInv
  BY RpcStarts
<1>2. RpcTypeOK /\ RpcInv /\ [RpcNext]_rpcVars => (RpcTypeOK /\ RpcInv)'
  <2> SUFFICES ASSUME RpcTypeOK, RpcInv, [RpcNext]_rpcVars PROVE RpcTypeOK' /\ RpcInv'
    OBVIOUS
  <2>1. ASSUME NEW c \in RpcCalls, SendCall(c) PROVE RpcTypeOK' /\ RpcInv'
    BY <2>1, SendCallStep
  <2>2. ASSUME NEW c \in RpcCalls, NEW id \in CallIds, CallMethod(c, id) PROVE RpcTypeOK' /\ RpcInv'
    BY <2>2, CallMethodStep
  <2>3. ASSUME NEW e \in Peers, Damage(e) PROVE RpcTypeOK' /\ RpcInv'
    BY <2>3, DamageStep
  <2>4. ASSUME NEW e \in Peers, RpcRead(e) PROVE RpcTypeOK' /\ RpcInv'
    BY <2>4, RpcReadStep
  <2>5. ASSUME NEW e \in Peers, CheckSumError(e) PROVE RpcTypeOK' /\ RpcInv'
    BY <2>5, CheckSumErrorStep
  <2>6. CASE onResponseMessage
    BY <2>6, onResponseMessageStep
  <2>7. CASE onRequestMessage
    BY <2>7, onRequestMessageStep
  <2>8. ASSUME NEW m \in running, doneCallback(m) PROVE RpcTypeOK' /\ RpcInv'
    BY <2>8, doneCallbackStep
  <2>9. CASE Destroy
    BY <2>9, DestroyStep
  <2>10. CASE UNCHANGED rpcVars
    <3>1. UNCHANGED <<callId, unsent, outstandings, rpcWire, rpcBuf, rpcConn, running, closures, damage>>
      BY <2>10 DEF rpcVars
    <3>2. RpcTypeOK'
      BY <3>1 DEF RpcTypeOK
    <3>3. ASSUME NEW p \in Peers
          PROVE  StreamKept(p)' /\ \A c \in RpcCalls : Carries(Stream(p), c) <=> Carries(Stream(p), c)'
      BY <3>1, SameStream, StreamsKept DEF RpcInv
    <3>4. ASSUME NEW d \in RpcCalls, Pending(d) PROVE Pending(d)'
      BY <3>1, <3>3, <3>4 DEF Pending
    <3>5. CallInv'
      BY <3>1, <3>4, CallsKept DEF RpcInv, CallInv
    <3> QED
      BY <3>2, <3>3, <3>5, StreamsKept DEF RpcInv
  <2> QED
    BY <2>1, <2>2, <2>3, <2>4, <2>5, <2>6, <2>7, <2>8, <2>9, <2>10 DEF RpcNext
<1> QED
  BY <1>1, <1>2, PTL DEF RpcSpec

\* A closure is run at most once, with its own answer if no other call has
\* drawn its id, and has been run once all is answered on a sound connection,
\* for any number of calls and ids (RpcChannel::CallMethod, onRpcMessage).
THEOREM CallsCompletedCorrect == RpcSpec => []CallsCompleted
<1>1. RpcTypeOK /\ RpcInv => CallsCompleted
  <2> SUFFICES ASSUME RpcTypeOK, RpcInv PROVE CallsCompleted
    OBVIOUS
  <2>1. ASSUME NEW c \in RpcCalls PROVE Len(closures[c]) <= 1
    <3>1. CASE closures[c] = <<>>
      <4>1. Len(<<>>) <= 1
        OBVIOUS
      <4> QED
        BY <3>1, <4>1
    <3>2. CASE closures[c] # <<>>
      <4>1. Len(closures[c]) = 1
        BY <3>2 DEF RpcInv, CallInv
      <4> QED
        BY <4>1
    <3> QED
      BY <3>1, <3>2
  <2>2. ASSUME NEW c \in RpcCalls, Alone(c), closures[c] # <<>> PROVE closures[c][1].call = c
    <3>1. /\ Len(closures[c]) = 1 /\ callId[c] # 0
          /\ closures[c][1].id = callId[c] /\ Genuine(closures[c][1])
      BY <2>2 DEF RpcInv, CallInv
    <3>2. closures[c][1] \in Messages
      <4>1. closures[c] \in Seq(Messages)
        BY DEF RpcTypeOK
      <4> QED
        BY <3>1, <4>1
    <3>3. closures[c][1].call \in RpcCalls
      BY <3>2 DEF Messages
    <3> QED
      BY <2>2, <3>1, <3>3 DEF Alone, Genuine
  <2>3. ASSUME rpcConn = "up", unsent = {}, running = {}, \A e \in Peers : rpcWire[e] = <<>> /\ rpcBuf[e] = <<>>,
               NEW c \in RpcCalls, Alone(c), callId[c] # 0
        PROVE  closures[c] # <<>>
    <3>1. \A e \in Peers : Stream(e) = <<>>
      BY <2>3 DEF Stream
    <3>2. \A e \in Peers : ~ Carries(Stream(e), c)
      <4>1. Len(<<>>) = 0 /\ 1 .. 0 = {}
        OBVIOUS
      <4> QED
        BY <3>1, <4>1 DEF Carries
    <3>3. ~ Pending(c)
      BY <2>3, <3>2 DEF Pending
    <3> QED
      BY <2>3, <3>3 DEF RpcInv, CallInv
  <2> QED
    BY <2>1, <2>2, <2>3 DEF CallsCompleted
<1> QED
  BY <1>1, RpcCorrect, PTL


-----------------------------------------------------------------------------
(* RedLock.                                                                *)

Locking == [pc : {"idle", "lock", "undo", "held", "unlock", "done"}, round : Nat, n : Nat, i : Nat,
            elapsed : Nat, freed : BOOLEAN, left : Nat]

LockTypeOK ==
    /\ store \in [Servers -> [val : Lockers \cup {Rubbish, Free}, left : Nat]]
    /\ locker \in [Lockers -> Locking]

\* The servers that keep c's value as long as the round in hand may still use it.
Agreed(c) == {s \in Servers : s < locker[c].i /\ Holds(s, c) /\ store[s].left >= ttl[c] - locker[c].elapsed}

\* The servers that keep c's value longer than its lock is valid.
Secured(c) == {s \in Servers : Holds(s, c) /\ store[s].left >= locker[c].left + drift}

RoundCounted(c) == locker[c].pc \in {"lock", "undo", "held"} => locker[c].round >= 1

AgreedCounted(c) ==
    locker[c].pc = "lock" /\ locker[c].round = 1 =>
       /\ ~locker[c].freed
       /\ locker[c].elapsed < ttl[c] - drift => locker[c].n <= Cardinality(Agreed(c))

QuorumSecured(c) == InFirstRound(c) => Cardinality(Secured(c)) >= quoRum

LockInv == \A c \in Lockers : RoundCounted(c) /\ AgreedCounted(c) /\ QuorumSecured(c)

-----------------------------------------------------------------------------
LEMMA ServersFinite ==
  /\ IsFiniteSet(Servers) /\ Cardinality(Servers) = NumServers
  /\ \A S \in SUBSET Servers : IsFiniteSet(S) /\ Cardinality(S) \in Nat
  /\ \A S, T \in SUBSET Servers : S \subseteq T => Cardinality(S) <= Cardinality(T)
<1>1. NumServers \in Nat /\ 1 <= NumServers
  BY RedLockAssumption
<1>2. IsFiniteSet(Servers) /\ Cardinality(Servers) = NumServers
  BY <1>1, FS_Interval DEF Servers
<1>3. ASSUME NEW S \in SUBSET Servers PROVE IsFiniteSet(S) /\ Cardinality(S) \in Nat
  BY <1>2, FS_Subset, FS_CardinalityType
<1>4. ASSUME NEW S \in SUBSET Servers, NEW T \in SUBSET Servers, S \subseteq T
      PROVE  Cardinality(S) <= Cardinality(T)
  BY <1>3, <1>4, FS_Subset
<1> QED
  BY <1>2, <1>3, <1>4

LEMMA QuorumType == quoRum \in Nat /\ 2 * quoRum > NumServers /\ quoRum >= 1
  BY RedLockAssumption DEF quoRum

LEMMA LockTypeInit == LockInit => LockTypeOK
  BY DEF LockInit, LockTypeOK, Locking, NotLocking

\* A call of lock after a change of some of its fields.
LEMMA LockingFields ==
  ASSUME NEW r \in Locking, NEW l \in Nat, NEW k \in Nat, NEW p \in {"held", "undo"}
  PROVE  /\ [r EXCEPT !.pc = "unlock", !.left = 0, !.n = 0] \in Locking
         /\ [r EXCEPT !.pc = "lock", !.round = k, !.i = 1] \in Locking
         /\ [r EXCEPT !.freed = TRUE, !.i = 1, !.pc = p, !.left = l, !.elapsed = 0] \in Locking
<1>1. [r EXCEPT !.pc = "unlock", !.left = 0, !.n = 0] \in Locking
  BY DEF Locking
<1>2. [r EXCEPT !.pc = "lock", !.round = k, !.i = 1] \in Locking
  BY DEF Locking
<1>3. [r EXCEPT !.freed = TRUE, !.i = 1, !.pc = p, !.left = l, !.elapsed = 0] \in Locking
  BY DEF Locking
<1> QED
  BY <1>1, <1>2, <1>3

LEMMA LockTypeStep == LockTypeOK /\ [LockNext]_lockVars => LockTypeOK'
<1> SUFFICES ASSUME LockTypeOK, [LockNext]_lockVars PROVE LockTypeOK'
  OBVIOUS
<1> USE DEF LockTypeOK
<1>1. CASE Tick
  <2>1. ASSUME NEW s \in Servers PROVE store'[s] \in [val : Lockers \cup {Rubbish, Free}, left : Nat]
    <3>1. store[s] \in [val : Lockers \cup {Rubbish, Free}, left : Nat]
      OBVIOUS
    <3>2. CASE store[s].left <= 1
      BY <1>1, <3>2 DEF Tick
    <3>3. CASE ~(store[s].left <= 1)
      <4>1. store'[s] = [store[s] EXCEPT !.left = @ - 1]
        BY <1>1, <3>3 DEF Tick
      <4>2. store[s].left - 1 \in Nat
        BY <3>1, <3>3
      <4> QED
        BY <3>1, <4>1, <4>2
    <3> QED
      BY <3>2, <3>3
  <2>2. ASSUME NEW c \in Lockers PROVE locker'[c] \in Locking
    <3>1. locker[c] \in Locking
      OBVIOUS
    <3>2. PICK l, e : /\ l = Less(locker[c].left)
                      /\ e = IF locker[c].pc = "lock" /\ locker[c].elapsed < ttl[c] - drift
                             THEN locker[c].elapsed + 1 ELSE locker[c].elapsed
      OBVIOUS
    <3>3. l \in Nat /\ e \in Nat
      BY <3>1, <3>2 DEF Less, Locking
    <3>4. locker'[c] = [locker[c] EXCEPT !.left = l, !.elapsed = e]
      BY <1>1, <3>1, <3>2 DEF Tick, Locking
    <3> QED
      BY <3>1, <3>3, <3>4 DEF Locking
  <2> QED
    BY <1>1, <2>1, <2>2 DEF Tick
<1>2. ASSUME NEW c \in Lockers, StartLock(c) PROVE LockTypeOK'
  BY <1>2 DEF StartLock, Locking, NotLocking
<1>3. ASSUME NEW c \in Lockers, FinishRound(c) PROVE LockTypeOK'
  <2>1. locker[c] \in Locking /\ ttl[c] \in Nat
    BY RedLockAssumption
  <2>2. PICK l, p : /\ locker' = [locker EXCEPT ![c].freed = TRUE, ![c].i = 1, ![c].pc = p, ![c].left = l,
                                                ![c].elapsed = 0]
                    /\ l \in Nat /\ p \in {"held", "undo"}
    <3>1. PICK v : v = ttl[c] - locker[c].elapsed - drift
      OBVIOUS
    <3>2. v \in Int
      BY <2>1, <3>1 DEF Locking, drift
    <3>3. CASE locker[c].n >= quoRum /\ v > 0
      <4>1. v \in Nat
        BY <3>2, <3>3
      <4> QED
        BY <1>3, <3>1, <3>3, <4>1 DEF FinishRound
    <3>4. CASE ~(locker[c].n >= quoRum /\ v > 0)
      BY <1>3, <3>1, <3>4 DEF FinishRound
    <3> QED
      BY <3>3, <3>4
  <2>3. locker'[c] = [locker[c] EXCEPT !.freed = TRUE, !.i = 1, !.pc = p, !.left = l, !.elapsed = 0]
    BY <2>1, <2>2 DEF Locking
  <2>4. locker'[c] \in Locking
    BY <2>1, <2>2, <2>3, LockingFields
  <2> QED
    BY <1>3, <2>2, <2>4 DEF FinishRound
<1>4. ASSUME NEW c \in Lockers, StartUnlock(c) PROVE LockTypeOK'
  <2>1. locker[c] \in Locking
    OBVIOUS
  <2>2. locker'[c] = [locker[c] EXCEPT !.pc = "unlock", !.left = 0, !.n = 0]
    BY <1>4, <2>1 DEF StartUnlock, Locking
  <2>3. locker'[c] \in Locking
    BY <2>1, <2>2, LockingFields
  <2> QED
    BY <1>4, <2>3 DEF StartUnlock
<1>5. ASSUME NEW c \in Lockers, FinishUnlock(c) PROVE LockTypeOK'
  <2>1. locker[c] \in Locking /\ NotLocking \in Locking /\ locker[c].round + 1 \in Nat
    BY DEF Locking, NotLocking
  <2>2. [NotLocking EXCEPT !.pc = "done"] \in Locking
    BY DEF Locking, NotLocking
  <2>3. \/ locker'[c] = [locker[c] EXCEPT !.pc = "lock", !.round = locker[c].round + 1, !.i = 1]
        \/ locker'[c] = [NotLocking EXCEPT !.pc = "done"]
    BY <1>5 DEF FinishUnlock
  <2>4. PICK k \in Nat : k = locker[c].round + 1
    BY <2>1
  <2>5. [locker[c] EXCEPT !.pc = "lock", !.round = k, !.i = 1] \in Locking
    BY <2>1, LockingFields
  <2>6. locker'[c] \in Locking
    BY <2>2, <2>3, <2>4, <2>5
  <2> QED
    BY <1>5, <2>6 DEF FinishUnlock
<1>6. ASSUME NEW c \in Lockers, NEW val \in {c, Rubbish}, NEW reached \in BOOLEAN, NEW answered \in BOOLEAN,
             lockInstance(c, val, reached, answered)
      PROVE  LockTypeOK'
  <2>1. locker[c] \in Locking /\ ttl[c] \in Nat /\ val \in Lockers \cup {Rubbish, Free}
    BY RedLockAssumption
  <2>2. store' \in [Servers -> [val : Lockers \cup {Rubbish, Free}, left : Nat]]
    BY <1>6, <2>1 DEF lockInstance
  <2>3. PICK i \in Nat : i = locker[c].i + 1
    BY <2>1 DEF Locking
  <2>4. PICK n \in Nat : n = IF reached /\ ~Taken(locker[c].i) /\ answered THEN locker[c].n + 1 ELSE locker[c].n
    BY <2>1 DEF Locking
  <2>5. locker' = [locker EXCEPT ![c].i = i, ![c].n = n]
    BY <1>6, <2>3, <2>4 DEF lockInstance
  <2>6. locker'[c] = [locker[c] EXCEPT !.i = i, !.n = n]
    BY <2>1, <2>5 DEF Locking
  <2>7. [locker[c] EXCEPT !.i = i, !.n = n] \in Locking
    BY <2>1 DEF Locking
  <2>8. locker'[c] \in Locking
    BY <2>6, <2>7
  <2> QED
    BY <2>2, <2>5, <2>8
<1>7. ASSUME NEW c \in Lockers, NEW val \in {c, Rubbish}, NEW reached \in BOOLEAN, unlockInstance(c, val, reached)
      PROVE  LockTypeOK'
  BY <1>7 DEF unlockInstance, Locking
<1>8. CASE UNCHANGED lockVars
  BY <1>8 DEF lockVars
<1> QED
  BY <1>1, <1>2, <1>3, <1>4, <1>5, <1>6, <1>7, <1>8 DEF LockNext

\* What the others do: they leave alone the servers that hold c's value.
LEMMA OthersKeep ==
  ASSUME LockTypeOK, LockTypeOK', NEW c \in Lockers, RoundCounted(c), AgreedCounted(c), QuorumSecured(c),
         locker'[c] = locker[c], \A s \in Servers : Holds(s, c) => store'[s] = store[s]
  PROVE  RoundCounted(c)' /\ AgreedCounted(c)' /\ QuorumSecured(c)'
<1>1. Agreed(c) \subseteq Agreed(c)' /\ Secured(c) \subseteq Secured(c)'
  BY DEF Agreed, Secured, Holds
<1>2. Agreed(c)' \subseteq Servers /\ Secured(c)' \subseteq Servers
  BY DEF Agreed, Secured
<1>3. Agreed(c) \subseteq Servers /\ Secured(c) \subseteq Servers
  BY DEF Agreed, Secured
<1>4. Cardinality(Agreed(c)) <= Cardinality(Agreed(c)') /\ Cardinality(Secured(c)) <= Cardinality(Secured(c)')
  BY <1>1, <1>2, <1>3, ServersFinite
<1>5. /\ Cardinality(Agreed(c)) \in Nat /\ Cardinality(Agreed(c)') \in Nat
      /\ Cardinality(Secured(c)) \in Nat /\ Cardinality(Secured(c)') \in Nat
  BY <1>2, <1>3, ServersFinite
<1>6. RoundCounted(c)'
  BY DEF RoundCounted
<1>7. AgreedCounted(c)'
  <2>1. locker[c].n \in Nat
    BY DEF LockTypeOK, Locking
  <2> QED
    BY <1>4, <1>5, <2>1 DEF AgreedCounted
<1>8. QuorumSecured(c)'
  BY <1>4, <1>5, QuorumType DEF QuorumSecured, InFirstRound, Holding, quoRum
<1> QED
  BY <1>6, <1>7, <1>8

\* Time passes: what a server keeps shrinks by a tick, and so does what the client counts on.
LEMMA TickKeeps ==
  ASSUME LockTypeOK, LockTypeOK', NEW c \in Lockers, RoundCounted(c), AgreedCounted(c), QuorumSecured(c), Tick
  PROVE  RoundCounted(c)' /\ AgreedCounted(c)' /\ QuorumSecured(c)'
<1>1. /\ locker[c] \in Locking /\ locker'[c] \in Locking /\ ttl[c] \in Nat /\ ttl[c] >= 1
      /\ \A s \in Servers : store[s].left \in Nat
  BY RedLockAssumption DEF LockTypeOK
<1>2. /\ locker'[c].pc = locker[c].pc /\ locker'[c].round = locker[c].round /\ locker'[c].n = locker[c].n
      /\ locker'[c].i = locker[c].i /\ locker'[c].freed = locker[c].freed
      /\ locker'[c].left = Less(locker[c].left)
      /\ locker'[c].elapsed = IF locker[c].pc = "lock" /\ locker[c].elapsed < ttl[c] - drift
                              THEN locker[c].elapsed + 1 ELSE locker[c].elapsed
  <2>1. locker'[c] = [locker[c] EXCEPT !.left = Less(@),
                          !.elapsed = IF locker[c].pc = "lock" /\ @ < ttl[c] - drift THEN @ + 1 ELSE @]
    BY DEF Tick
  <2> QED
    BY <1>1, <2>1 DEF Locking
<1>3. \A s \in Servers : store[s].left > 1 => store'[s].val = store[s].val /\ store'[s].left = store[s].left - 1
  <2>1. ASSUME NEW s \in Servers, store[s].left > 1
        PROVE  store'[s].val = store[s].val /\ store'[s].left = store[s].left - 1
    <3>1. store[s] \in [val : Lockers \cup {Rubbish, Free}, left : Nat] /\ ~(store[s].left <= 1)
      BY <1>1, <2>1 DEF LockTypeOK
    <3>2. store'[s] = [store[s] EXCEPT !.left = @ - 1]
      BY <3>1 DEF Tick
    <3> QED
      BY <3>1, <3>2
  <2> QED
    BY <2>1
<1>4. RoundCounted(c)'
  BY <1>2 DEF RoundCounted
<1>5. AgreedCounted(c)'
  <2> SUFFICES ASSUME locker[c].pc = "lock", locker[c].round = 1, locker'[c].elapsed < ttl[c] - drift
               PROVE  locker'[c].n <= Cardinality(Agreed(c)')
    BY <1>2 DEF AgreedCounted
  <2>1. locker[c].elapsed < ttl[c] - drift /\ locker'[c].elapsed = locker[c].elapsed + 1
    BY <1>1, <1>2 DEF Locking, drift
  <2>2. \A s \in Servers : s \in Agreed(c) => s \in Agreed(c)'
    BY <1>1, <1>2, <1>3, <2>1 DEF Agreed, Holds, Locking, drift
  <2>3. Agreed(c) \subseteq Servers /\ Agreed(c)' \subseteq Servers
    BY DEF Agreed
  <2>4. /\ Cardinality(Agreed(c)) <= Cardinality(Agreed(c)')
        /\ Cardinality(Agreed(c)) \in Nat /\ Cardinality(Agreed(c)') \in Nat
    BY <2>2, <2>3, ServersFinite
  <2>5. locker[c].n <= Cardinality(Agreed(c)) /\ locker[c].n \in Nat
    BY <1>1, <2>1 DEF AgreedCounted, Locking
  <2> QED
    BY <1>2, <2>4, <2>5
<1>6. QuorumSecured(c)'
  <2> SUFFICES ASSUME locker[c].pc = "held", locker[c].round = 1, locker'[c].left > 0
               PROVE  Cardinality(Secured(c)') >= quoRum
    BY <1>2 DEF QuorumSecured, InFirstRound, Holding, quoRum
  <2>1. locker[c].left > 1 /\ locker'[c].left = locker[c].left - 1 /\ locker[c].left \in Nat
    BY <1>1, <1>2 DEF Locking, Less
  <2>2. \A s \in Servers : s \in Secured(c) => s \in Secured(c)'
    BY <1>1, <1>3, <2>1 DEF Secured, Holds, drift
  <2>3. Secured(c) \subseteq Servers /\ Secured(c)' \subseteq Servers
    BY DEF Secured
  <2>4. /\ Cardinality(Secured(c)) <= Cardinality(Secured(c)')
        /\ Cardinality(Secured(c)) \in Nat /\ Cardinality(Secured(c)') \in Nat
    BY <2>2, <2>3, ServersFinite
  <2>5. Cardinality(Secured(c)) >= quoRum
    BY <2>1 DEF QuorumSecured, InFirstRound, Holding
  <2> QED
    BY <2>4, <2>5, QuorumType
<1> QED
  BY <1>4, <1>5, <1>6

\* A server that agreed is one more that holds the value.
LEMMA LockInstanceKeeps ==
  ASSUME LockTypeOK, LockTypeOK', NEW c \in Lockers, RoundCounted(c), AgreedCounted(c),
         NEW val \in {c, Rubbish}, NEW reached \in BOOLEAN, NEW answered \in BOOLEAN,
         lockInstance(c, val, reached, answered)
  PROVE  RoundCounted(c)' /\ AgreedCounted(c)' /\ QuorumSecured(c)'
<1>1. PICK s : s = locker[c].i
  OBVIOUS
<1>2. /\ s \in Servers /\ locker[c].pc = "lock" /\ locker[c] \in Locking /\ ttl[c] \in Nat
      /\ store[s].left \in Nat
  BY <1>1, RedLockAssumption DEF lockInstance, LockTypeOK
<1>3. /\ locker'[c].pc = "lock" /\ locker'[c].round = locker[c].round /\ locker'[c].i = s + 1
      /\ locker'[c].freed = locker[c].freed /\ locker'[c].elapsed = locker[c].elapsed
      /\ locker'[c].n = IF reached /\ ~Taken(s) /\ answered THEN locker[c].n + 1 ELSE locker[c].n
  BY <1>1, <1>2 DEF lockInstance, LockTypeOK, Locking
<1>4. RoundCounted(c)' /\ QuorumSecured(c)'
  BY <1>2, <1>3 DEF RoundCounted, QuorumSecured, InFirstRound, Holding
<1>5. AgreedCounted(c)'
  <2> SUFFICES ASSUME locker[c].round = 1
               PROVE  /\ ~locker'[c].freed
                      /\ locker'[c].elapsed < ttl[c] - drift => locker'[c].n <= Cardinality(Agreed(c)')
    BY <1>2, <1>3 DEF AgreedCounted
  <2>1. ~locker[c].freed /\ val = c
    BY <1>2 DEF AgreedCounted, lockInstance, Values
  <2> SUFFICES ASSUME locker[c].elapsed < ttl[c] - drift PROVE locker'[c].n <= Cardinality(Agreed(c)')
    BY <1>3, <2>1
  <2>2. Agreed(c) \subseteq Servers /\ Agreed(c)' \subseteq Servers /\ s \notin Agreed(c)
    BY <1>1, <1>2 DEF Agreed, Locking
  <2>3. locker[c].n <= Cardinality(Agreed(c)) /\ locker[c].n \in Nat
    BY <1>2 DEF AgreedCounted, Locking
  <2>4. \A u \in Agreed(c) : u # s /\ store[u].val # Free
    BY <1>1, <2>2, UniqueValues DEF Agreed, Holds
  <2>5. Agreed(c) \subseteq Agreed(c)'
    <3>1. ASSUME NEW u \in Agreed(c) PROVE u \in Agreed(c)'
      <4>1. store'[u] = store[u] /\ u \in Servers /\ u < s
        BY <1>1, <1>2, <2>4 DEF lockInstance, LockTypeOK, Agreed
      <4>2. u < s + 1
        BY <4>1, <1>2 DEF Servers
      <4> QED
        BY <1>3, <3>1, <4>1, <4>2 DEF Agreed, Holds
    <3> QED
      BY <3>1
  <2>6. /\ Cardinality(Agreed(c)) <= Cardinality(Agreed(c)') /\ IsFiniteSet(Agreed(c))
        /\ Cardinality(Agreed(c)) \in Nat /\ Cardinality(Agreed(c)') \in Nat
    BY <2>2, <2>5, ServersFinite
  <2>7. CASE reached /\ ~Taken(s) /\ answered
    <3>1. store'[s] = [val |-> c, left |-> ttl[c]]
      BY <1>1, <1>2, <2>1, <2>7 DEF lockInstance, LockTypeOK
    <3>2. s < s + 1 /\ ttl[c] >= ttl[c] - locker[c].elapsed
      BY <1>2 DEF Servers, Locking
    <3>3. s \in Agreed(c)'
      BY <1>2, <1>3, <3>1, <3>2 DEF Agreed, Holds
    <3>4. Agreed(c) \cup {s} \subseteq Agreed(c)'
      BY <2>5, <3>3
    <3>5. Cardinality(Agreed(c) \cup {s}) = Cardinality(Agreed(c)) + 1
      BY <2>2, <2>6, FS_AddElement
    <3>6. Cardinality(Agreed(c) \cup {s}) <= Cardinality(Agreed(c)')
      BY <1>2, <2>2, <3>4, ServersFinite
    <3> QED
      BY <1>3, <2>3, <2>6, <2>7, <3>5, <3>6
  <2>8. CASE ~(reached /\ ~Taken(s) /\ answered)
    BY <1>3, <2>3, <2>6, <2>8
  <2> QED
    BY <2>7, <2>8
<1> QED
  BY <1>4, <1>5

\* A quorum within the validity time: each of its servers keeps the value for longer.
LEMMA FinishRoundKeeps ==
  ASSUME LockTypeOK, LockTypeOK', NEW c \in Lockers, RoundCounted(c), AgreedCounted(c), FinishRound(c)
  PROVE  RoundCounted(c)' /\ AgreedCounted(c)' /\ QuorumSecured(c)'
<1>1. /\ locker[c] \in Locking /\ ttl[c] \in Nat /\ locker[c].pc = "lock"
      /\ \A s \in Servers : store[s].left \in Nat
  BY RedLockAssumption DEF LockTypeOK, FinishRound
<1>2. /\ locker'[c].pc \in {"held", "undo"} /\ locker'[c].round = locker[c].round /\ store' = store
      /\ locker'[c].pc = "held" => /\ locker[c].n >= quoRum /\ ttl[c] - locker[c].elapsed - drift > 0
                                   /\ locker'[c].left = ttl[c] - locker[c].elapsed - drift
  <2>1. PICK h, v : /\ v = ttl[c] - locker[c].elapsed - drift /\ h = (locker[c].n >= quoRum /\ v > 0)
                    /\ locker' = [locker EXCEPT ![c].freed = TRUE, ![c].i = 1,
                                                ![c].pc = IF h THEN "held" ELSE "undo",
                                                ![c].left = IF h THEN v ELSE 0, ![c].elapsed = 0]
                    /\ store' = store
    BY Zenon DEF FinishRound
  <2>2. locker \in [Lockers -> Locking]
    BY DEF LockTypeOK
  <2>3. /\ locker'[c].pc = (IF h THEN "held" ELSE "undo") /\ locker'[c].left = (IF h THEN v ELSE 0)
        /\ locker'[c].round = locker[c].round
    BY <2>1, <2>2 DEF Locking
  <2>4. CASE h
    BY <2>1, <2>3, <2>4, Zenon
  <2>5. CASE ~h
    <3>1. locker'[c].pc = "undo" /\ "undo" # "held"
      BY <2>3, <2>5
    <3> QED
      BY <2>1, <2>3, <3>1, Zenon
  <2> QED
    BY <2>4, <2>5
<1>3. RoundCounted(c)' /\ AgreedCounted(c)'
  BY <1>1, <1>2 DEF RoundCounted, AgreedCounted
<1>4. QuorumSecured(c)'
  <2> SUFFICES ASSUME locker'[c].pc = "held", locker[c].round = 1 PROVE Cardinality(Secured(c)') >= quoRum
    BY <1>2 DEF QuorumSecured, InFirstRound, Holding, quoRum
  <2>1. locker[c].elapsed \in Nat /\ locker[c].n \in Nat
    BY <1>1 DEF Locking
  <2>2. locker[c].elapsed < ttl[c] - drift
    BY <1>1, <1>2, <2>1 DEF drift
  <2>3. locker[c].n <= Cardinality(Agreed(c))
    BY <1>1, <2>2 DEF AgreedCounted
  <2>4. \A s \in Servers : s \in Agreed(c) => s \in Secured(c)'
    BY <1>1, <1>2, <2>1 DEF Agreed, Secured, Holds, drift
  <2>5. Agreed(c) \subseteq Servers /\ Secured(c)' \subseteq Servers
    BY DEF Agreed, Secured
  <2>6. /\ Cardinality(Agreed(c)) <= Cardinality(Secured(c)')
        /\ Cardinality(Agreed(c)) \in Nat /\ Cardinality(Secured(c)') \in Nat
    BY <2>4, <2>5, ServersFinite
  <2> QED
    BY <1>2, <2>1, <2>3, <2>6, QuorumType
<1> QED
  BY <1>3, <1>4

LEMMA LockInvStep == LockTypeOK /\ LockTypeOK' /\ LockInv /\ [LockNext]_lockVars => LockInv'
<1> SUFFICES ASSUME LockTypeOK, LockTypeOK', LockInv, [LockNext]_lockVars, NEW c \in Lockers
             PROVE  RoundCounted(c)' /\ AgreedCounted(c)' /\ QuorumSecured(c)'
  BY DEF LockInv
<1>1. RoundCounted(c) /\ AgreedCounted(c) /\ QuorumSecured(c)
  BY DEF LockInv
<1>2. CASE Tick
  BY <1>1, <1>2, TickKeeps
<1>3. CASE UNCHANGED lockVars
  BY <1>1, <1>3, OthersKeep DEF lockVars
<1>4. ASSUME NEW d \in Lockers, StartLock(d) \/ FinishRound(d) \/ StartUnlock(d) \/ FinishUnlock(d)
      PROVE  RoundCounted(c)' /\ AgreedCounted(c)' /\ QuorumSecured(c)'
  <2>1. CASE d # c
    <3>1. locker'[c] = locker[c] /\ store' = store
      BY <1>4, <2>1 DEF StartLock, FinishRound, StartUnlock, FinishUnlock, LockTypeOK
    <3> QED
      BY <1>1, <3>1, OthersKeep
  <2>2. CASE d = c /\ FinishRound(d)
    BY <1>1, <2>2, FinishRoundKeeps
  <2>3. CASE d = c /\ StartLock(d)
    <3>1. /\ locker'[c].pc = "lock" /\ locker'[c].round = 1 /\ ~locker'[c].freed /\ locker'[c].n = 0
      BY <2>3 DEF StartLock, NotLocking, LockTypeOK
    <3>2. Cardinality(Agreed(c)') \in Nat
      BY ServersFinite DEF Agreed
    <3> QED
      BY <3>1, <3>2 DEF RoundCounted, AgreedCounted, QuorumSecured, InFirstRound, Holding
  <2>4. CASE d = c /\ StartUnlock(d)
    <3>1. locker'[c].pc = "unlock"
      BY <2>4 DEF StartUnlock, LockTypeOK, Locking
    <3> QED
      BY <3>1 DEF RoundCounted, AgreedCounted, QuorumSecured, InFirstRound, Holding
  <2>5. CASE d = c /\ FinishUnlock(d)
    <3>1. locker'[c].pc = "done" \/ (locker'[c].pc = "lock" /\ locker'[c].round >= 2)
      <4>1. locker[c] \in Locking
        BY DEF LockTypeOK
      <4>2. CASE locker[c].pc = "undo" /\ locker[c].round < Rounds[c]
        <5>1. locker'[c] = [locker[c] EXCEPT !.pc = "lock", !.round = locker[c].round + 1, !.i = 1]
          BY <2>5, <4>2 DEF FinishUnlock, LockTypeOK
        <5>2. locker'[c].pc = "lock" /\ locker'[c].round = locker[c].round + 1
          BY <4>1, <5>1 DEF Locking
        <5>3. locker[c].round >= 1 /\ locker[c].round \in Nat
          BY <1>1, <4>1, <4>2 DEF RoundCounted, Locking
        <5> QED
          BY <5>2, <5>3
      <4>3. CASE ~(locker[c].pc = "undo" /\ locker[c].round < Rounds[c])
        BY <2>5, <4>3 DEF FinishUnlock, LockTypeOK, NotLocking
      <4> QED
        BY <4>2, <4>3
    <3>2. locker'[c].round \in Nat
      BY DEF LockTypeOK, Locking
    <3> QED
      BY <3>1, <3>2 DEF RoundCounted, AgreedCounted, QuorumSecured, InFirstRound, Holding
  <2> QED
    BY <1>4, <2>1, <2>2, <2>3, <2>4, <2>5
<1>5. ASSUME NEW d \in Lockers, NEW val \in {d, Rubbish}, NEW reached \in BOOLEAN, NEW answered \in BOOLEAN,
             lockInstance(d, val, reached, answered)
      PROVE  RoundCounted(c)' /\ AgreedCounted(c)' /\ QuorumSecured(c)'
  <2>1. CASE d = c
    BY <1>1, <1>5, <2>1, LockInstanceKeeps
  <2>2. CASE d # c
    <3>1. locker'[c] = locker[c]
      BY <1>5, <2>2 DEF lockInstance, LockTypeOK
    <3>2. \A s \in Servers : Holds(s, c) => store'[s] = store[s]
      BY <1>5, UniqueValues DEF lockInstance, LockTypeOK, Holds, Taken
    <3> QED
      BY <1>1, <3>1, <3>2, OthersKeep
  <2> QED
    BY <2>1, <2>2
<1>6. ASSUME NEW d \in Lockers, NEW val \in {d, Rubbish}, NEW reached \in BOOLEAN, unlockInstance(d, val, reached)
      PROVE  RoundCounted(c)' /\ AgreedCounted(c)' /\ QuorumSecured(c)'
  <2>1. CASE d = c
    <3>1. locker'[c].pc \in {"undo", "unlock"} /\ locker'[c].pc = locker[c].pc
          /\ locker'[c].round = locker[c].round
      BY <1>6, <2>1 DEF unlockInstance, LockTypeOK, Locking
    <3> QED
      BY <1>1, <3>1 DEF RoundCounted, AgreedCounted, QuorumSecured, InFirstRound, Holding
  <2>2. CASE d # c
    <3>1. locker'[c] = locker[c]
      BY <1>6, <2>2 DEF unlockInstance, LockTypeOK
    <3>2. \A s \in Servers : Holds(s, c) => store'[s] = store[s]
      BY <1>6, <2>2, UniqueValues DEF unlockInstance, LockTypeOK, Holds
    <3> QED
      BY <1>1, <3>1, <3>2, OthersKeep
  <2> QED
    BY <2>1, <2>2
<1> QED
  BY <1>2, <1>3, <1>4, <1>5, <1>6 DEF LockNext

\* Two quorums share a server, and a server holds one value.
LEMMA QuorumsExclude == LockTypeOK /\ LockInv => FirstRoundExclusive
<1> SUFFICES ASSUME LockTypeOK, LockInv, NEW c \in Lockers, InFirstRound(c)
             PROVE  /\ \A d \in Lockers \ {c} : ~InFirstRound(d)
                    /\ Cardinality({s \in Servers : Holds(s, c)}) >= quoRum
  BY DEF FirstRoundExclusive
<1>1. ASSUME NEW d \in Lockers, InFirstRound(d)
      PROVE  /\ Cardinality(Secured(d)) >= quoRum /\ Cardinality(Secured(d)) \in Nat
             /\ Secured(d) \subseteq Servers
  <2>1. Secured(d) \subseteq Servers
    BY DEF Secured
  <2> QED
    BY <1>1, <2>1, ServersFinite DEF LockInv, QuorumSecured
<1>2. ASSUME NEW d \in Lockers \ {c}, InFirstRound(d) PROVE FALSE
  <2>1. Cardinality(Secured(c)) + Cardinality(Secured(d)) > Cardinality(Servers)
    BY <1>1, <1>2, QuorumType, ServersFinite, RedLockAssumption
  <2>2. Secured(c) \cap Secured(d) # {}
    BY <1>1, <1>2, <2>1, ServersFinite, FS_MajoritiesIntersect
  <2> QED
    BY <2>2 DEF Secured, Holds
<1>3. Cardinality({s \in Servers : Holds(s, c)}) >= quoRum
  <2>1. PICK T : T = {s \in Servers : Holds(s, c)}
    OBVIOUS
  <2>2. Secured(c) \subseteq T /\ T \subseteq Servers
    BY <2>1 DEF Secured
  <2>3. Cardinality(Secured(c)) <= Cardinality(T) /\ Cardinality(T) \in Nat
    BY <1>1, <2>2, ServersFinite
  <2> QED
    BY <1>1, <2>1, <2>3, QuorumType
<1> QED
  BY <1>2, <1>3

(* Every count of agreeing servers that RedLock::lock keeps in a first     *)
(* round is covered by servers that still hold the caller's value, and     *)
(* every valid lock by a quorum that outlasts it.                          *)
THEOREM LockInvCorrect == LockSpec => [](LockTypeOK /\ LockInv)
<1>1. LockInit => LockInv
  BY DEF LockInit, LockInv, NotLocking, RoundCounted, AgreedCounted, QuorumSecured, InFirstRound, Holding
<1> QED
  BY <1>1, LockTypeInit, LockTypeStep, LockInvStep, PTL DEF LockSpec

(* Two clients never hold valid locks of a first round at once, for any    *)
(* number of servers and clients, any times to live, any lost call and any *)
(* delay, although RedLock::lock frees the value it goes on sending.       *)
THEOREM FirstRoundExclusiveCorrect == LockSpec => []FirstRoundExclusive
BY LockInvCorrect, QuorumsExclude, PTL
=============================================================================
