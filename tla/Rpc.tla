--------------------------------- MODULE Rpc ---------------------------------
(***************************************************************************)
(* The RPC channel: calls from several threads over one connection, framed *)
(* by ProtobufCodecLite, answered by a server in any order.                *)
(*                                                                         *)
(* CallMethod numbers a call with an uninitialised local that hides the    *)
(* channel's counter: the number is any value.  A message on the wire is   *)
(* two units, its length with its content, and Remainder for what          *)
(* completes it; bytes may be damaged on the way.  A service finishes at   *)
(* once or later, and before its connection goes down.                     *)
(***************************************************************************)
EXTENDS Integers, Sequences, FiniteSets

CONSTANTS RpcCalls,      \* calls of CallMethod
          CallIds,       \* values that the uninitialised id may have
          RpcFate,       \* for each call what onRpcMessage makes of its request
          MaxDamage      \* bound: messages damaged on the way

ASSUME RpcAssumption ==
    /\ RpcFate \in [RpcCalls -> {"NO_ERROR", "NO_SERVICE", "NO_METHOD", "INVALID_REQUEST"}]
    /\ RpcCalls \subseteq Nat \ {0} /\ MaxDamage \in Nat
    /\ 0 \notin CallIds       \* 0 stands for the id of a call that was not made

Remainder == [unit |-> "tail"]
Peers == {"client", "server"}

VARIABLES callId,        \* the id of each call that was made, 0 before
          unsent,        \* calls registered in outstandings and not yet sent
          outstandings,  \* at the client, by id: the call whose closure is kept, or none
          rpcWire,       \* for each end the bytes on their way to it
          rpcBuf,        \* for each end its input buffer
          rpcConn,       \* the connection: "up", "down" (shut down) or "gone"
          running,       \* requests that a service works on
          closures,      \* for each call the answers its closure was run with
          damage         \* messages damaged

rpcVars == <<callId, unsent, outstandings, rpcWire, rpcBuf, rpcConn, running, closures, damage>>

NoCall == 0

RpcInit ==
    /\ callId = [c \in RpcCalls |-> 0] /\ unsent = {} /\ outstandings = [i \in CallIds |-> NoCall]
    /\ rpcWire = [e \in Peers |-> <<>>] /\ rpcBuf = [e \in Peers |-> <<>>] /\ rpcConn = "up"
    /\ running = {} /\ closures = [c \in RpcCalls |-> <<>>] /\ damage = 0

\* fillEmptyBuffer and send: nothing is sent on a connection that is shut down.
CodecSend(e, message) ==
    rpcWire' = IF rpcConn = "up"
               THEN [rpcWire EXCEPT ![e] = @ \o <<[unit |-> "message", message |-> message, sound |-> TRUE], Remainder>>]
               ELSE rpcWire

\* CallMethod, up to the release of the mutex.
CallMethod(c, id) ==
    /\ callId[c] = 0 /\ rpcConn # "gone"
    /\ callId' = [callId EXCEPT ![c] = id]
    /\ outstandings' = [outstandings EXCEPT ![id] = c]
    /\ unsent' = unsent \cup {c}
    /\ UNCHANGED <<rpcWire, rpcBuf, rpcConn, running, closures, damage>>

\* The rest of CallMethod.
SendCall(c) ==
    /\ c \in unsent /\ unsent' = unsent \ {c}
    /\ CodecSend("server", [type |-> "REQUEST", id |-> callId[c], call |-> c])
    /\ UNCHANGED <<callId, outstandings, rpcBuf, rpcConn, running, closures, damage>>

Damage(e) ==
    /\ damage < MaxDamage /\ rpcWire[e] # <<>> /\ Head(rpcWire[e]) # Remainder
    /\ rpcWire' = [rpcWire EXCEPT ![e][1].sound = FALSE]
    /\ damage' = damage + 1
    /\ UNCHANGED <<callId, unsent, outstandings, rpcBuf, rpcConn, running, closures>>

\* One more unit is read.  The codec's loop then finds a whole message or
\* waits: its rounds are the steps below.
RpcRead(e) ==
    /\ rpcWire[e] # <<>> /\ Len(rpcBuf[e]) < 2
    /\ rpcBuf' = [rpcBuf EXCEPT ![e] = Append(@, Head(rpcWire[e]))]
    /\ rpcWire' = [rpcWire EXCEPT ![e] = Tail(@)]
    /\ UNCHANGED <<callId, unsent, outstandings, rpcConn, running, closures, damage>>

Whole(e) == Len(rpcBuf[e]) >= 2
FirstMessage(e) == Head(rpcBuf[e]).message
Retrieve(e) == rpcBuf' = [rpcBuf EXCEPT ![e] = SubSeq(@, 3, Len(@))]

\* validateCheckSum fails: the connection is shut down, the bytes stay, and
\* each later read fails in the same way.
CheckSumError(e) ==
    /\ Whole(e) /\ ~Head(rpcBuf[e]).sound /\ rpcConn = "up"
    /\ rpcConn' = "down"
    /\ UNCHANGED <<callId, unsent, outstandings, rpcWire, rpcBuf, running, closures, damage>>

\* Mutant: the call is found but not erased.
AnswerNotErased(id) == outstandings

Erased(id) == [outstandings EXCEPT ![id] = NoCall]

\* onRpcMessage of a response: the call is looked up and erased in one go.
onResponseMessage ==
    LET m == FirstMessage("client")
        call == outstandings[m.id]
    IN  /\ Whole("client") /\ Head(rpcBuf["client"]).sound
        /\ outstandings' = Erased(m.id)
        /\ closures' = IF call = NoCall THEN closures ELSE [closures EXCEPT ![call] = Append(@, m)]
        /\ Retrieve("client")
        /\ UNCHANGED <<callId, unsent, rpcWire, rpcConn, running, damage>>

\* onRpcMessage of a request: a service takes it, or an error goes back.
onRequestMessage ==
    LET m == FirstMessage("server")
        error == RpcFate[m.call]
    IN  /\ Whole("server") /\ Head(rpcBuf["server"]).sound
        /\ IF error = "NO_ERROR"
           THEN running' = running \cup {m} /\ UNCHANGED rpcWire
           ELSE /\ CodecSend("client", [type |-> "RESPONSE", id |-> m.id, call |-> m.call])
                /\ UNCHANGED running
        /\ Retrieve("server")
        /\ UNCHANGED <<callId, unsent, outstandings, rpcConn, closures, damage>>

doneCallback(m) ==
    /\ m \in running /\ running' = running \ {m}
    /\ CodecSend("client", [type |-> "RESPONSE", id |-> m.id, call |-> m.call])
    /\ UNCHANGED <<callId, unsent, outstandings, rpcBuf, rpcConn, closures, damage>>

\* The channels of both ends are destroyed, and with the client's the
\* closures it still keeps.
Destroy ==
    /\ running = {} /\ unsent = {} /\ rpcConn # "gone"
    /\ rpcConn' = "gone" /\ outstandings' = [i \in CallIds |-> NoCall]
    /\ rpcWire' = [e \in Peers |-> <<>>] /\ rpcBuf' = [e \in Peers |-> <<>>]
    /\ UNCHANGED <<callId, unsent, running, closures, damage>>

RpcNext ==
    \/ \E c \in RpcCalls : SendCall(c) \/ \E id \in CallIds : CallMethod(c, id)
    \/ \E e \in Peers : Damage(e) \/ RpcRead(e) \/ CheckSumError(e)
    \/ onResponseMessage \/ onRequestMessage
    \/ \E m \in running : doneCallback(m)
    \/ Destroy

RpcSpec == RpcInit /\ [][RpcNext]_rpcVars

-----------------------------------------------------------------------------
Alone(c) == \A d \in RpcCalls \ {c} : callId[d] # callId[c]

(* Whatever order the answers come in, a closure is run at most once; with *)
(* its own answer if no other call has drawn the same id; and once all is  *)
(* read and answered on a sound connection, each such call has been        *)
(* completed (RpcChannel::CallMethod, onRpcMessage).                       *)
CallsCompleted ==
    /\ \A c \in RpcCalls :
          /\ Len(closures[c]) <= 1
          /\ Alone(c) /\ closures[c] # <<>> => closures[c][1].call = c
    /\ rpcConn = "up" /\ unsent = {} /\ running = {} /\ (\A e \in Peers : rpcWire[e] = <<>> /\ rpcBuf[e] = <<>>)
       => \A c \in RpcCalls : Alone(c) /\ callId[c] # 0 => closures[c] # <<>>
=============================================================================
