------------------------------- MODULE Tunnel -------------------------------
(***************************************************************************)
(* The tunnel of the SOCKS4a proxy and of the TCP relay: two connections   *)
(* in one event loop, serverConn to the user and clientConn to the backend *)
(* (the names are the code's), each relayed to the other.                  *)
(*                                                                         *)
(* A side is "user" or "backend".  A byte is a number.  TcpConnection and  *)
(* EventLoop are external: output is written by and by; when it reaches    *)
(* HighWater the high-water callback is queued, when it drains the         *)
(* write-complete callback of that moment is queued, and the loop runs     *)
(* queued callbacks in order.  After shutdown nothing is sent; what is     *)
(* pending is still written.                                               *)
(***************************************************************************)
EXTENDS Integers, Sequences

CONSTANTS MaxBytes,     \* bound: bytes that each peer sends
          HighWater     \* 1024 * 1024

ASSUME TunnelAssumption == MaxBytes \in Nat /\ HighWater \in Nat \ {0}

VARIABLES service,    \* "socks4a", which reads a request first, or "relay"
          request,    \* what the user of socks4a asks for; "done" when answered
          tunnel,     \* "none", "connecting", "up", "torn" (teardown was called) or "gone"
          mapped,     \* the tunnel is in g_tunnels
          sideSent,   \* for each side how many bytes its peer has sent
          sideBuf,    \* for each side its input buffer
          sideOut,    \* for each side its output buffer
          sideGot,    \* for each side the bytes its peer has received
          sideReads,  \* for each side whether the loop reads from it
          sideState,  \* for each side "up", "shut" (shut down by the proxy) or "down"
          onWritten,  \* for each side whether a write-complete callback is set
          queued,     \* callbacks that the loop is yet to run
          crashed     \* the process has used the clientConn that teardown reset

tunnelVars == <<service, request, tunnel, mapped, sideSent, sideBuf, sideOut, sideGot, sideReads, sideState,
                onWritten, queued, crashed>>

Sides == {"user", "backend"}
Opposite(s) == IF s = "user" THEN "backend" ELSE "user"

\* The relay stops reading from the user until the backend is there; its
\* tunnel is made with the connection (tcprelay.cc, onServerConnection).
TunnelInit ==
    /\ service \in {"socks4a", "relay"}
    /\ request \in IF service = "socks4a" THEN {"good", "unresolved", "long"} ELSE {"done"}
    /\ tunnel = IF service = "socks4a" THEN "none" ELSE "connecting"
    /\ mapped = (service = "relay")
    /\ sideReads = [s \in Sides |-> service = "socks4a" /\ s = "user"]
    /\ sideState = [s \in Sides |-> IF s = "user" THEN "up" ELSE "down"]
    /\ sideSent = [s \in Sides |-> 0] /\ sideBuf = [s \in Sides |-> <<>>]
    /\ sideOut = [s \in Sides |-> <<>>] /\ sideGot = [s \in Sides |-> <<>>]
    /\ onWritten = [s \in Sides |-> FALSE] /\ queued = <<>> /\ crashed = FALSE

\* TcpConnection::send to side s: the output, and the high-water callback
\* when the output comes to the mark.
Output(s, bytes) == IF sideState[s] = "up" THEN [sideOut EXCEPT ![s] = @ \o bytes] ELSE sideOut
Marked(s, bytes) ==
    IF sideState[s] = "up" /\ Len(sideOut[s]) < HighWater /\ Len(sideOut[s] \o bytes) >= HighWater
    THEN Append(queued, [callback |-> "onHighWaterMark", side |-> s])
    ELSE queued

\* The request of a socks4a user comes in, whole: before that nothing is
\* done (onServerMessage).  A good one makes the tunnel; the response of
\* eight bytes is left out.
onServerRequest ==
    /\ ~crashed /\ service = "socks4a" /\ request # "done" /\ sideState["user"] = "up"
    /\ request' = "done"
    /\ IF request = "good"
       THEN tunnel' = "connecting" /\ mapped' = TRUE /\ UNCHANGED sideState
       ELSE sideState' = [sideState EXCEPT !["user"] = "shut"] /\ UNCHANGED <<tunnel, mapped>>
    /\ UNCHANGED <<service, sideSent, sideBuf, sideOut, sideGot, sideReads, onWritten, queued, crashed>>

\* Mutant: what came in before the backend was there is not sent on.
ForwardsNothing == <<>>

\* What onClientConnection sends to the backend when it comes up.
Forwarded == sideBuf["user"]

\* onClientConnection, up.
onClientUp ==
    /\ ~crashed /\ tunnel = "connecting"
    /\ tunnel' = "up"
    /\ sideState' = [sideState EXCEPT !["backend"] = "up"]
    /\ sideReads' = [s \in Sides |-> TRUE]
    /\ sideOut' = [sideOut EXCEPT !["backend"] = Forwarded]
    /\ queued' = IF Len(Forwarded) >= HighWater
                 THEN Append(queued, [callback |-> "onHighWaterMark", side |-> "backend"]) ELSE queued
    /\ sideBuf' = [sideBuf EXCEPT !["user"] = <<>>]
    /\ UNCHANGED <<service, request, mapped, sideSent, sideGot, onWritten, crashed>>

\* The loop reads a byte.  From the user: kept until the backend is there
\* (no context), then sent on (onServerMessage).  From the backend: sent on
\* (onClientMessage).
SideMessage(s) ==
    LET byte == sideSent[s] + 1
        relayed == tunnel = "up"
    IN  /\ ~crashed /\ request = "done" /\ sideSent[s] < MaxBytes
        /\ sideReads[s] /\ sideState[s] # "down"
        /\ s = "backend" => tunnel = "up"
        /\ sideSent' = [sideSent EXCEPT ![s] = byte]
        /\ IF relayed
           THEN /\ sideOut' = Output(Opposite(s), sideBuf[s] \o <<byte>>)
                /\ queued' = Marked(Opposite(s), sideBuf[s] \o <<byte>>)
                /\ sideBuf' = [sideBuf EXCEPT ![s] = <<>>]
           ELSE /\ sideBuf' = [sideBuf EXCEPT ![s] = Append(@, byte)]
                /\ UNCHANGED <<sideOut, queued>>
        /\ UNCHANGED <<service, request, tunnel, mapped, sideGot, sideReads, sideState, onWritten, crashed>>

\* The kernel takes a byte of output; with the last one the write-complete
\* callback, if one is set, is queued, and a side that was shut down closes.
Written(s) ==
    /\ ~crashed /\ sideOut[s] # <<>> /\ sideState[s] # "down"
    /\ sideGot' = [sideGot EXCEPT ![s] = Append(@, Head(sideOut[s]))]
    /\ sideOut' = [sideOut EXCEPT ![s] = Tail(@)]
    /\ queued' = IF Len(sideOut[s]) = 1 /\ onWritten[s]
                 THEN Append(queued, [callback |-> "onWriteComplete", side |-> s]) ELSE queued
    /\ UNCHANGED <<service, request, tunnel, mapped, sideSent, sideBuf, sideReads, sideState, onWritten, crashed>>

\* onHighWaterMark: the other side is not read until the output is written.
\* serverConn and clientConn lead to the user and the backend; teardown has
\* reset clientConn.
onHighWaterMark(s) ==
    IF sideOut[s] = <<>> /\ (s = "user" \/ tunnel # "torn")
    THEN UNCHANGED <<sideReads, onWritten, crashed>>
    ELSE IF tunnel = "torn" THEN crashed' = TRUE /\ UNCHANGED <<sideReads, onWritten>>
    ELSE /\ sideReads' = [sideReads EXCEPT ![Opposite(s)] = FALSE]
         /\ onWritten' = [onWritten EXCEPT ![s] = TRUE]
         /\ UNCHANGED crashed

onWriteComplete(s) ==
    IF tunnel = "torn" THEN crashed' = TRUE /\ UNCHANGED <<sideReads, onWritten>>
    ELSE /\ sideReads' = [sideReads EXCEPT ![Opposite(s)] = TRUE]
         /\ onWritten' = [onWritten EXCEPT ![s] = FALSE]
         /\ UNCHANGED crashed

\* The loop runs the first callback.  The callbacks hold the tunnel weakly:
\* without it they do nothing.
RunQueued ==
    /\ ~crashed /\ queued # <<>>
    /\ queued' = Tail(queued)
    /\ LET q == Head(queued) IN
       IF tunnel = "gone" THEN UNCHANGED <<sideReads, onWritten, crashed>>
       ELSE IF q.callback = "onHighWaterMark" THEN onHighWaterMark(q.side) ELSE onWriteComplete(q.side)
    /\ UNCHANGED <<service, request, tunnel, mapped, sideSent, sideBuf, sideOut, sideGot, sideState>>

\* The backend closes: onClientConnection, down, which is teardown.  It also
\* drops the callbacks through which the tunnel keeps itself.
BackendCloses ==
    /\ ~crashed /\ tunnel = "up"
    /\ tunnel' = IF mapped THEN "torn" ELSE "gone"
    /\ sideState' = [sideState EXCEPT !["backend"] = "down", !["user"] = IF @ = "up" THEN "shut" ELSE @]
    /\ UNCHANGED <<service, request, mapped, sideSent, sideBuf, sideOut, sideGot, sideReads, onWritten, queued, crashed>>

\* The user closes: onServerConnection, down; the backend is shut down and
\* the tunnel leaves the map.
UserCloses ==
    /\ ~crashed /\ sideState["user"] # "down"
    /\ sideState' = [sideState EXCEPT !["user"] = "down", !["backend"] = IF @ = "up" THEN "shut" ELSE @]
    /\ tunnel' = IF tunnel = "up" THEN "up" ELSE "gone"
    /\ mapped' = FALSE /\ request' = "done"
    /\ UNCHANGED <<service, sideSent, sideBuf, sideOut, sideGot, sideReads, onWritten, queued, crashed>>

TunnelNext ==
    \/ onServerRequest \/ onClientUp \/ RunQueued \/ BackendCloses \/ UserCloses
    \/ \E s \in Sides : SideMessage(s) \/ Written(s)

TunnelSpec == TunnelInit /\ [][TunnelNext]_tunnelVars

-----------------------------------------------------------------------------
Numbers(n) == [i \in 1 .. n |-> i]
BothUp == tunnel = "up" /\ \A s \in Sides : sideState[s] = "up"

(* What a peer has got is what the other one has sent, from the first byte *)
(* on, in order, whenever the backend comes up and however the callbacks   *)
(* interleave; nothing is lost while both are up; a side whose reading the *)
(* high-water mark has stopped is read again when the output is written;   *)
(* and clientConn is used after its reset only if the backend closed with  *)
(* the output of a side at the mark (Tunnel, socks4a.cc, tcprelay.cc).     *)
TunnelRelays ==
    /\ \A s \in Sides :
          LET n == Len(sideGot[s]) IN
          /\ sideGot[s] = Numbers(n) /\ n <= sideSent[Opposite(s)]
          /\ BothUp => sideGot[s] \o sideOut[s] \o sideBuf[Opposite(s)] = Numbers(sideSent[Opposite(s)])
    /\ BothUp /\ queued = <<>> => \A s \in Sides : sideOut[s] = <<>> => sideReads[Opposite(s)]
    /\ crashed => tunnel = "torn" /\ \E s \in Sides : sideSent[s] >= HighWater
=============================================================================
