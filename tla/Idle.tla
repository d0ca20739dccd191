--------------------------------- MODULE Idle ---------------------------------
(***************************************************************************)
(* Closing connections on which nothing was received for idleSeconds: the  *)
(* EchoServer of idelconnection.cc keeps a list in the order of the last   *)
(* message, the TimeWheel of timewheel.cc a ring of buckets.  Both work in *)
(* one event loop, with a timer every second.                              *)
(*                                                                         *)
(* Time is counted in steps, PerSecond of them in a second.  The clock of  *)
(* xTimeStamp::now may be set back.  TcpConnection is external: connected  *)
(* is false behind shutdown, and forceCloseWithDelay ends the connection.  *)
(***************************************************************************)
EXTENDS Integers, Sequences, SequencesExt, FiniteSets, Functions

CONSTANTS IdlePeers, idleSeconds, PerSecond,
          kForceDelay,     \* steps until forceCloseWithDelay closes
          MaxSetBack,      \* bound: steps the clock is set back by
          MaxTime          \* bound: steps of a behaviour

ASSUME IdleAssumption ==
    /\ idleSeconds \in Nat \ {0} /\ PerSecond \in Nat \ {0} /\ kForceDelay \in Nat /\ MaxSetBack \in Nat /\ MaxTime \in Nat

VARIABLES closer,            \* "list" or "wheel"
          time, setback,     \* the time, and what the clock is behind it
          timerDue,          \* the timer is due
          tcp,               \* for each peer "none", "up", "shut" or "closed"
          heard,             \* history: when something was last received from it
          shutAt,            \* when the server shut its connection down
          quiet,             \* history: for how long it had been silent then
          lastReceiveTime,   \* EchoServer: in the Node of the connection
          connectionList,
          connectionBuckets  \* TimeWheel: peers, for the entries of their connections

idleVars == <<closer, time, setback, timerDue, tcp, heard, shutAt, quiet, lastReceiveTime, connectionList, connectionBuckets>>

now == time - setback
Entries(buckets) == UNION Range(buckets)

IdleInit ==
    /\ closer \in {"list", "wheel"} /\ time = 0 /\ setback = 0 /\ timerDue = FALSE
    /\ tcp = [p \in IdlePeers |-> "none"] /\ heard = [p \in IdlePeers |-> 0] /\ shutAt = [p \in IdlePeers |-> 0] /\ quiet = [p \in IdlePeers |-> 0]
    /\ lastReceiveTime = [p \in IdlePeers |-> 0] /\ connectionList = <<>>
    /\ connectionBuckets = [i \in 1 .. idleSeconds |-> {}]

-----------------------------------------------------------------------------
\* The entry of p is put into the newest bucket.
IntoBack(p) == [connectionBuckets EXCEPT ![idleSeconds] = @ \cup {p}]

onConnectionUp(p) ==
    /\ tcp[p] = "none"
    /\ tcp' = [tcp EXCEPT ![p] = "up"] /\ heard' = [heard EXCEPT ![p] = time]
    /\ IF closer = "list"
       THEN /\ connectionList' = Append(connectionList, p)
            /\ lastReceiveTime' = [lastReceiveTime EXCEPT ![p] = now]
            /\ UNCHANGED connectionBuckets
       ELSE connectionBuckets' = IntoBack(p) /\ UNCHANGED <<connectionList, lastReceiveTime>>
    /\ UNCHANGED <<closer, time, setback, timerDue, shutAt, quiet>>

\* The list without the connection, which its Node has the position of.
OffList(p) == RemoveAt(connectionList, CHOOSE i \in DOMAIN connectionList : connectionList[i] = p)

\* The peer closes, or forceCloseWithDelay does.
onConnectionDown(p) ==
    /\ tcp[p] \in {"up", "shut"}
    /\ tcp' = [tcp EXCEPT ![p] = "closed"]
    /\ connectionList' = IF closer = "list" THEN OffList(p) ELSE connectionList
    /\ UNCHANGED <<closer, time, setback, timerDue, heard, shutAt, quiet, lastReceiveTime, connectionBuckets>>

\* Mutant: the time is kept but the connection stays where it is.
StaysInPlace(p) == connectionList

\* splice to the end of the list.
Spliced(p) == Append(OffList(p), p)

\* A message, also from a peer the server has shut down: the list moves it,
\* the wheel only as long as the entry exists.
onIdleMessage(p) ==
    /\ tcp[p] \in {"up", "shut"}
    /\ heard' = [heard EXCEPT ![p] = time]
    /\ IF closer = "list"
       THEN /\ lastReceiveTime' = [lastReceiveTime EXCEPT ![p] = now]
            /\ connectionList' = Spliced(p)
            /\ UNCHANGED connectionBuckets
       ELSE /\ connectionBuckets' = IF p \in Entries(connectionBuckets) THEN IntoBack(p) ELSE connectionBuckets
            /\ UNCHANGED <<connectionList, lastReceiveTime>>
    /\ UNCHANGED <<closer, time, setback, timerDue, tcp, shutAt, quiet>>

Shutdown(ps) ==
    LET open == {p \in ps : tcp[p] = "up"}
    IN  /\ tcp' = [p \in IdlePeers |-> IF p \in open THEN "shut" ELSE tcp[p]]
        /\ shutAt' = [p \in IdlePeers |-> IF p \in open THEN time ELSE shutAt[p]]
        /\ quiet' = [p \in IdlePeers |-> IF p \in open THEN time - heard[p] ELSE quiet[p]]

\* EchoServer::onTimer goes through the list up to the first connection that
\* is not old enough; a time in the future is replaced.
Age(p) == now - lastReceiveTime[p]
onTimerList ==
    LET Young(i) == Age(connectionList[i]) \in 0 .. idleSeconds * PerSecond
        seen == {connectionList[i] : i \in {j \in DOMAIN connectionList : \A k \in 1 .. j : ~Young(k)}}
    IN  /\ timerDue /\ closer = "list" /\ timerDue' = FALSE
        /\ Shutdown({p \in seen : Age(p) > 0})
        /\ lastReceiveTime' = [p \in IdlePeers |-> IF p \in seen /\ Age(p) < 0 THEN now ELSE lastReceiveTime[p]]
        /\ UNCHANGED <<closer, time, setback, heard, connectionList, connectionBuckets>>

\* TimeWheel::onTimer pushes a bucket, which removes the oldest one; an
\* entry in no other bucket ends and shuts its connection down.
onTimerWheel ==
    LET buckets == Append(Tail(connectionBuckets), {})
    IN  /\ timerDue /\ closer = "wheel" /\ timerDue' = FALSE
        /\ connectionBuckets' = buckets
        /\ Shutdown(Entries(connectionBuckets) \ Entries(buckets))
        /\ UNCHANGED <<closer, time, setback, heard, lastReceiveTime, connectionList>>

\* Time goes on; the delayed close of the list comes before the next step.
Forced(p) == closer = "list" /\ tcp[p] = "shut" /\ time - shutAt[p] >= kForceDelay
Pass ==
    /\ time < MaxTime /\ ~timerDue /\ ~\E p \in IdlePeers : Forced(p)
    /\ time' = time + 1 /\ timerDue' = ((time + 1) % PerSecond = 0)
    /\ UNCHANGED <<closer, setback, tcp, heard, shutAt, quiet, lastReceiveTime, connectionList, connectionBuckets>>

SetBack(n) ==
    /\ setback = 0 /\ setback' = n
    /\ UNCHANGED <<closer, time, timerDue, tcp, heard, shutAt, quiet, lastReceiveTime, connectionList, connectionBuckets>>

IdleNext ==
    \/ \E p \in IdlePeers : onConnectionUp(p) \/ onConnectionDown(p) \/ onIdleMessage(p)
    \/ onTimerList \/ onTimerWheel \/ Pass
    \/ \E n \in 1 .. MaxSetBack : SetBack(n)

IdleSpec == IdleInit /\ [][IdleNext]_idleVars

-----------------------------------------------------------------------------
Silence(p) == time - heard[p]
Most == (IF closer = "list" THEN idleSeconds + 1 ELSE idleSeconds) * PerSecond
Fewest == (IF closer = "list" THEN idleSeconds ELSE idleSeconds - 1) * PerSecond

(* A connection is shut down in the second in which its time has run out,  *)
(* never while its peer is active, and the list is left by every           *)
(* connection that ends; a clock that is set back delays a shutdown, by    *)
(* no more than it was set back, and causes none (onTimer, onMessage).     *)
IdleEnded ==
    /\ \A p \in IdlePeers : tcp[p] = "up" /\ ~timerDue => Silence(p) <= Most + setback
    /\ \A p \in IdlePeers : tcp[p] = "shut" => quiet[p] >= Fewest
    /\ closer = "list" => /\ Range(connectionList) = {p \in IdlePeers : tcp[p] \in {"up", "shut"}}
                          /\ Len(connectionList) = Cardinality(Range(connectionList))
=============================================================================
