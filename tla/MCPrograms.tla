------------------------------ MODULE MCPrograms ------------------------------
(***************************************************************************)
(* The network programs, each explored for itself: a behaviour is one of   *)
(* the program it starts with.                                             *)
(***************************************************************************)
EXTENDS Memcached, RedLock, WebSocket, Rpc, Tunnel, MapReduce, Idle, TLC

VARIABLE program

programVars == <<program, memVars, lockVars, httpVars, webVars, rpcVars, tunnelVars, countVars, mapReduceVars, idleVars>>

\* Memcached: one client that stores, reads and swaps, one that interferes.
Cmd(op) == [op |-> op, keys |-> <<"k">>, bytes |-> 1, data |-> <<Byte>>, cas |-> 0, noreply |-> FALSE]
NoReply(r) == [r EXCEPT !.noreply = TRUE]
MCCommands ==
    1 :> {NoReply(Cmd("set")), Cmd("cas"), [Cmd("gets") EXCEPT !.keys = <<"k", "l">>]} @@
    2 :> {Cmd(op) : op \in {"append", "delete", "malformed", "version", "endless", "quit", "shutdown"}}
         \cup {NoReply(Cmd("replace")), NoReply([Cmd("prepend") EXCEPT !.bytes = 0]),
               [Cmd("add") EXCEPT !.bytes = 2, !.data = <<Byte, Byte>>]}
MCMaxRequests == 1 :> 3 @@ 2 :> 1

MCTtl == [c \in Lockers |-> IF c = "a" THEN 3 ELSE 2]
MCRounds == [c \in Lockers |-> IF c = "a" THEN 1 ELSE 2]

MCHttpRequests ==
    [method : {"kGet"}, version : {"kHttp11", "kHttp10", "other"}, connection : {"", "close"}, body : {0}]
    \cup [method : {"kPost"}, version : {"kHttp11"}, connection : {"Keep-Alive"}, body : {0, 2}]
    \cup [method : {"kInvalid"}, version : {"kHttp11"}, connection : {""}, body : {0}]
MCHandshakes == [method : {"kGet", "kPost"}, key : BOOLEAN]
MCFrames ==
    [fin : BOOLEAN, opcode : {"TEXT_FRAME", "CONTINUATION_FRAME", "PING_FRAME"}, masked : {TRUE}, len : {1}]
    \cup [fin : {TRUE}, opcode : {"BINARY_FRAME"}, masked : {FALSE}, len : {0}]

\* Word counts: one file with up to four words, or two.
MCTexts == {<<>>} \cup {<<t>> : t \in UNION {[1 .. n -> 1 .. 3] : n \in 0 .. 4}}
           \cup {<<t, u>> : t \in UNION {[1 .. n -> 1 .. 3] : n \in 2 .. 3}, u \in {<<3, 1>>, <<2, 1, 2>>}}
MCHash == 1 :> 1 @@ 2 :> 2 @@ 3 :> 1
MCWork == "a" :> <<3, 1, 3>> @@ "b" :> <<2, NoTab>>
MCOther == <<2, 2, 4>>

MCRpcFate == [c \in RpcCalls |-> IF c = 3 THEN "NO_METHOD" ELSE "NO_ERROR"]

Init == /\ program \in {"memcached", "redlock", "http", "websocket", "rpc", "tunnel", "wordcount", "mapreduce", "idle"}
        /\ MemInit /\ LockInit /\ HttpInit /\ WebInit /\ RpcInit /\ MapReduceInit
        /\ TunnelInit /\ (program # "tunnel" => service = "relay")
        /\ CountInit /\ (program # "wordcount" => texts = <<>> /\ sorter = "mastersort")
        /\ IdleInit /\ (program # "idle" => closer = "list")

Next ==
    /\ UNCHANGED program
    /\ \/ program = "memcached" /\ MemNext
          /\ UNCHANGED <<lockVars, httpVars, webVars, rpcVars, tunnelVars, countVars, mapReduceVars, idleVars>>
       \/ program = "redlock" /\ LockNext
          /\ UNCHANGED <<memVars, httpVars, webVars, rpcVars, tunnelVars, countVars, mapReduceVars, idleVars>>
       \/ program = "http" /\ HttpNext
          /\ UNCHANGED <<memVars, lockVars, webVars, rpcVars, tunnelVars, countVars, mapReduceVars, idleVars>>
       \/ program = "websocket" /\ WebNext
          /\ UNCHANGED <<memVars, lockVars, httpVars, rpcVars, tunnelVars, countVars, mapReduceVars, idleVars>>
       \/ program = "rpc" /\ RpcNext
          /\ UNCHANGED <<memVars, lockVars, httpVars, webVars, tunnelVars, countVars, mapReduceVars, idleVars>>
       \/ program = "tunnel" /\ TunnelNext
          /\ UNCHANGED <<memVars, lockVars, httpVars, webVars, rpcVars, countVars, mapReduceVars, idleVars>>
       \/ program = "wordcount" /\ CountNext
          /\ UNCHANGED <<memVars, lockVars, httpVars, webVars, rpcVars, tunnelVars, mapReduceVars, idleVars>>
       \/ program = "mapreduce" /\ MapReduceNext
          /\ UNCHANGED <<memVars, lockVars, httpVars, webVars, rpcVars, tunnelVars, countVars, idleVars>>
       \/ program = "idle" /\ IdleNext
          /\ UNCHANGED <<memVars, lockVars, httpVars, webVars, rpcVars, tunnelVars, countVars, mapReduceVars>>

Spec == Init /\ [][Next]_programVars
=============================================================================
