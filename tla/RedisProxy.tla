----------------------------- MODULE RedisProxy -----------------------------
(***************************************************************************)
(* One I/O thread of the proxy: ProxySession takes requests from what a    *)
(* client has sent so far, RedisProxy answers them itself or forwards them *)
(* to the nodes, numbers what it forwards and puts the replies, which the  *)
(* nodes give in any order, back into the order of the requests.           *)
(*                                                                         *)
(* The state of a connection is kept under its descriptor, which the next  *)
(* connection gets again.  A client sends items: the line with the number  *)
(* of arguments, the line with the length of one, the argument, or a whole *)
(* inline request.  Part of an item is the same as nothing of it.          *)
(***************************************************************************)
EXTENDS Integers, Sequences, SequencesExt, FiniteSets, FiniteSetsExt

CONSTANTS Fds,            \* descriptors
          Nodes,          \* Redis servers; all of them hold the keys of a slot
          Requests,       \* what a client may send: cmd and args
          NodeOf,         \* the node that serves a key
          MaxConns,       \* bound: connections in a behaviour
          MaxRequests,    \* bound: requests in a behaviour
          MaxFailures     \* bound: lost nodes and error replies

ASSUME ProxyAssumption == /\ NodeOf \in [UNION {Range(r.args) : r \in Requests} -> Nodes]
                          /\ MaxConns \in Nat /\ MaxRequests \in Nat /\ MaxFailures \in Nat

VARIABLES clusterEnabled,
          conn,       \* the connection of each descriptor, 0 when closed
          wire,       \* items on their way to the proxy
          session,    \* threadSessions: the parser of each connection
          px,         \* threadProxySends, -Counts, -Replys, threadCommandReplys
          monitors, subscribers,      \* threadMonitors, threadSubscribeHiredis
          chan,       \* requests sent to each node and not answered
          up,         \* nodes the thread is connected to
          sent,       \* what each connection was sent
          asked, done,\* requests each connection sent, and was served
          clean,      \* connections whose numbering was never disturbed
          conns, requests, failures

proxyVars == <<clusterEnabled, conn, wire, session, px, monitors, subscribers, chan,
               up, sent, asked, done, clean, conns, requests, failures>>

-----------------------------------------------------------------------------
(* initRedisCommand: who answers a command, and whose replies are joined.  *)

Answered == {"subscribe", "pubsub", "monitor"}
AnsweredInCluster ==
    {"cluster", "ping", "keys", "select", "mget", "mset", "dbsize", "flushdb", "del", "debug"}

getRedisCommand(cmd) == \/ cmd \in Answered
                        \/ clusterEnabled /\ cmd \in AnsweredInCluster

findRedisReplyCommand(cmd) == cmd \in {"mget", "mset", "del"}

-----------------------------------------------------------------------------
(* What the proxy keeps for a descriptor.                                  *)

NoProxy == [sends |-> {}, count |-> 0, replys |-> [n \in {} |-> 0], commandReplys |-> <<>>]

\* clearProxy forgets everything; clearCurrentThread leaves the replies.
clearProxy(p) == NoProxy
clearCurrentThread(p) == [NoProxy EXCEPT !.replys = p.replys]

\* insertProxyCount and insertProxySend.
NumberRequest(p) == [p EXCEPT !.count = @ + 1, !.sends = @ \cup {p.count + 1}]

\* map::insert keeps a reply that is there already.
insertProxyReply(p, n, reply) ==
    [p EXCEPT !.replys = [i \in DOMAIN @ \cup {n} |-> IF i \in DOMAIN @ THEN @[i] ELSE reply]]

\* Mutant: the request stays among those sent.
EraseReplyOnly(p, n) == [p EXCEPT !.replys = [i \in DOMAIN @ \ {n} |-> @[i]]]

eraseProxySend(p, n) ==
    [p EXCEPT !.sends = @ \ {n}, !.replys = [i \in DOMAIN @ \ {n} |-> @[i]]]

\* delCallback, msetCallback and mgetCallback make one answer of the replies;
\* an error stands for the rest, after the header and the elements before it.
processCommandReply(replies) ==
    LET bad == {i \in DOMAIN replies : replies[i].error}
        good == IF bad = {} THEN Len(replies) ELSE Min(bad) - 1
        elements == IF replies[1].cmd = "mget" THEN [i \in 1 .. good |-> replies[i].part]
                    ELSE IF bad = {} THEN <<"all">> ELSE <<>>
    IN  [id |-> replies[1].id, elements |-> elements, error |-> bad # {}]

Single(r) == [id |-> r.id, elements |-> <<r.part>>, error |-> r.error]

\* One reply in its turn: written, or kept until its command has them all.
TakeReply(st, n) ==
    LET r == st.p.replys[n]
        joined == Append(st.p.commandReplys, r)
        p == eraseProxySend(st.p, n)
    IN  IF ~ findRedisReplyCommand(r.cmd)
        THEN [p |-> p, out |-> Append(st.out, Single(r))]
        ELSE IF Len(joined) >= r.commandCount
        THEN [p |-> [p EXCEPT !.commandReplys = <<>>],
              out |-> Append(st.out, processCommandReply(joined))]
        ELSE [p |-> [p EXCEPT !.commandReplys = joined], out |-> st.out]

\* Mutant: a reply is written as soon as it comes.
InTurnAtOnce(p, begin) == SetToSortSeq(DOMAIN p.replys, <)

\* The replies that can be written: those without a gap from the oldest
\* request on, when the oldest reply is the one of the oldest request.
InTurn(p, begin) ==
    LET ready == DOMAIN p.replys
        run == {n \in ready : n >= begin /\ begin .. n \subseteq ready}
    IN  IF ready # {} /\ Min(ready) = begin THEN SetToSortSeq(run, <) ELSE <<>>

\* proxyCallback for a reply: what the descriptor keeps, and what is written.
proxyCallback(p, n, reply) ==
    IF n \notin p.sends THEN [p |-> p, out |-> <<>>]
    ELSE LET q == insertProxyReply(p, n, reply)
         IN  FoldLeft(TakeReply, [p |-> q, out |-> <<>>], InTurn(q, Min(p.sends)))

-----------------------------------------------------------------------------
(* ProxySession: the requests in what has arrived.                         *)

\* reset: nothing of a request has been read.
NoRequest == [multibulklen |-> 0, bulklen |-> -1, command |-> "none", commands |-> <<>>,
              argc |-> 0, id |-> 0]

\* processMultibulkBuffer and processInlineBuffer for one more item.  Only the
\* first argument of a forwarded command is kept, its bytes go out as they are.
TakeItem(s, item) ==
    CASE item.kind = "inline" ->
            [s EXCEPT !.command = item.cmd, !.id = item.id, !.commands =
                IF getRedisCommand(item.cmd) THEN item.args
                ELSE SubSeq(item.args, 1, Min({1, Len(item.args)}))]
      [] item.kind = "*" -> [s EXCEPT !.multibulklen = item.n]
      [] item.kind = "$" -> [s EXCEPT !.bulklen = item.n]
      [] item.kind = "bulk" ->
            [s EXCEPT !.bulklen = -1, !.multibulklen = @ - 1, !.argc = @ + 1, !.id = item.id,
                      !.command = IF s.argc = 0 THEN item.arg ELSE @,
                      !.commands = IF s.argc = 1 \/ (s.argc > 1 /\ getRedisCommand(s.command))
                                   THEN Append(@, item.arg) ELSE @]

\* A request as its items.
Bulk(id, arg) == <<[kind |-> "$", n |-> 1], [kind |-> "bulk", arg |-> arg, id |-> id]>>
Encode(id, r) ==
    IF r.inline THEN <<[kind |-> "inline", cmd |-> r.cmd, args |-> r.args, id |-> id]>>
    ELSE <<[kind |-> "*", n |-> 1 + Len(r.args)]>> \o Bulk(id, r.cmd)
         \o FlattenSeq([i \in DOMAIN r.args |-> Bulk(id, r.args[i])])

-----------------------------------------------------------------------------
(* A request is served.  st holds the session, the numbering, what goes to *)
(* the nodes and what was written since the last sendPipe.                 *)

Local(st, elements, error) ==
    [st EXCEPT !.out = Append(@, [id |-> st.s.id, elements |-> elements, error |-> error]),
               !.overtakes = @ \/ st.p.sends # {}]

\* The node of the slot of the key; without a cluster there is one server.
NodeFor(key) == IF clusterEnabled THEN NodeOf[key] ELSE CHOOSE n \in Nodes : TRUE

\* checkCommandToCluster: without the node everything is forgotten, and the
\* client is told at once.
Forward(st, key, part, commandCount) ==
    LET p == NumberRequest(st.p)
        msg == [fd |-> st.fd, conn |-> conn[st.fd], n |-> p.count, id |-> st.s.id, part |-> part,
                cmd |-> st.s.command,
                commandCount |-> IF commandCount = 0 THEN p.count ELSE commandCount]
    IN  IF up[NodeFor(key)]
        THEN [st EXCEPT !.p = p, !.chan[NodeFor(key)] = Append(@, msg)]
        ELSE [Local(st, <<>>, TRUE) EXCEPT !.p = clearProxy(@), !.cleared = TRUE]

\* processCommand: the number of replies to wait for is the request's number.
processCommand(st) ==
    Forward(st, IF st.s.commands = <<>> THEN st.s.command ELSE st.s.commands[1], 1, 0)

\* asyncCommand and msetCommand: one request for every key, or pair.
asyncCommand(st, keys) ==
    FoldLeft(LAMBDA acc, i : Forward(acc, keys[i], i, Len(keys)), st, [i \in DOMAIN keys |-> i])

Firsts(args) == [i \in 1 .. Len(args) \div 2 |-> args[2 * i - 1]]

\* keysCommand, dbsizeCommand, flushdbCommand ask one node after the other and
\* wait; keysCommand puts the header in front of all that is not yet sent.
askNodes(st) ==
    LET down == \E n \in Nodes : ~ up[n]
        answer == Local(st, <<"all">>, down)
    IN  IF st.s.command = "keys" /\ ~ down
        THEN [answer EXCEPT !.overtakes = @ \/ st.out # <<>>] ELSE answer

\* The number of arguments that a handler accepts.
Accepts(cmd, n) ==
    CASE cmd \in {"monitor", "select"} -> n <= 1
      [] cmd \in {"keys"} -> n = 1
      [] cmd \in {"mset"} -> n >= 2 /\ n % 2 = 0
      [] cmd \in {"ping", "dbsize", "flushdb"} -> n = 0
      [] cmd \in {"cluster", "mget", "del"} -> n >= 1
      [] OTHER -> TRUE

\* handleRedisCommand.
handleRedisCommand(st) ==
    LET cmd == st.s.command
        args == st.s.commands
    IN  IF ~ Accepts(cmd, Len(args)) THEN Local(st, <<>>, TRUE)
        ELSE CASE cmd \in {"mget", "del"} -> asyncCommand(st, args)
               [] cmd = "mset" -> asyncCommand(st, Firsts(args))
               [] cmd \in {"keys", "dbsize", "flushdb"} -> askNodes(st)
               [] cmd = "cluster" -> Local(st, <<"all">>, \E n \in Nodes : ~ up[n])
               [] cmd = "monitor" -> [Local(st, <<"all">>, FALSE) EXCEPT !.monitor = TRUE]
               [] cmd = "subscribe" -> [st EXCEPT !.subscribe = TRUE]
               [] OTHER -> Local(st, <<"all">>, FALSE)

\* Mutant: reset leaves the arguments of the last request.
ServeKeepsArguments(st) ==
    LET r == IF getRedisCommand(st.s.command) THEN handleRedisCommand(st) ELSE processCommand(st)
    IN  [r EXCEPT !.s = [NoRequest EXCEPT !.commands = st.s.commands],
                  !.served = Append(@, [id |-> st.s.id, cmd |-> st.s.command,
                                        args |-> st.s.commands])]

\* Serves the request and resets the session.
Serve(st) ==
    LET r == IF getRedisCommand(st.s.command) THEN handleRedisCommand(st) ELSE processCommand(st)
    IN  [r EXCEPT !.s = NoRequest,
                  !.served = Append(@, [id |-> st.s.id, cmd |-> st.s.command,
                                        args |-> st.s.commands])]

\* proxyReadCallback: item after item, a request is served when it is whole.
proxyReadCallback(st, items) ==
    FoldLeft(LAMBDA acc, item :
                LET s == TakeItem(acc.s, item)
                    next == [acc EXCEPT !.s = s]
                IN  IF item.kind \in {"inline", "bulk"} /\ s.multibulklen = 0
                    THEN Serve(next) ELSE next,
             st, items)

-----------------------------------------------------------------------------
ProxyInit ==
    /\ clusterEnabled \in BOOLEAN
    /\ conn = [f \in Fds |-> 0]
    /\ wire = [f \in Fds |-> <<>>]
    /\ session = [f \in Fds |-> NoRequest]
    /\ px = [f \in Fds |-> NoProxy]
    /\ monitors = {} /\ subscribers = {}
    /\ chan = [n \in Nodes |-> <<>>]
    /\ up = [n \in Nodes |-> TRUE]
    /\ sent = [c \in 1 .. MaxConns |-> <<>>]
    /\ asked = [c \in 1 .. MaxConns |-> <<>>]
    /\ done = [c \in 1 .. MaxConns |-> <<>>]
    /\ clean = [c \in 1 .. MaxConns |-> TRUE]
    /\ conns = 0 /\ requests = 0 /\ failures = 0

\* proxyConnCallback for a new connection: a session, nothing else is set up.
Connect(f) ==
    /\ conn[f] = 0 /\ conns < MaxConns
    /\ conns' = conns + 1
    /\ conn' = [conn EXCEPT ![f] = conns + 1]
    /\ session' = [session EXCEPT ![f] = NoRequest]
    /\ wire' = [wire EXCEPT ![f] = <<>>]
    /\ clean' = [clean EXCEPT ![conns + 1] =
                    px[f].sends = {} /\ px[f].replys = NoProxy.replys
                    /\ px[f].commandReplys = <<>>]
    /\ UNCHANGED <<clusterEnabled, px, monitors, subscribers, chan, up, sent, asked, done,
                   requests, failures>>

\* proxyConnCallback for a closed one: the numbering of the descriptor stays.
Disconnect(f) ==
    /\ conn[f] # 0
    /\ conn' = [conn EXCEPT ![f] = 0]
    /\ monitors' = monitors \ {f}
    /\ subscribers' = subscribers \ {f}
    /\ UNCHANGED <<clusterEnabled, session, wire, px, chan, up, sent, asked, done, clean,
                   conns, requests, failures>>

\* The client sends a request.
Send(f, r) ==
    /\ conn[f] # 0 /\ requests < MaxRequests
    /\ requests' = requests + 1
    /\ wire' = [wire EXCEPT ![f] = @ \o Encode(requests + 1, r)]
    /\ asked' = [asked EXCEPT ![conn[f]] = Append(@, [id |-> requests + 1, r |-> r])]
    /\ UNCHANGED <<clusterEnabled, conn, session, px, monitors, subscribers, chan, up, sent,
                   done, clean, conns, failures>>

\* Some of it arrives.
Receive(f, k) ==
    LET c == conn[f]
        st == proxyReadCallback([fd |-> f, s |-> session[f], p |-> px[f], chan |-> chan,
                                 out |-> <<>>, served |-> <<>>, overtakes |-> FALSE,
                                 cleared |-> FALSE, monitor |-> FALSE, subscribe |-> FALSE],
                                SubSeq(wire[f], 1, k))
    IN  /\ c # 0 /\ k <= Len(wire[f])
        /\ wire' = [wire EXCEPT ![f] = SubSeq(@, k + 1, Len(@))]
        /\ session' = [session EXCEPT ![f] = st.s]
        /\ px' = [px EXCEPT ![f] = st.p]
        /\ chan' = st.chan
        /\ sent' = [sent EXCEPT ![c] = @ \o st.out]
        /\ done' = [done EXCEPT ![c] = @ \o st.served]
        /\ clean' = [clean EXCEPT ![c] = @ /\ ~ st.overtakes /\ ~ st.cleared]
        /\ monitors' = IF st.monitor THEN monitors \cup {f} ELSE monitors
        /\ subscribers' = IF st.subscribe THEN subscribers \cup {f} ELSE subscribers
        /\ UNCHANGED <<clusterEnabled, conn, up, asked, conns, requests, failures>>

\* A node answers its oldest request, perhaps with an error.  The connection
\* may be gone, and its descriptor be another's.
Reply(n, error) ==
    LET m == Head(chan[n])
        r == [id |-> m.id, part |-> m.part, cmd |-> m.cmd, error |-> error,
              commandCount |-> m.commandCount]
        st == proxyCallback(px[m.fd], m.n, r)
        alive == conn[m.fd] = m.conn
    IN  /\ chan[n] # <<>>
        /\ error => failures < MaxFailures
        /\ failures' = IF error THEN failures + 1 ELSE failures
        /\ chan' = [chan EXCEPT ![n] = Tail(@)]
        /\ px' = IF alive THEN [px EXCEPT ![m.fd] = st.p] ELSE px
        /\ sent' = IF alive THEN [sent EXCEPT ![m.conn] = @ \o st.out] ELSE sent
        /\ UNCHANGED <<clusterEnabled, conn, wire, session, monitors, subscribers, up, asked,
                       done, clean, conns, requests>>

\* redisDisconnCallback: a node is lost, and with it what it was asked.
NodeDown(n) ==
    /\ up[n] /\ failures < MaxFailures
    /\ failures' = failures + 1
    /\ up' = [up EXCEPT ![n] = FALSE]
    /\ chan' = [chan EXCEPT ![n] = <<>>]
    /\ px' = [f \in Fds |-> clearCurrentThread(px[f])]
    /\ clean' = [c \in DOMAIN clean |-> clean[c] /\ \A f \in Fds : conn[f] # c]
    /\ UNCHANGED <<clusterEnabled, conn, wire, session, monitors, subscribers, sent, asked,
                   done, conns, requests>>

NodeUp(n) ==
    /\ ~ up[n]
    /\ up' = [up EXCEPT ![n] = TRUE]
    /\ UNCHANGED <<clusterEnabled, conn, wire, session, px, monitors, subscribers, chan, sent,
                   asked, done, clean, conns, requests, failures>>

ProxyNext ==
    \/ \E f \in Fds : \/ Connect(f) \/ Disconnect(f)
                      \/ \E r \in Requests : Send(f, r)
                      \/ \E k \in 1 .. Len(wire[f]) : Receive(f, k)
    \/ \E n \in Nodes : Reply(n, FALSE) \/ Reply(n, TRUE) \/ NodeDown(n) \/ NodeUp(n)

ProxySpec == ProxyInit /\ [][ProxyNext]_proxyVars
-----------------------------------------------------------------------------
\* The requests that were served and get one answer.
Owed(c) == SelectSeq(done[c], LAMBDA r : r.cmd # "subscribe")

\* The requests the proxy waits for the right number of replies of: outside
\* cluster mode it takes the number of the request for that number.
Counted(c) == clusterEnabled \/ \A i \in DOMAIN asked[c] : ~ findRedisReplyCommand(asked[c][i].r.cmd)

Undisturbed(c) == clean[c] /\ Counted(c)

\* The answers come in the order of the requests, each once and none made of
\* the replies to another, however the nodes interleave: for a connection that
\* no local answer overtook, whose descriptor carried no older requests and
\* whose numbering was not forgotten.
RepliesInOrder ==
    \A c \in DOMAIN sent : Undisturbed(c) =>
        /\ Len(sent[c]) <= Len(Owed(c))
        /\ \A i \in DOMAIN sent[c] :
              /\ sent[c][i].id = Owed(c)[i].id
              /\ ~ sent[c][i].error /\ Owed(c)[i].cmd = "mget" =>
                    sent[c][i].elements = [j \in DOMAIN Owed(c)[i].args |-> j]

\* No answer is lost: when the nodes owe nothing, all that was served was
\* answered, and nothing waits under the descriptor.
NothingStuck ==
    \A f \in Fds : LET c == conn[f] IN
        c # 0 /\ Undisturbed(c) /\ (\A n \in Nodes : \A i \in DOMAIN chan[n] : chan[n][i].conn # c)
            => /\ Len(sent[c]) = Len(Owed(c))
               /\ px[f].sends = {} /\ px[f].commandReplys = <<>>

\* However the bytes are cut, the requests that are served are those that were
\* sent, in their order, with the arguments the handlers use; and the tables
\* of monitors and subscribers hold open connections only.
FramingExact ==
    /\ \A c \in DOMAIN done :
        /\ Len(done[c]) <= Len(asked[c])
        /\ \A i \in DOMAIN done[c] :
              /\ done[c][i].cmd = asked[c][i].r.cmd
              /\ IsPrefix(done[c][i].args, asked[c][i].r.args)
              /\ getRedisCommand(done[c][i].cmd) => done[c][i].args = asked[c][i].r.args
    /\ \A f \in monitors \cup subscribers : conn[f] # 0
=============================================================================
