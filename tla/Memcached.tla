------------------------------ MODULE Memcached ------------------------------
(***************************************************************************)
(* The memcached server: sessions that parse a byte stream cut at any      *)
(* place, on several event loops, over one store of items.                 *)
(*                                                                         *)
(* The stream of a client is a sequence of units.  A unit is one byte of a *)
(* value, the text of a command line without its end (a command record),   *)
(* or EOL, the CR and LF at the end of a line or of a value.  Flags, the   *)
(* expiry (stored, never used) and the spelling of lines are left out;     *)
(* keys of more than 250 bytes and numbers that do not parse are the       *)
(* command "malformed".  A command of the client:                          *)
(*   op      its name, or "malformed", "unknown", "empty", "endless"       *)
(*   keys    its keys, one but for get and gets                            *)
(*   bytes   the length the line gives for the value that follows          *)
(*   data    the value that really follows                                 *)
(*   cas, noreply                                                          *)
(***************************************************************************)
EXTENDS Integers, Sequences, SequencesExt, FiniteSets

CONSTANTS Sessions,      \* connections, each on an event loop of its own
          ItemKeys,
          Commands,      \* what the client of each session may send
          MaxValue,      \* the longest value, 1024 * 1024
          MaxRequests    \* bound: commands the client of each session sends

EOL == [op |-> "eol"]
Byte == [op |-> "byte"]
NoItem == [cas |-> -1]
Updates == {"set", "add", "replace", "append", "prepend", "cas"}
Keyed == Updates \cup {"get", "gets", "delete"}

\* A value is no shorter than its line says, and one that is too long for the
\* server is no longer either: the client would be sending something else.
WellFormed(r) ==
    /\ r.op \in Keyed => r.keys # <<>>
    /\ r.op \in Updates => r.bytes <= Len(r.data) /\ (r.bytes > MaxValue => r.bytes = Len(r.data))

ClientCommands ==
    [op : Keyed \cup {"version", "quit", "shutdown", "malformed", "unknown", "empty", "endless"},
     keys : Seq(ItemKeys), bytes : Nat, data : Seq({Byte}), cas : Int, noreply : BOOLEAN]

ASSUME MemcachedAssumption ==
    /\ MaxValue \in Nat /\ MaxRequests \in [Sessions -> Nat]
    /\ \A s \in Sessions : \A r \in Commands[s] : r \in ClientCommands /\ WellFormed(r)

VARIABLES items,     \* the item of each key, over all shards
          nextCas,   \* MemcacheServer::cas
          session,   \* the Connect object of each connection
          wire,      \* what a client has sent and the server has not read
          stopping,  \* MemcacheServer::stop was called; then the loop has quit
          requests,  \* commands each client has sent
          due,       \* for each connection the answers its commands call for
          answers,   \* for each connection the answers sent
          seen,      \* the items shown by gets
          swaps      \* the items replaced by cas, with the identifier asked for

memVars == <<items, nextCas, session, wire, stopping, requests, due, answers, seen, swaps>>

NewSession == [state |-> "kNewCommand", command |-> "", noreply |-> FALSE, policy |-> "kInvalid",
               currItem |-> NoItem, needed |-> 0, bytesToDiscard |-> 0, buf |-> <<>>,
               busy |-> FALSE, keys |-> <<>>, outputBuf |-> <<>>, connected |-> TRUE]

MemInit ==
    /\ items = [k \in ItemKeys |-> NoItem] /\ nextCas = 0
    /\ session = [s \in Sessions |-> NewSession]
    /\ wire = [s \in Sessions |-> <<>>] /\ stopping = "no" /\ requests = [s \in Sessions |-> 0]
    /\ due = [s \in Sessions |-> <<>>] /\ answers = [s \in Sessions |-> <<>>]
    /\ seen = {} /\ swaps = {}

-----------------------------------------------------------------------------
(* The store.  Each call holds the mutex of the key's shard: one step.     *)

\* Mutant: an item that is appended to keeps its identifier.
UpdatedKeepsCas(old, item, policy) ==
    CASE policy = "append"  -> [item EXCEPT !.value = old.value \o @, !.cas = old.cas]
      [] policy = "prepend" -> [item EXCEPT !.value = @ \o old.value, !.cas = old.cas]
      [] OTHER -> [item EXCEPT !.cas = nextCas]

\* The item that storeItem puts in place of the old one.
Updated(old, item, policy) ==
    [item EXCEPT !.cas = nextCas,
                 !.value = CASE policy = "append"  -> old.value \o @
                             [] policy = "prepend" -> @ \o old.value
                             [] OTHER -> @]

Stores(item, policy) ==
    LET old == items[item.key]
        exists == old # NoItem
    IN  \/ policy = "set"
        \/ policy = "add" /\ ~exists
        \/ policy \in {"replace", "append", "prepend"} /\ exists
        \/ policy = "cas" /\ exists /\ old.cas = item.cas

storeItem(item, policy) ==
    IF Stores(item, policy)
    THEN /\ items' = [items EXCEPT ![item.key] = Updated(@, item, policy)]
         /\ nextCas' = nextCas + 1
         /\ swaps' = IF policy = "cas"
                     THEN swaps \cup {[key |-> item.key, cas |-> item.cas, id |-> items[item.key].id]}
                     ELSE swaps
    ELSE UNCHANGED <<items, nextCas, swaps>>

deleteItem(key) == items' = [items EXCEPT ![key] = NoItem]

-----------------------------------------------------------------------------
(* Sessions.                                                               *)

\* Mutant: a value that has come in does not clear noreply.
ResetKeepsNoreply(c) == [c EXCEPT !.command = "", !.policy = "kInvalid", !.currItem = NoItem, !.bytesToDiscard = 0]

resetRequest(c) ==
    [c EXCEPT !.command = "", !.noreply = FALSE, !.policy = "kInvalid", !.currItem = NoItem, !.bytesToDiscard = 0]

\* What the session sends: nothing once the connection is shut down.
Send(s, c, msgs) == answers' = [answers EXCEPT ![s] = IF c.connected THEN @ \o msgs ELSE @]
reply(s, c, msg) == Send(s, c, IF c.noreply THEN <<>> ELSE <<msg>>)

\* The whole line is in the buffer: findCRLF, and the text before it.
Crlf(c) == IF \A i \in DOMAIN c.buf : c.buf[i] # EOL THEN 0
           ELSE CHOOSE i \in DOMAIN c.buf : c.buf[i] = EOL /\ \A j \in 1 .. i - 1 : c.buf[j] # EOL
AfterLine(c) == [c EXCEPT !.buf = SubSeq(@, Crlf(c) + 1, Len(@))]

Unknown == [op |-> "unknown", keys |-> <<>>, bytes |-> 0, data |-> <<>>, cas |-> 0, noreply |-> FALSE]
Empty == [Unknown EXCEPT !.op = "empty"]

\* A line that is one command text parses as that command; bytes of a value
\* that are read as a line are no command.
Parsed(c) ==
    LET line == SubSeq(c.buf, 1, Crlf(c) - 1)
    IN  IF line = <<>> THEN Empty
        ELSE IF Len(line) = 1 /\ Head(line) # Byte THEN Head(line) ELSE Unknown

Reading(s) == stopping # "quit" /\ session[s].busy /\ session[s].keys = <<>>
NewLine(s) == Reading(s) /\ session[s].state = "kNewCommand" /\ Crlf(session[s]) > 0

\* Tells each update from all others; the program keeps nothing like it.
WriteId(s) == <<s, requests[s], Len(session[s].buf) + Len(wire[s])>>

\* doUpdate of a line that is well formed: a value is to follow.
doUpdate(s) ==
    LET c == session[s]
        r == Parsed(c)
        d == [AfterLine(c) EXCEPT !.command = r.op, !.noreply = @ \/ r.noreply, !.policy = r.op]
    IN  /\ NewLine(s) /\ r.op \in Updates
        /\ IF r.bytes > MaxValue
           THEN /\ reply(s, d, "SERVER_ERROR")
                /\ deleteItem(Head(r.keys))
                /\ session' = [session EXCEPT ![s] = [d EXCEPT !.bytesToDiscard = r.bytes + 1,
                                                               !.state = "kDiscardValue"]]
           ELSE /\ session' = [session EXCEPT ![s] =
                       [d EXCEPT !.currItem = [key |-> Head(r.keys), value |-> <<>>, cas |-> r.cas, id |-> WriteId(s)],
                                 !.needed = r.bytes + 1, !.state = "kReceiveValue"]]
                /\ UNCHANGED <<items, answers>>
        /\ UNCHANGED <<nextCas, wire, stopping, requests, due, seen, swaps>>

\* The get of one key after the other; other sessions run in between.
StartGet(s) ==
    LET c == session[s]
        r == Parsed(c)
    IN  /\ NewLine(s) /\ r.op \in {"get", "gets"}
        /\ session' = [session EXCEPT ![s] = [c EXCEPT !.command = r.op, !.noreply = @ \/ r.noreply, !.keys = r.keys]]
        /\ UNCHANGED <<items, nextCas, wire, stopping, requests, due, answers, seen, swaps>>

getItem(s) ==
    LET c == session[s]
        item == items[Head(c.keys)]
        d == [c EXCEPT !.keys = Tail(@), !.outputBuf = IF item = NoItem THEN @ ELSE Append(@, item)]
        last == d.keys = <<>>
    IN  /\ stopping # "quit" /\ c.busy /\ c.keys # <<>>
        /\ session' = [session EXCEPT ![s] = IF last THEN resetRequest([AfterLine(d) EXCEPT !.outputBuf = <<>>]) ELSE d]
        /\ seen' = IF last /\ c.command = "gets" /\ c.connected
                   THEN seen \cup {[key |-> i.key, cas |-> i.cas, id |-> i.id] : i \in ToSet(d.outputBuf)}
                   ELSE seen
        /\ IF last THEN Send(s, c, <<"END">>) ELSE UNCHANGED answers
        /\ UNCHANGED <<items, nextCas, wire, stopping, requests, due, swaps>>

doDelete(s) ==
    LET r == Parsed(session[s])
        d == [session[s] EXCEPT !.noreply = @ \/ r.noreply]
        key == Head(r.keys)
    IN  /\ NewLine(s) /\ r.op = "delete"
        /\ deleteItem(key)
        /\ reply(s, d, IF items[key] = NoItem THEN "NOT_FOUND" ELSE "DELETED")
        /\ session' = [session EXCEPT ![s] = resetRequest(AfterLine(d))]
        /\ UNCHANGED <<nextCas, wire, stopping, requests, due, seen, swaps>>

\* The lines that touch no item.
processRequest(s) ==
    LET r == Parsed(session[s])
        d == [session[s] EXCEPT !.noreply = @ \/ r.noreply]
    IN  /\ NewLine(s) /\ r.op \notin Updates \cup {"get", "gets", "delete"}
        /\ CASE r.op \in {"quit", "shutdown"} -> UNCHANGED answers
             [] r.op = "version"   -> reply(s, d, "VERSION")
             [] r.op = "malformed" -> reply(s, d, "CLIENT_ERROR")
             [] OTHER              -> reply(s, d, "ERROR")
        /\ stopping' = IF r.op = "shutdown" THEN "yes" ELSE stopping
        /\ session' = [session EXCEPT ![s] =
               [resetRequest(AfterLine(d)) EXCEPT !.connected = @ /\ r.op \notin {"quit", "shutdown"}]]
        /\ UNCHANGED <<items, nextCas, wire, requests, due, seen, swaps>>

Endless(units) == \E u \in ToSet(units) : u.op = "endless"

\* The rest of the loop when no whole line is there: a line of more than
\* 1024 bytes ends the connection.
AwaitLine(s) ==
    LET c == session[s]
    IN  /\ Reading(s)
        /\ \/ c.buf = <<>>
           \/ c.state = "kNewCommand" /\ Crlf(c) = 0
        /\ session' = [session EXCEPT ![s] =
               [c EXCEPT !.busy = FALSE,
                         !.connected = @ /\ ~Endless(c.buf)]]
        /\ UNCHANGED <<items, nextCas, wire, stopping, requests, due, answers, seen, swaps>>

Minimum(a, b) == IF a < b THEN a ELSE b

\* What storeItem's result is answered with.
Stored(item, policy) ==
    CASE Stores(item, policy) -> "STORED"
      [] policy = "cas" /\ ~Stores(item, policy) -> IF items[item.key] = NoItem THEN "NOT_FOUND" ELSE "EXISTS"
      [] OTHER -> "NOT_STORED"

receiveValue(s) ==
    LET c == session[s]
        avail == Minimum(Len(c.buf), c.needed)
        got == [c EXCEPT !.currItem.value = @ \o SubSeq(c.buf, 1, avail), !.needed = @ - avail,
                         !.buf = SubSeq(@, avail + 1, Len(@))]
        whole == got.currItem.value
        item == [got.currItem EXCEPT !.value = Front(whole)]
    IN  /\ Reading(s) /\ c.state = "kReceiveValue" /\ c.buf # <<>>
        /\ IF got.needed > 0
           THEN /\ session' = [session EXCEPT ![s] = got]
                /\ UNCHANGED <<items, nextCas, answers, swaps>>
           ELSE /\ session' = [session EXCEPT ![s] = [resetRequest(got) EXCEPT !.state = "kNewCommand"]]
                /\ IF Last(whole) = EOL
                   THEN storeItem(item, c.policy) /\ reply(s, c, Stored(item, c.policy))
                   ELSE reply(s, c, "CLIENT_ERROR") /\ UNCHANGED <<items, nextCas, swaps>>
        /\ UNCHANGED <<wire, stopping, requests, due, seen>>

discardValue(s) ==
    LET c == session[s]
        n == Minimum(Len(c.buf), c.bytesToDiscard)
        d == [c EXCEPT !.bytesToDiscard = @ - n, !.buf = SubSeq(@, n + 1, Len(@))]
    IN  /\ Reading(s) /\ c.state = "kDiscardValue" /\ c.buf # <<>>
        /\ session' = [session EXCEPT ![s] =
               IF d.bytesToDiscard > 0 THEN d ELSE [resetRequest(d) EXCEPT !.state = "kNewCommand"]]
        /\ UNCHANGED <<items, nextCas, wire, stopping, requests, due, answers, seen, swaps>>

-----------------------------------------------------------------------------
(* The clients and the network.                                            *)

Units(r) == <<r>> \o (IF r.op = "endless" THEN <<>> ELSE <<EOL>>)
            \o (IF r.op \in Updates \cup {"malformed"} THEN r.data \o <<EOL>> ELSE <<>>)

\* The answers that a command calls for, each as the set of what it may be.
Due(r) ==
    LET answered(a) == IF r.noreply THEN <<>> ELSE <<a>>
        stored == CASE r.op = "set" -> {"STORED"}
                    [] r.op = "cas" -> {"STORED", "EXISTS", "NOT_FOUND"}
                    [] OTHER -> {"STORED", "NOT_STORED"}
    IN  CASE r.op \in {"quit", "shutdown", "endless"} -> <<>>
          [] r.op \in {"get", "gets"} -> <<{"END"}>>
          [] r.op = "version" -> answered({"VERSION"})
          [] r.op = "delete" -> answered({"DELETED", "NOT_FOUND"})
          [] r.op \in {"unknown", "empty"} -> answered({"ERROR"})
          [] r.op = "malformed" -> answered({"CLIENT_ERROR"}) \o <<{"ERROR"}>>
          [] r.op \in Updates ->
                IF r.bytes > MaxValue THEN answered({"SERVER_ERROR"})
                ELSE IF r.bytes < Len(r.data) THEN answered({"CLIENT_ERROR"}) \o <<{"ERROR"}>>
                ELSE answered(stored)

\* A client sends a command, without waiting for earlier answers; nothing
\* follows a line without end.
Request(s, r) ==
    /\ ~Endless(session[s].buf \o wire[s])
    /\ stopping = "no" /\ requests[s] < MaxRequests[s] /\ session[s].connected
    /\ requests' = [requests EXCEPT ![s] = @ + 1]
    /\ wire' = [wire EXCEPT ![s] = @ \o Units(r)]
    /\ due' = [due EXCEPT ![s] = @ \o Due(r)]
    /\ UNCHANGED <<items, nextCas, session, stopping, answers, seen, swaps>>

\* onMessage is called with what one read has brought.
onMessage(s, n) ==
    /\ stopping # "quit" /\ ~session[s].busy /\ n \in 1 .. Len(wire[s])
    /\ session' = [session EXCEPT ![s].buf = @ \o SubSeq(wire[s], 1, n), ![s].busy = TRUE]
    /\ wire' = [wire EXCEPT ![s] = SubSeq(@, n + 1, Len(@))]
    /\ UNCHANGED <<items, nextCas, stopping, requests, due, answers, seen, swaps>>

\* A connection goes down and a new one takes its place.
onConnection(s) ==
    /\ stopping # "quit" /\ ~session[s].busy /\ session[s] # NewSession
    /\ session' = [session EXCEPT ![s] = NewSession]
    /\ wire' = [wire EXCEPT ![s] = <<>>]
    /\ due' = [due EXCEPT ![s] = <<>>] /\ answers' = [answers EXCEPT ![s] = <<>>]
    /\ UNCHANGED <<items, nextCas, stopping, requests, seen, swaps>>

\* The timer that stop() sets: the event loop quits.
quit == /\ stopping = "yes" /\ stopping' = "quit"
        /\ UNCHANGED <<items, nextCas, session, wire, requests, due, answers, seen, swaps>>

MemNext ==
    \/ quit
    \/ \E s \in Sessions :
          \/ \E r \in Commands[s] : Request(s, r)
          \/ \E n \in {1, Len(wire[s])} : onMessage(s, n)
          \/ onConnection(s) \/ AwaitLine(s)
          \/ doUpdate(s) \/ StartGet(s) \/ getItem(s) \/ doDelete(s) \/ processRequest(s)
          \/ receiveValue(s) \/ discardValue(s)

MemSpec == MemInit /\ [][MemNext]_memVars

-----------------------------------------------------------------------------
(* However the stream is cut and whatever the other sessions do, every     *)
(* command is answered once, in its turn and with an answer of its kind;   *)
(* no answer is for bytes of a value, and a session that has read all it   *)
(* was sent owes nothing (Connect::onMessage and what it calls).           *)
AnswersInTurn ==
    \A s \in Sessions :
       /\ Len(answers[s]) <= Len(due[s])
       /\ \A i \in DOMAIN answers[s] : answers[s][i] \in due[s][i]
       /\ wire[s] = <<>> /\ ~session[s].busy /\ session[s].connected => Len(answers[s]) = Len(due[s])

(* A cas that succeeds replaces the very item that a gets showed under     *)
(* that identifier, whoever stored, appended or deleted in between.        *)
CasReplacesSeen ==
    \A w \in swaps : \A g \in seen : w.key = g.key /\ w.cas = g.cas => w.id = g.id

(* Both together: what a client of the server relies on.                   *)
MemcachedCorrect == AnswersInTurn /\ CasReplacesSeen
=============================================================================
