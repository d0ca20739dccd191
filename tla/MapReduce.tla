------------------------------ MODULE MapReduce ------------------------------
(***************************************************************************)
(* Words on their way from map workers to the master, which writes them    *)
(* into a shard when its senders have left, and from the reducers that     *)
(* serve such shards to the program that merges them.                      *)
(*                                                                         *)
(* A word is a positive number and stands for the line "word TAB word";    *)
(* NoTab is a line without a tab, from a sender that is no map worker.     *)
(* TCP is external: it delivers in order and in pieces of any length; a    *)
(* worker that dies takes what was not delivered with it.                  *)
(***************************************************************************)
EXTENDS WordCount

CONSTANTS Senders,
          WorkOf,        \* the words of the file of each sender
          kMaxHashSize,
          OtherShard,    \* the shard of a second reducer
          ChunkLines,    \* lines in 65536 bytes and one more
          topK,
          MaxDeaths      \* bound: workers that die

ASSUME MapReduceAssumption ==
    /\ kMaxHashSize \in Nat /\ ChunkLines \in Nat \ {0} /\ topK \in Nat /\ MaxDeaths \in Nat
    /\ Senders # {} /\ IsFiniteSet(Senders)

VARIABLES work,       \* what each worker has not read of its file
          socket,     \* the bytes on their way from it
          link,       \* "up", "shut" (a FIN is behind the bytes), "died", "down"
          buf,        \* the Buffer of each connection in the master
          senders, masters,
          shard,      \* the lines of the file "shard"; written says whether it is there
          written,
          dead,       \* workers that died
          context,    \* for each reducer the place in its shard where it goes on
          stream,     \* lines on their way to merge
          writing,    \* its output has not all been written yet
          served,     \* "none", "up" or "shut"
          received,   \* history: the lines merge has read from it
          current,    \* merge: the line of each Source, 0 when it has none
          merging,    \* merge: <<what it does, a reducer>>
          output      \* merge: the file "output"

mapVars == <<work, socket, link, buf, senders, masters, shard, written, dead>>
reduceVars == <<context, stream, writing, served, received, current, merging, output>>
mapReduceVars == <<mapVars, reduceVars>>

NoTab == 0
CR == -1
LF == -2
Reducers == 1 .. 2

MapReduceInit ==
    /\ work = WorkOf /\ socket = [s \in Senders |-> <<>>] /\ link = [s \in Senders |-> "up"]
    /\ buf = [s \in Senders |-> <<>>] /\ senders = Cardinality(Senders) /\ masters = <<>>
    /\ shard = <<>> /\ written = FALSE /\ dead = {}
    /\ context = [r \in Reducers |-> 1] /\ stream = [r \in Reducers |-> <<>>] /\ writing = [r \in Reducers |-> FALSE]
    /\ served = [r \in Reducers |-> "none"] /\ received = [r \in Reducers |-> <<>>]
    /\ current = [r \in Reducers |-> 0] /\ merging = <<"connect", 1>> /\ output = <<>>

-----------------------------------------------------------------------------
\* The order of a multimap.
Sorted(s) == SortSeq(s, LAMBDA a, b : a < b)
Bytes(w) == <<w, CR, LF>>

\* One round of processFile: the map is sent when it is full or the file read.
processFile(s) ==
    LET n == IF Len(work[s]) > kMaxHashSize THEN kMaxHashSize + 1 ELSE Len(work[s])
        lines == Sorted(SubSeq(work[s], 1, n))
    IN  /\ link[s] = "up" /\ work[s] # <<>>
        /\ work' = [work EXCEPT ![s] = SubSeq(@, n + 1, Len(@))]
        /\ socket' = [socket EXCEPT ![s] = @ \o FlattenSeq([i \in DOMAIN lines |-> Bytes(lines[i])])]
        /\ UNCHANGED <<link, buf, senders, masters, shard, written, dead>>

disconnectAll(s) ==
    /\ link[s] = "up" /\ work[s] = <<>>
    /\ link' = [link EXCEPT ![s] = "shut"]
    /\ UNCHANGED <<work, socket, buf, senders, masters, shard, written, dead>>

WorkerDies(s, n) ==
    /\ link[s] \in {"up", "shut"} /\ Cardinality(dead) < MaxDeaths /\ dead' = dead \cup {s}
    /\ link' = [link EXCEPT ![s] = "died"]
    /\ socket' = [socket EXCEPT ![s] = SubSeq(@, 1, n)]
    /\ UNCHANGED <<work, buf, senders, masters, shard, written>>

-----------------------------------------------------------------------------
\* Master.
LineEnds(b) == {i \in 2 .. Len(b) : b[i - 1] = CR /\ b[i] = LF}

\* The words of the whole lines of b; lines without a tab are left out.
Words(b) ==
    LET heads == SetToSortSeq({i - 2 : i \in {j \in LineEnds(b) : j > 2 /\ b[j - 2] > NoTab}}, LAMBDA i, j : i < j)
    IN  [k \in DOMAIN heads |-> b[heads[k]]]

\* Mutant: the buffer is emptied although a part of a line is left.
RetrieveAll(b) == <<>>

\* retrieveUntil behind the last whole line.
Retrieved(b) == IF LineEnds(b) = {} THEN b ELSE SubSeq(b, (CHOOSE i \in LineEnds(b) : \A j \in LineEnds(b) : j <= i) + 1, Len(b))

readCallBack(s, n) ==
    LET b == buf[s] \o SubSeq(socket[s], 1, n)
    IN  /\ ~written /\ link[s] # "down" /\ n \in 1 .. Len(socket[s])
        /\ socket' = [socket EXCEPT ![s] = SubSeq(@, n + 1, Len(@))]
        /\ masters' = Sorted(masters \o Words(b))
        /\ buf' = [buf EXCEPT ![s] = Retrieved(b)]
        /\ UNCHANGED <<work, link, senders, shard, written, dead>>

\* The connection has ended; with the last one the shard is written.
connCallBack(s) ==
    /\ ~written /\ link[s] \in {"shut", "died"} /\ socket[s] = <<>>
    /\ link' = [link EXCEPT ![s] = "down"]
    /\ senders' = senders - 1
    /\ IF senders = 1 THEN shard' = masters /\ written' = TRUE ELSE UNCHANGED <<shard, written>>
    /\ UNCHANGED <<work, socket, buf, masters, dead>>

-----------------------------------------------------------------------------
\* reduce.cc.  The shard of the first reducer is the master's.
reduces(r) == IF r = 1 THEN shard ELSE OtherShard

fillBuffer(r) ==
    LET rest == SubSeq(reduces(r), context[r], Len(reduces(r)))
    IN  IF Len(rest) > ChunkLines THEN SubSeq(rest, 1, ChunkLines) ELSE rest
send(r) ==
    /\ stream' = [stream EXCEPT ![r] = @ \o fillBuffer(r)]
    /\ context' = [context EXCEPT ![r] = @ + Len(fillBuffer(r))]
    /\ writing' = [writing EXCEPT ![r] = TRUE]

onReduceConnection(r) ==
    /\ written /\ merging = <<"connect", r>>
    /\ served' = [served EXCEPT ![r] = "up"] /\ merging' = <<"first", r>>
    /\ send(r)
    /\ UNCHANGED <<received, current, output>>

onReduceWritten(r) ==
    /\ writing[r]
    /\ IF context[r] <= Len(reduces(r)) THEN send(r) /\ UNCHANGED served
       ELSE /\ writing' = [writing EXCEPT ![r] = FALSE]
            /\ served' = [served EXCEPT ![r] = "shut"]
            /\ UNCHANGED <<stream, context>>
    /\ UNCHANGED <<received, current, merging, output>>

-----------------------------------------------------------------------------
\* merge.cc.

\* Source::next waits for a line or for the end of the stream.
NextLine(r) ==
    /\ merging[1] \in {"first", "next"} /\ merging[2] = r
    /\ stream[r] # <<>> \/ served[r] = "shut"
    /\ IF stream[r] # <<>>
       THEN /\ current' = [current EXCEPT ![r] = Head(stream[r])]
            /\ received' = [received EXCEPT ![r] = Append(@, Head(stream[r]))]
            /\ stream' = [stream EXCEPT ![r] = Tail(@)]
       ELSE current' = [current EXCEPT ![r] = 0] /\ UNCHANGED <<received, stream>>
    /\ merging' = IF merging[1] = "first" /\ r + 1 \in Reducers THEN <<"connect", r + 1>> ELSE <<"merge", 0>>
    /\ UNCHANGED <<context, writing, served, output>>

\* The source with the greatest line is written, then asked for its next.
MergeSource(r) ==
    /\ merging = <<"merge", 0>> /\ Len(output) < topK
    /\ current[r] # 0 /\ \A q \in Reducers : current[q] <= current[r]
    /\ output' = Append(output, current[r])
    /\ merging' = <<"next", r>>
    /\ UNCHANGED <<context, stream, writing, served, received, current>>

MapReduceNext ==
    \/ /\ \E s \in Senders :
             \/ processFile(s) \/ disconnectAll(s) \/ connCallBack(s)
             \/ \E n \in 0 .. Len(socket[s]) : WorkerDies(s, n) \/ readCallBack(s, n)
       /\ UNCHANGED reduceVars
    \/ (\E r \in Reducers : onReduceConnection(r) \/ onReduceWritten(r) \/ NextLine(r) \/ MergeSource(r)) /\ UNCHANGED mapVars

-----------------------------------------------------------------------------
SentBy(ss, w) == SumFunction([s \in ss |-> Occurrences(WorkOf[s], w)])
TabWords == {w \in UNION {Range(WorkOf[s]) : s \in Senders} : w # NoTab}

(* However the lines are cut on their way, the shard has every word of     *)
(* every worker that finished, as often as it was sent, and at most what   *)
(* the others have sent (Master).                                          *)
ShardComplete ==
    written => \A w \in TabWords :
       /\ Occurrences(shard, w) <= SentBy(Senders, w)
       /\ Occurrences(shard, w) >= SentBy(Senders \ dead, w)

(* A reducer sends its shard in order, each line once, and closes the      *)
(* connection only behind the last one; merge writes lines of the shards,  *)
(* each once, and leaves none out when topK allows it (reduce, merge).     *)
ShardsServed ==
    /\ \A r \in Reducers :
          /\ received[r] \o stream[r] = SubSeq(reduces(r), 1, context[r] - 1)
          /\ served[r] = "shut" => context[r] = Len(reduces(r)) + 1
    /\ \A w \in Range(output) : Occurrences(output, w) <= Occurrences(shard, w) + Occurrences(OtherShard, w)
    /\ merging = <<"merge", 0>> /\ current = [r \in Reducers |-> 0] => Len(output) = Len(shard) + Len(OtherShard)

(* What becomes of the words, in one program or in several.                *)
WordsDelivered == WordsCounted /\ ShardComplete /\ ShardsServed
=============================================================================
