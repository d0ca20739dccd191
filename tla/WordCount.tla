------------------------------ MODULE WordCount ------------------------------
(***************************************************************************)
(* Counting the words of more text than fits into memory: mastersort.cc    *)
(* writes sorted segments, combines them and merges the counts; shareds.cc *)
(* distributes the words over shards by their hash.  A map in memory holds *)
(* at most kMaxSize words and one more.                                    *)
(*                                                                         *)
(* A word is a positive number, a file a sequence of lines [word, count].  *)
(* The heaps give a least or a greatest element, any of several.           *)
(***************************************************************************)
EXTENDS Integers, Sequences, SequencesExt, FiniteSets, FiniteSetsExt, Functions

CONSTANTS kMaxSize,
          Texts,       \* the input files there may be: sequences of files of words
          nbuckets,
          Hash         \* std::hash: the bucket of a word

ASSUME WordCountAssumption == kMaxSize \in Nat /\ nbuckets \in Nat \ {0}

VARIABLES sorter,      \* "mastersort" or "shareds"
          texts,       \* history: the input files
          unread,      \* what is left of them
          stage,       \* input, combine, merge, done
          files,       \* the files of the stage: segments or shards, then counts
          counts,      \* the map in memory
          lastword,    \* combine: the word before
          wordfiles,   \* combine: the count files so far
          result       \* the file "output"

countVars == <<sorter, texts, unread, stage, files, counts, lastword, wordfiles, result>>

Line(w, n) == [word |-> w, count |-> n]
Occurrences(s, w) == Cardinality({i \in DOMAIN s : s[i] = w})
SumOf(lines, w) == SumFunction([i \in DOMAIN lines |-> IF lines[i].word = w THEN lines[i].count ELSE 0])
Nothing == <<>>     \* a map without words

CountInit ==
    /\ sorter \in {"mastersort", "shareds"} /\ texts \in Texts /\ unread = texts
    /\ stage = "input" /\ files = IF sorter = "shareds" THEN [i \in 1 .. nbuckets |-> <<>>] ELSE <<>>
    /\ counts = Nothing /\ lastword = 0 /\ wordfiles = <<>> /\ result = <<>>

-----------------------------------------------------------------------------
\* A std::map is written in the order of the words; what order an
\* unordered_map has makes no difference to readShard.
InWordOrder(m) == SetToSortSeq({Line(w, m[w]) : w \in DOMAIN m}, LAMBDA a, b : a.word < b.word)

\* The pairs (count, word) are sorted and written from the back.
InCountOrder(m) ==
    SetToSortSeq({Line(w, m[w]) : w \in DOMAIN m},
                 LAMBDA a, b : a.count > b.count \/ (a.count = b.count /\ a.word > b.word))

\* How many words a round reads: up to the first one too many.
TooMany(text) == {n \in DOMAIN text : Cardinality(Range(SubSeq(text, 1, n))) > kMaxSize}
RoundEnd(text) == IF TooMany(text) = {} THEN Len(text) ELSE Min(TooMany(text))
CountsOf(words) == [w \in Range(words) |-> Occurrences(words, w)]

\* Sharder::output for every word.
Sharded(m, shards) == [i \in DOMAIN shards |-> shards[i] \o SelectSeq(InWordOrder(m), LAMBDA l : Hash[l.word] = i)]

\* One round of input or shard.  A file that ends with a split has another,
\* empty round when white space is left behind its last word.
InputRound(whitespace) ==
    LET text == Head(unread)
        n == RoundEnd(text)
        m == CountsOf(SubSeq(text, 1, n))
        ends == TooMany(text) = {} \/ (n = Len(text) /\ ~whitespace)
    IN  /\ stage = "input" /\ unread # <<>>
        /\ unread' = IF ends THEN Tail(unread) ELSE <<SubSeq(text, n + 1, Len(text))>> \o Tail(unread)
        /\ files' = IF sorter = "mastersort" THEN Append(files, InWordOrder(m)) ELSE Sharded(m, files)
        /\ UNCHANGED <<sorter, texts, stage, counts, lastword, wordfiles, result>>

InputDone ==
    /\ stage = "input" /\ unread = <<>>
    /\ stage' = "combine"
    /\ UNCHANGED <<sorter, texts, unread, files, counts, lastword, wordfiles, result>>

-----------------------------------------------------------------------------
Open == {i \in DOMAIN files : files[i] # <<>>}
Least(i) == \A j \in Open : Head(files[i]).word <= Head(files[j]).word
Greatest(i) == \A j \in Open : Head(files[i]).count >= Head(files[j]).count

\* Mutant: the map is written whenever it is full.
SplitsInWord(w) == Cardinality(DOMAIN counts) > kMaxSize

\* The map is written only between two words.
Splits(w) == w # lastword /\ Cardinality(DOMAIN counts) > kMaxSize

Plus(m, l) == [w \in DOMAIN m \cup {l.word} |-> (IF w \in DOMAIN m THEN m[w] ELSE 0) + (IF w = l.word THEN l.count ELSE 0)]

\* combine: the least word of all segments goes into the map.
Combine(i) ==
    LET l == Head(files[i])
    IN  /\ sorter = "mastersort" /\ stage = "combine" /\ i \in Open /\ Least(i)
        /\ lastword' = l.word
        /\ wordfiles' = IF Splits(l.word) THEN Append(wordfiles, InCountOrder(counts)) ELSE wordfiles
        /\ counts' = Plus(IF Splits(l.word) THEN Nothing ELSE counts, l)
        /\ files' = [files EXCEPT ![i] = Tail(@)]
        /\ UNCHANGED <<sorter, texts, unread, stage, result>>

CombineDone ==
    /\ sorter = "mastersort" /\ stage = "combine" /\ Open = {}
    /\ stage' = "merge" /\ counts' = Nothing /\ wordfiles' = <<>>
    /\ files' = IF counts = Nothing THEN wordfiles ELSE Append(wordfiles, InCountOrder(counts))
    /\ UNCHANGED <<sorter, texts, unread, lastword, result>>

\* sortShareds: readShard adds up each shard, which is then sorted.
readShard(lines) == [w \in {lines[i].word : i \in DOMAIN lines} |-> SumOf(lines, w)]
SortShareds ==
    /\ sorter = "shareds" /\ stage = "combine"
    /\ stage' = "merge" /\ files' = [i \in DOMAIN files |-> InCountOrder(readShard(files[i]))]
    /\ UNCHANGED <<sorter, texts, unread, counts, lastword, wordfiles, result>>

Merge(i) ==
    /\ stage = "merge" /\ i \in Open /\ Greatest(i)
    /\ result' = Append(result, Head(files[i]))
    /\ files' = [files EXCEPT ![i] = Tail(@)]
    /\ UNCHANGED <<sorter, texts, unread, stage, counts, lastword, wordfiles>>

MergeDone ==
    /\ stage = "merge" /\ Open = {} /\ stage' = "done"
    /\ UNCHANGED <<sorter, texts, unread, files, counts, lastword, wordfiles, result>>

CountNext ==
    \/ \E whitespace \in BOOLEAN : InputRound(whitespace)
    \/ InputDone \/ CombineDone \/ SortShareds \/ MergeDone
    \/ \E i \in DOMAIN files : Combine(i) \/ Merge(i)

-----------------------------------------------------------------------------
AllWords == UNION {Range(texts[i]) : i \in DOMAIN texts}
Total(w) == SumFunction([i \in DOMAIN texts |-> Occurrences(texts[i], w)])
InFiles(fs, w) == SumFunction([i \in DOMAIN fs |-> SumOf(fs[i], w)])

(* However the text is cut into rounds, segments and shards, no occurrence *)
(* of a word is lost or counted twice on its way through the files, and    *)
(* the output has every word once, with all its occurrences, the most      *)
(* frequent first (mastersort.cc, shareds.cc).                             *)
WordsCounted ==
    /\ \A w \in AllWords :
          Total(w) = SumFunction([i \in DOMAIN unread |-> Occurrences(unread[i], w)]) + InFiles(files, w)
                     + (IF w \in DOMAIN counts THEN counts[w] ELSE 0) + InFiles(wordfiles, w) + SumOf(result, w)
    /\ stage = "done" =>
          /\ Len(result) = Cardinality(AllWords)
          /\ Range(result) = {Line(w, Total(w)) : w \in AllWords}
          /\ \A i, j \in DOMAIN result : i < j => result[i].count >= result[j].count
=============================================================================
