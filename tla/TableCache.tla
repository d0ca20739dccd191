------------------------------ MODULE TableCache ------------------------------
(***************************************************************************)
(* The cache of open tables: threads that look a table up, open it and     *)
(* insert it, the cleanup of their iterators, and the removal of files.    *)
(*                                                                         *)
(* One shard: an entry is the number of its file and the number of its     *)
(* handle, its charge is 1.  LRUCache::mutex makes each call of the cache  *)
(* one step; nothing is held between the calls of FindTable.               *)
(***************************************************************************)
EXTENDS Integers, Sequences, SequencesExt, FiniteSets

CONSTANTS Threads, Files,
          capacity,       \* entries of a shard
          MaxHandles      \* bound: handles ever made

ASSUME TableCacheAssumption == capacity \in Nat \ {0} /\ MaxHandles \in Nat

VARIABLES cached,         \* LRUCache::tables, at most one handle of a file
          lru,            \* LRUCache::lru
          usage,
          handles,        \* handles ever made
          existing,       \* files in the directory
          thread,         \* where each thread is, and the handle it uses
          raced,          \* a table was inserted that another thread had inserted
          failed          \* an assertion has failed: the process is gone

cacheVars == <<cached, lru, usage, handles, existing, thread, raced, failed>>

NoTable == [pc |-> "idle", file |-> 0, handle |-> <<>>]

CacheInit == /\ cached = {} /\ lru = <<>> /\ usage = 0 /\ handles = 0 /\ existing = Files
             /\ thread = [t \in Threads |-> NoTable] /\ raced = FALSE /\ failed = FALSE

Of(S, f) == {h \in S : h.file = f}

\* LRUCache::Lookup: the order of the list stays as it is.
Lookup(t, f) ==
    LET found == Of(cached, f)
    IN  /\ ~ failed /\ thread[t].pc = "idle"
        /\ thread' = [thread EXCEPT ![t] =
              IF found = {} THEN [pc |-> "open", file |-> f, handle |-> <<>>]
              ELSE [pc |-> "use", file |-> f, handle |-> CHOOSE h \in found : TRUE]]
        /\ UNCHANGED <<cached, lru, usage, handles, existing, raced, failed>>

\* NewRandomAccessFile and Table::Open; an error is not cached.
OpenTable(t) ==
    /\ ~ failed /\ thread[t].pc = "open"
    /\ thread' = [thread EXCEPT ![t] = IF thread[t].file \in existing THEN [@ EXCEPT !.pc = "insert"]
                                       ELSE NoTable]
    /\ UNCHANGED <<cached, lru, usage, handles, existing, raced, failed>>

\* Mutant: the table of the entry that makes room stays in the hash table.
InsertKeepsEvicted(t) ==
    LET f == thread[t].file
        e == [file |-> f, number |-> handles]
        entries == IF Of(cached, f) = {} THEN cached \cup {e} ELSE cached
        full == usage + 1 > capacity
        list == IF full THEN Tail(Append(lru, e)) ELSE Append(lru, e)
    IN  /\ ~ failed /\ thread[t].pc = "insert" /\ handles < MaxHandles
        /\ handles' = handles + 1
        /\ raced' = (raced \/ Of(cached, f) # {})
        /\ cached' = entries /\ lru' = list
        /\ usage' = IF full THEN usage ELSE usage + 1
        /\ failed' = (Cardinality(entries) # Len(list))
        /\ thread' = [thread EXCEPT ![t].pc = "use", ![t].handle = e]
        /\ UNCHANGED existing

\* LRUCache::Insert: an equal key stays, the list gets the handle all the same;
\* when the cache is full the head of the list goes, one at a time.
Insert(t) ==
    LET f == thread[t].file
        e == [file |-> f, number |-> handles]
        entries == IF Of(cached, f) = {} THEN cached \cup {e} ELSE cached
        full == usage + 1 > capacity
        list == IF full THEN Tail(Append(lru, e)) ELSE Append(lru, e)
        gone == IF full THEN Of(entries, Append(lru, e)[1].file) ELSE {}
    IN  /\ ~ failed /\ thread[t].pc = "insert" /\ handles < MaxHandles
        /\ handles' = handles + 1
        /\ raced' = (raced \/ Of(cached, f) # {})
        /\ cached' = entries \ gone /\ lru' = list
        /\ usage' = IF full THEN usage ELSE usage + 1
        /\ failed' = (Cardinality(cached) # Len(lru) \/ Cardinality(entries) # Len(lru) + 1)
        /\ thread' = [thread EXCEPT ![t].pc = "use", ![t].handle = e]
        /\ UNCHANGED existing

\* Release and Erase both take out the first entry of the key, whoever uses it.
RemoveEntry(f) ==
    LET at == {i \in DOMAIN lru : lru[i].file = f}
        i == CHOOSE j \in at : \A k \in at : j <= k
    IN  /\ failed' = (Cardinality(cached) # Len(lru))
        /\ IF at = {} THEN UNCHANGED <<cached, lru, usage>>
           ELSE /\ lru' = RemoveAt(lru, i)
                /\ cached' = cached \ Of(cached, f)
                /\ usage' = usage - 1

\* A Get is done with the table.
Leave(t) == /\ ~ failed /\ thread[t].pc = "use"
            /\ thread' = [thread EXCEPT ![t] = NoTable]
            /\ UNCHANGED <<cached, lru, usage, handles, existing, raced, failed>>

\* An iterator over the table goes: UnrefEntry.
UnrefEntry(t) == /\ ~ failed /\ thread[t].pc = "use"
                 /\ RemoveEntry(thread[t].file)
                 /\ thread' = [thread EXCEPT ![t] = NoTable]
                 /\ UNCHANGED <<handles, existing, raced>>

\* DeleteObsoleteFiles: evict, and the file is removed.
evict(f) == /\ ~ failed /\ f \in existing
            /\ RemoveEntry(f)
            /\ existing' = existing \ {f}
            /\ UNCHANGED <<handles, thread, raced>>

CacheNext == \/ \E t \in Threads : \/ \E f \in Files : Lookup(t, f)
                                   \/ OpenTable(t) \/ Insert(t) \/ Leave(t) \/ UnrefEntry(t)
             \/ \E f \in Files : evict(f)

CacheSpec == CacheInit /\ [][CacheNext]_cacheVars

-----------------------------------------------------------------------------
\* The hash table and the list hold the same entries, one of a file, usage
\* counts them and stays within the capacity, and a thread reads the table it
\* asked for, whatever the others insert, release or evict meanwhile; the
\* assertions of the cache can fail only when two threads opened one table.
CacheExact ==
    /\ ~ raced => /\ ~ failed
                  /\ cached = Range(lru) /\ usage = Len(lru) /\ usage <= capacity
                  /\ \A g, h \in cached : g.file = h.file => g = h
    /\ \A t \in Threads : thread[t].pc = "use" => thread[t].handle.file = thread[t].file
=============================================================================
