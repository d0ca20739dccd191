------------------------------ MODULE MCStorage ------------------------------
(***************************************************************************)
(* The parts of the storage engine that have no state in common, each      *)
(* explored for itself: a behaviour is one of the part it starts with.     *)
(***************************************************************************)
EXTENDS ManifestFormat, Iterators, SkipList, TableCache, Env, TLC

VARIABLE part

partVars == <<part, logVars, manifestVars, iterVars, skipVars, cacheVars, envVars>>

Put(k) == [key |-> k, type |-> kTypeValue]
Delete(k) == [key |-> k, type |-> kTypeDeletion]

\* Keys of which one is a prefix of another; the second batch deletes,
\* overwrites, and goes above all keys of the first.
MCBatches == {<<Put(<<1>>), Put(<<1, 2>>), Put(<<3>>)>>,
              <<Delete(<<1, 2>>), Put(<<3>>), Put(<<4>>)>>}

\* Two databases of one process share an Env, a third has its own; a fourth
\* is in another process.
MCProcessOf == "a" :> "p" @@ "b" :> "p" @@ "c" :> "p" @@ "d" :> "q"
MCEnvOf == "a" :> "e" @@ "b" :> "e" @@ "c" :> "f" @@ "d" :> "g"

MCSlices == {<<>>, <<5, 1>>}

Init == /\ part \in {"log", "manifest", "iterators", "skiplist", "tablecache", "files", "readers", "dblock"}
        /\ LogInit /\ ManifestInit /\ IterInit /\ SkipInit /\ CacheInit /\ EnvInit

Next == /\ UNCHANGED part
        /\ \/ part = "log" /\ LogNext /\ UNCHANGED <<manifestVars, iterVars, skipVars, cacheVars, envVars>>
           \/ part = "manifest" /\ ManifestNext /\ UNCHANGED <<logVars, iterVars, skipVars, cacheVars, envVars>>
           \/ part = "iterators" /\ IterNext /\ UNCHANGED <<logVars, manifestVars, skipVars, cacheVars, envVars>>
           \/ part = "skiplist" /\ SkipNext /\ UNCHANGED <<logVars, manifestVars, iterVars, cacheVars, envVars>>
           \/ part = "tablecache" /\ CacheNext /\ UNCHANGED <<logVars, manifestVars, iterVars, skipVars, envVars>>
           \/ /\ UNCHANGED <<logVars, manifestVars, iterVars, skipVars, cacheVars>>
              /\ \/ part = "files" /\ FileNext /\ UNCHANGED <<readVars, dblockVars>>
                 \/ part = "readers" /\ ReadNext /\ UNCHANGED <<fileVars, dblockVars>>
                 \/ part = "dblock" /\ LockFileNext /\ UNCHANGED <<fileVars, readVars>>

Spec == Init /\ [][Next]_partVars
=============================================================================
