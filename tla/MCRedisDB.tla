------------------------------ MODULE MCRedisDB ------------------------------
(* RedisDB for TLC: two threads, which are alike, and two keys. *)
EXTENDS RedisDB, TLC

CONSTANTS t1, t2
ThreadSymmetry == Permutations(Threads)
LowestScore == -100
CallBound == [strings |-> 3, mset |-> 3, hash |-> 4, set |-> 4, list |-> 4,
              zset |-> 4, facade |-> 4]
==============================================================================
