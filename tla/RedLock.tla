------------------------------- MODULE RedLock -------------------------------
(***************************************************************************)
(* RedLock: clients that lock one resource on a quorum of Redis servers.   *)
(*                                                                         *)
(* lock() frees the value after its first round, and lock.val points to    *)
(* the same bytes: from then on the client sends what it finds there, its  *)
(* own value still or rubbish.  n, the number of servers that agreed, is   *)
(* never set back.  Servers are external: SET NX PX and the unlock script, *)
(* whose request or answer may be lost.  Time is counted in ticks, of      *)
(* which the drift is one; what is kept is how long ago a round began and  *)
(* how long a value or a lock still lasts.                                 *)
(***************************************************************************)
EXTENDS Integers, FiniteSets

CONSTANTS Lockers,      \* calls of lock, each with the unique value it makes
          NumServers,
          ttl,          \* what each call asks for
          Rounds        \* bound: the rounds of each call, retryCount in the code

ASSUME RedLockAssumption ==
    /\ NumServers \in Nat \ {0} /\ ttl \in [Lockers -> Nat \ {0}] /\ Rounds \in [Lockers -> Nat \ {0}]

Servers == 1 .. NumServers

Rubbish == "rubbish"    \* the bytes of a freed string, the same for all
Free == "free"
drift == 1

ASSUME UniqueValues == Rubbish \notin Lockers /\ Free \notin Lockers

VARIABLES store,    \* for each server the value of the resource and the time it is still kept
          locker    \* for each call of lock how far it is, and the lock it got

lockVars == <<store, locker>>

NotLocking == [pc |-> "idle", round |-> 0, n |-> 0, i |-> 0, elapsed |-> 0, freed |-> FALSE, left |-> 0]

LockInit ==
    /\ store = [s \in Servers |-> [val |-> Free, left |-> 0]]
    /\ locker = [c \in Lockers |-> NotLocking]

Less(n) == IF n = 0 THEN 0 ELSE n - 1

\* Values expire; a round counts its time, until no validity is left.
Tick ==
    /\ store' = [s \in Servers |-> IF store[s].left <= 1 THEN [val |-> Free, left |-> 0]
                                   ELSE [store[s] EXCEPT !.left = @ - 1]]
    /\ locker' = [c \in Lockers |-> [locker[c] EXCEPT !.left = Less(@),
                                         !.elapsed = IF locker[c].pc = "lock" /\ @ < ttl[c] - drift THEN @ + 1 ELSE @]]

\* Mutant: half of the servers are taken to be enough.
HalfOfServers == NumServers \div 2

\* Set when a server is added (syncAddServerUrl).
quoRum == NumServers \div 2 + 1

Holds(s, val) == store[s].val = val
Taken(s) == store[s].val # Free

\* The bytes that val and lock.val point to.
Values(c) == IF locker[c].freed THEN {c, Rubbish} ELSE {c}

\* lock: a unique value, and the first round.
StartLock(c) ==
    /\ locker[c].pc = "idle"
    /\ locker' = [locker EXCEPT ![c] = [NotLocking EXCEPT !.pc = "lock", !.round = 1, !.i = 1]]
    /\ UNCHANGED store

\* lockInstance on the next server.  A call that fails may have reached the
\* server.
lockInstance(c, val, reached, answered) ==
    LET s == locker[c].i
        sets == reached /\ ~Taken(s)
    IN  /\ locker[c].pc = "lock" /\ s \in Servers /\ val \in Values(c) /\ (answered => reached)
        /\ store' = IF sets THEN [store EXCEPT ![s] = [val |-> val, left |-> ttl[c]]] ELSE store
        /\ locker' = [locker EXCEPT ![c].i = @ + 1, ![c].n = IF sets /\ answered THEN @ + 1 ELSE @]

\* The end of a round: the value is freed, and the lock is had or undone.
FinishRound(c) ==
    LET validityTime == ttl[c] - locker[c].elapsed - drift
        had == locker[c].n >= quoRum /\ validityTime > 0
    IN  /\ locker[c].pc = "lock" /\ locker[c].i \notin Servers
        /\ locker' = [locker EXCEPT ![c].freed = TRUE, ![c].i = 1,
                                    ![c].pc = IF had THEN "held" ELSE "undo",
                                    ![c].left = IF had THEN validityTime ELSE 0, ![c].elapsed = 0]
        /\ UNCHANGED store

\* unlock, called by the holder at any time after lock has returned.
StartUnlock(c) ==
    /\ locker[c].pc = "held"
    /\ locker' = [locker EXCEPT ![c].pc = "unlock", ![c].left = 0, ![c].n = 0]
    /\ UNCHANGED store

\* unlockInstance on the next server: the script deletes the value it is
\* given and no other.
unlockInstance(c, val, reached) ==
    LET s == locker[c].i
    IN  /\ locker[c].pc \in {"undo", "unlock"} /\ s \in Servers /\ val \in Values(c)
        /\ store' = IF reached /\ Holds(s, val) THEN [store EXCEPT ![s] = [val |-> Free, left |-> 0]] ELSE store
        /\ locker' = [locker EXCEPT ![c].i = @ + 1]

\* After the servers: the next round, or lock returns false; unlock returns.
FinishUnlock(c) ==
    /\ locker[c].pc \in {"undo", "unlock"} /\ locker[c].i \notin Servers
    /\ locker' = [locker EXCEPT ![c] =
           IF locker[c].pc = "undo" /\ locker[c].round < Rounds[c]
           THEN [locker[c] EXCEPT !.pc = "lock", !.round = locker[c].round + 1, !.i = 1]
           ELSE [NotLocking EXCEPT !.pc = "done"]]
    /\ UNCHANGED store

LockNext ==
    \/ Tick
    \/ \E c \in Lockers :
          \/ StartLock(c) \/ FinishRound(c) \/ StartUnlock(c) \/ FinishUnlock(c)
          \/ \E val \in {c, Rubbish}, reached \in BOOLEAN :
                \/ \E answered \in BOOLEAN : lockInstance(c, val, reached, answered)
                \/ unlockInstance(c, val, reached)

LockSpec == LockInit /\ [][LockNext]_lockVars

-----------------------------------------------------------------------------
Holding(c) == locker[c].pc = "held" /\ locker[c].left > 0
InFirstRound(c) == Holding(c) /\ locker[c].round = 1

(* While the validity time of a lock got in the first round lasts, no      *)
(* other client has one of the first round, whatever calls are lost and    *)
(* however long each takes, and none of the servers that make up its       *)
(* quorum is taken from it: neither by expiry nor by the unlock of another *)
(* client, rubbish or not (RedLock::lock, unlock).                         *)
FirstRoundExclusive ==
    \A c \in Lockers : InFirstRound(c) =>
       /\ \A d \in Lockers \ {c} : ~InFirstRound(d)
       /\ Cardinality({s \in Servers : Holds(s, c)}) >= quoRum
=============================================================================
