--------------------------------- MODULE Env ---------------------------------
(***************************************************************************)
(* The files under the storage engine, in three parts that share nothing:  *)
(* the buffer of a file that is written, the limits on the files that are  *)
(* open for reading, and the LOCK file of a database.                      *)
(*                                                                         *)
(* The operating system is external: write may take part of its data or    *)
(* fail; a process that dies loses its buffers; a machine that dies loses  *)
(* what was not synced; an fcntl lock belongs to a process and is gone as  *)
(* soon as the process closes any descriptor of the file.                  *)
(***************************************************************************)
EXTENDS Integers, Sequences, SequencesExt, FiniteSets

CONSTANTS kWritableFileBufferSize,
          AppendSizes,
          MaxWritten,     \* bound: bytes given to append between two opens
          MaxOpens,       \* bound: how often the file is opened
          Readers,        \* threads, each of which opens a table
          MmapLimit,      \* kDefaultMmapLimit
          FdLimit,        \* MaxOpenFiles
          Openers,        \* databases, all of one directory
          ProcessOf,      \* the process of each
          EnvOf           \* its Env: every Options makes one, DBs may share it

NoProcess == "none"

ASSUME EnvAssumption ==
    /\ kWritableFileBufferSize \in Nat \ {0} /\ AppendSizes \subseteq Nat /\ MaxWritten \in Nat /\ MaxOpens \in Nat
    /\ MmapLimit \in Nat /\ FdLimit \in Nat /\ IsFiniteSet(Readers)
    /\ \A o \in Openers : ProcessOf[o] # NoProcess
    /\ \A o, p \in Openers : EnvOf[o] = EnvOf[p] => ProcessOf[o] = ProcessOf[p]

VARIABLES output,      \* the WritableFile, what the system has of it and what is on the disk
          opens,       \* how often it was opened
          acquires,    \* acquiresAllowed of limiter (mmap) and of fdlimiter
          opened,      \* for each reader how far it is with its table
          aborted,     \* an assertion has ended the process
          lockpc,      \* for each database how far LockFile or UnlockFile is
          lockTable,   \* the Envs whose LockTable has the LOCK file
          owner,       \* the process with the fcntl lock, or NoProcess
          dropped      \* processes that gave the fcntl lock up while one of their databases was open

fileVars == <<output, opens>>
readVars == <<acquires, opened, aborted>>
dblockVars == <<lockpc, lockTable, owner, dropped>>
envVars == <<fileVars, readVars, dblockVars>>

NewFile(bytes) == [buf |-> <<>>, os |-> bytes, all |-> bytes, synced |-> Len(bytes), disk |-> Len(bytes),
                   failed |-> FALSE, open |-> TRUE]

EnvInit ==
    /\ output = NewFile(<<>>) /\ opens = 1
    /\ acquires = [mmap |-> MmapLimit, fd |-> FdLimit]
    /\ opened = [t \in Readers |-> "none"] /\ aborted = FALSE
    /\ lockpc = [o \in Openers |-> "closed"] /\ lockTable = {} /\ owner = NoProcess /\ dropped = {}

-----------------------------------------------------------------------------
(* WritableFile.  A byte is its number; k is how many bytes write took     *)
(* before it failed.                                                       *)

\* WriteUnbuffered.
WriteUnbuffered(f, data, k) ==
    [f EXCEPT !.os = @ \o SubSeq(data, 1, k), !.failed = @ \/ k < Len(data)]

\* Mutant: the buffer is not emptied.
FlushKeepsBuffer(f, k) == WriteUnbuffered(f, f.buf, k)

\* FlushBuffer: the buffer is emptied, written or not.
FlushBuffer(f, k) == [WriteUnbuffered(f, f.buf, k) EXCEPT !.buf = <<>>]

\* append: fill the buffer; what does not fit goes behind a flush, into the
\* buffer again or, when it is large, to the system.
Appended(f, data, k, l) ==
    LET room == kWritableFileBufferSize - Len(f.buf)
        filled == [f EXCEPT !.all = @ \o data, !.buf = @ \o SubSeq(data, 1, IF Len(data) < room THEN Len(data) ELSE room)]
        rest == SubSeq(data, room + 1, Len(data))
        flushed == FlushBuffer(filled, k)
    IN  IF rest = <<>> THEN filled
        ELSE IF k < Len(filled.buf) THEN flushed
        ELSE IF Len(rest) < kWritableFileBufferSize THEN [flushed EXCEPT !.buf = rest]
        ELSE WriteUnbuffered(flushed, rest, l)

append(n, k, l) ==
    LET data == [i \in 1 .. n |-> Len(output.all) + i]
    IN  /\ output.open /\ Len(output.all) + n <= MaxWritten
        /\ k <= kWritableFileBufferSize /\ (l > 0 => kWritableFileBufferSize - Len(output.buf) + l <= n)
        /\ output' = Appended(output, data, k, l)
        /\ UNCHANGED opens

flushFile(k) ==
    /\ output.open /\ k \in 0 .. Len(output.buf)
    /\ output' = FlushBuffer(output, k)
    /\ UNCHANGED opens

\* sync: the directory of a manifest, the buffer, the file; each may fail.
sync(dirSynced, k, fdSynced) ==
    LET f == FlushBuffer(output, k)
        whole == k = Len(output.buf)
    IN  /\ output.open /\ k \in 0 .. Len(output.buf)
        /\ output' = IF ~dirSynced THEN output
                     ELSE IF whole /\ fdSynced THEN [f EXCEPT !.synced = Len(f.all), !.disk = Len(f.os)]
                     ELSE f
        /\ UNCHANGED opens

close(k) ==
    /\ output.open /\ k \in 0 .. Len(output.buf)
    /\ output' = [FlushBuffer(output, k) EXCEPT !.open = FALSE]
    /\ UNCHANGED opens

ProcessDies ==
    /\ output.open
    /\ output' = [output EXCEPT !.buf = <<>>, !.open = FALSE]
    /\ UNCHANGED opens

MachineDies(n) ==
    /\ n \in output.disk .. Len(output.os)
    /\ output' = [output EXCEPT !.buf = <<>>, !.os = SubSeq(@, 1, n), !.open = FALSE]
    /\ UNCHANGED opens

\* NewWritableFile truncates, NewAppendableFile goes on.
NewWritableFile(truncate) ==
    /\ ~output.open /\ opens < MaxOpens /\ opens' = opens + 1
    /\ output' = NewFile(IF truncate THEN <<>> ELSE [i \in 1 .. Len(output.os) |-> i])

FileNext ==
    \/ \E n \in AppendSizes, k \in 0 .. kWritableFileBufferSize, l \in 0 .. MaxWritten : append(n, k, l)
    \/ \E k \in 0 .. kWritableFileBufferSize :
          flushFile(k) \/ close(k) \/ \E dirSynced, fdSynced \in BOOLEAN : sync(dirSynced, k, fdSynced)
    \/ ProcessDies
    \/ \E n \in 0 .. MaxWritten : MachineDies(n)
    \/ \E truncate \in BOOLEAN : NewWritableFile(truncate)

-----------------------------------------------------------------------------
(* Limiter and NewRandomAccessFile.  Acquire takes one and gives it back   *)
(* when there was none; others run in between.                             *)

Acquire(t, which, got, refused) ==
    /\ acquires' = [acquires EXCEPT ![which] = @ - 1]
    /\ opened' = [opened EXCEPT ![t] = IF acquires[which] > 0 THEN got ELSE refused]

Release(which) == acquires' = [acquires EXCEPT ![which] = @ + 1]

NewRandomAccessFile(t) ==
    /\ ~aborted /\ opened[t] = "none"
    /\ Acquire(t, "mmap", "mapping", "nommap")
    /\ UNCHANGED aborted

\* The file could be mapped, or not.
Mmap(t, ok) ==
    /\ ~aborted /\ opened[t] = "mapping"
    /\ opened' = [opened EXCEPT ![t] = IF ok THEN "mmap" ELSE "none"]
    /\ IF ok THEN UNCHANGED acquires ELSE Release("mmap")
    /\ UNCHANGED aborted

GiveBack(t) ==
    /\ ~aborted /\ opened[t] \in {"nommap", "nofd"}
    /\ Release(IF opened[t] = "nommap" THEN "mmap" ELSE "fd")
    /\ opened' = [opened EXCEPT ![t] = IF @ = "nommap" THEN "fd" ELSE "none"]
    /\ aborted' = (opened[t] = "nofd")      \* assert(fd == -1) sees the open descriptor

\* PosixRandomAccessFile.  With a descriptor of its own it reads from an
\* uninitialised one.
PosixRandomAccessFile(t) ==
    /\ ~aborted /\ opened[t] = "fd"
    /\ Acquire(t, "fd", "pread", "nofd")
    /\ UNCHANGED aborted

CloseTable(t) ==
    /\ ~aborted /\ opened[t] \in {"mmap", "pread"}
    /\ Release(IF opened[t] = "mmap" THEN "mmap" ELSE "fd")
    /\ opened' = [opened EXCEPT ![t] = "none"]
    /\ UNCHANGED aborted

ReadNext ==
    \E t \in Readers :
       \/ NewRandomAccessFile(t) \/ GiveBack(t) \/ PosixRandomAccessFile(t) \/ CloseTable(t)
       \/ \E ok \in BOOLEAN : Mmap(t, ok)

-----------------------------------------------------------------------------
(* LockFile and UnlockFile: called by DB::Recover and ~DB.                 *)

OpenIn(p) == {o \in Openers : ProcessOf[o] = p /\ lockpc[o] = "held"}

\* The process of o gives its fcntl lock up, if it has it.
Drop(o, open) ==
    /\ owner' = IF owner = ProcessOf[o] THEN NoProcess ELSE owner
    /\ dropped' = IF open \ {o} # {} THEN dropped \cup {ProcessOf[o]} ELSE dropped

LockFile(o) ==
    /\ lockpc[o] = "closed"
    /\ lockpc' = [lockpc EXCEPT ![o] = "opened"]
    /\ UNCHANGED <<lockTable, owner, dropped>>

\* locks.insert; on failure the descriptor is closed.
InsertLock(o) ==
    /\ lockpc[o] = "opened"
    /\ IF EnvOf[o] \in lockTable
       THEN /\ lockpc' = [lockpc EXCEPT ![o] = "closed"]
            /\ Drop(o, OpenIn(ProcessOf[o]))
            /\ UNCHANGED lockTable
       ELSE /\ lockTable' = lockTable \cup {EnvOf[o]}
            /\ lockpc' = [lockpc EXCEPT ![o] = "inserted"]
            /\ UNCHANGED <<owner, dropped>>

\* F_SETLK fails when another process has the lock.
SetLock(o) ==
    /\ lockpc[o] = "inserted"
    /\ IF owner \in {NoProcess, ProcessOf[o]}
       THEN /\ owner' = ProcessOf[o] /\ lockpc' = [lockpc EXCEPT ![o] = "held"]
            /\ UNCHANGED lockTable
       ELSE /\ lockpc' = [lockpc EXCEPT ![o] = "closed"] /\ lockTable' = lockTable \ {EnvOf[o]}
            /\ UNCHANGED owner
    /\ UNCHANGED dropped

UnlockFile(o) ==
    /\ lockpc[o] = "held"
    /\ lockpc' = [lockpc EXCEPT ![o] = "unlocked"]
    /\ Drop(o, OpenIn(ProcessOf[o]))
    /\ UNCHANGED lockTable

\* locks.remove, and the close of the descriptor.
RemoveLock(o) ==
    /\ lockpc[o] = "unlocked"
    /\ lockpc' = [lockpc EXCEPT ![o] = "closed"]
    /\ lockTable' = lockTable \ {EnvOf[o]}
    /\ Drop(o, OpenIn(ProcessOf[o]))

LockFileNext == \E o \in Openers : LockFile(o) \/ InsertLock(o) \/ SetLock(o) \/ UnlockFile(o) \/ RemoveLock(o)

EnvNext ==
    \/ FileNext /\ UNCHANGED <<readVars, dblockVars>>
    \/ ReadNext /\ UNCHANGED <<fileVars, dblockVars>>
    \/ LockFileNext /\ UNCHANGED <<fileVars, readVars>>

EnvSpec == EnvInit /\ [][EnvNext]_envVars

-----------------------------------------------------------------------------
(* As long as no write has failed, the system and the buffer hold what was *)
(* appended, each byte once and in order; what a successful sync covered   *)
(* survives the machine (WritableFile).                                    *)
FileHoldsAppended ==
    ~output.failed =>
       /\ output.open => output.os \o output.buf = output.all
       /\ IsPrefix(output.os, output.all)
       /\ output.synced <= Len(output.os)

Using(states) == Cardinality({t \in Readers : opened[t] \in states})

(* However the threads interleave in Acquire, no more tables are mapped or *)
(* kept open than the limits allow, and no unit is lost or given back      *)
(* twice (Limiter).                                                        *)
LimitsKept ==
    /\ Using({"mapping", "mmap"}) <= MmapLimit /\ Using({"pread"}) <= FdLimit
    /\ acquires.mmap + Using({"mapping", "mmap", "nommap"}) = MmapLimit
    /\ acquires.fd + Using({"pread", "nofd"}) = FdLimit

(* A database is open once for each Env, and in two processes at once only *)
(* if one of them has closed another descriptor of the LOCK file meanwhile *)
(* (LockFile, UnlockFile).                                                 *)
LockExclusive ==
    \A o, p \in Openers : o # p /\ lockpc[o] = "held" /\ lockpc[p] = "held" =>
       /\ EnvOf[o] # EnvOf[p]
       /\ ProcessOf[o] # ProcessOf[p] => {ProcessOf[o], ProcessOf[p]} \cap dropped # {}

(* The three promises of the file layer.                                   *)
EnvKeeps == FileHoldsAppended /\ LimitsKept /\ LockExclusive
=============================================================================
