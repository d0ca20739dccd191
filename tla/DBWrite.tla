------------------------------ MODULE DBWrite ------------------------------
(***************************************************************************)
(* The write path of class DB (redisdb/db/db.cc) and the background thread *)
(* it depends on: the queue of writers, group commit, the switch of a full *)
(* memtable, MakeRoomForWrite's waits, and the background thread of class  *)
(* Env (redisdb/db/env.h) that turns the immutable memtable into a table.  *)
(*                                                                         *)
(* Two mutexes are explicit: DB::mutex and Env::bgmutex.  A piece of code  *)
(* that runs under DB::mutex without releasing it is one step or a chain   *)
(* of steps in which mutex keeps its holder; code that runs without it     *)
(* (log append, fsync, memtable insert, table building) is a step of its   *)
(* own.  A condition variable is a program counter: a waiting thread is    *)
(* moved by the step that notifies it and then has to take the mutex.      *)
(*                                                                         *)
(* A batch is the number of the Write call that brought it and holds one   *)
(* entry; sizes are counted in entries.                                    *)
(***************************************************************************)
EXTENDS Naturals, Sequences, FiniteSets

CONSTANTS
  Writer,             \* the client threads that call DB::Write
  MaxCalls,           \* bound on the number of calls
  WriteBufferSize,    \* options.writebuffersize, in entries
  MaxGroup,           \* the byte limit of BuildBatchGroup, in batches
  CompactionTrigger,  \* kL0_CompactionTrigger
  SlowdownTrigger,    \* kL0_SlowdownWritesTrigger
  StopTrigger,        \* kL0_StopWritesTrigger
  Level0AtOpen,       \* the numbers of level-0 files DB::Open may find
  TmpBatch,           \* DB::tmpbatch points to a batch: FALSE in the code as it
                      \* stands, TRUE to examine group commit beyond that
  Faults,             \* the I/O operations that may fail
  MaxFaults,          \* bound on the number of failures
  Main,               \* the thread that owns the DB object and deletes it
  BG,                 \* the background thread
  None,               \* no holder of a mutex
  Nil                 \* the null batch of TESTCompactMemTable

IOOperations == {"newlog", "append", "sync", "build", "manifest", "compact"}

ASSUME ConstantsAssumption ==
  /\ MaxCalls \in Nat /\ MaxFaults \in Nat
  /\ WriteBufferSize \in Nat /\ MaxGroup \in Nat \ {0}
  /\ CompactionTrigger \in Nat \ {0}
  /\ SlowdownTrigger \in Nat /\ StopTrigger \in Nat
  /\ TmpBatch \in BOOLEAN /\ Level0AtOpen \subseteq Nat
  /\ Faults \subseteq IOOperations
  /\ Main \notin Writer /\ BG \notin Writer /\ None \notin Writer
  /\ Main # BG /\ None # BG /\ None # Main
  /\ Nil \notin 1..MaxCalls

VARIABLES
  mutex,         \* holder of DB::mutex
  writers,       \* DB::writers, the queue of pending Write calls
  pc,            \* where each thread is
  w,             \* DB::Writer and the locals of Write, per thread
  log,           \* the entries appended to the log files
  logfilenumber, \* number of the current log file
  mem, imm,      \* the memtables; hasimm says whether imm is non-null
  hasimm,
  flushed,       \* the entries in table files of the current version
  level0,        \* number of level-0 files of the current version
  lastsequence,  \* VersionSet::lastsequence
  bgerror,       \* DB::bgerror is set
  bgscheduled,   \* DB::bgcompactionscheduled
  bgmutex,       \* holder of Env::bgmutex
  bgqueue,       \* Env::bgqueue
  crashed,       \* the process died on a null pointer
  ncalls, faults,\* bounded counters: calls made, failures so far
  result,        \* history: what each call returned
  wantsync       \* history: the calls made with options.sync

queueVars == <<writers, w>>
dataVars  == <<log, logfilenumber, mem, imm, hasimm, flushed, level0, lastsequence>>
bgVars    == <<bgscheduled, bgmutex, bgqueue>>
histVars  == <<ncalls, result, wantsync>>
vars == <<mutex, writers, pc, w, log, logfilenumber, mem, imm, hasimm, flushed,
          level0, lastsequence, bgerror, bgscheduled, bgmutex, bgqueue,
          crashed, ncalls, faults, result, wantsync>>

Thread == Writer \cup {Main, BG}
Batch == 1..MaxCalls
Entry == [seq : Nat, batch : Batch]
LogEntry == [seq : Nat, batch : Batch, file : Nat, synced : BOOLEAN]

WriterPC == {"idle", "wait", "woken", "room", "reroom", "waitbg", "sched",
             "build", "log", "sync", "insert", "relock", "finish",
             "immcheck", "immwait"}
MainPC == {"open", "closing", "closewait", "exitschedule", "join", "closed"}
BgPC == {"unstarted", "idle", "callback", "flush", "compact", "compactflush",
         "done", "sched", "exit", "stopped"}

(* The program counters at which a thread acts as head of the queue.       *)
LeaderPC == {"room", "reroom", "waitbg", "sched", "build", "log", "sync",
             "insert", "relock", "finish"}
(* Those at which it works on log and memtable without DB::mutex.          *)
LoggingPC == {"log", "sync", "insert", "relock"}

(* updates is the group's batch with its sequence numbers, count its       *)
(* WriteBatchInternal::Count, last the position of lastwriter in writers.  *)
IdleWriter == [batch |-> Nil, sync |-> FALSE, done |-> FALSE, status |-> "ok",
               force |-> FALSE, allowdelay |-> FALSE, updates |-> {},
               count |-> 0, last |-> 1, syncerror |-> FALSE]

WriterRecord == [batch : Batch \cup {Nil}, sync : BOOLEAN, done : BOOLEAN,
                 status : {"ok", "error"}, force : BOOLEAN,
                 allowdelay : BOOLEAN, updates : SUBSET Entry, count : Nat,
                 last : Nat, syncerror : BOOLEAN]

(* The state DB::Open leaves: it ends with MaybeScheduleCompaction.        *)
Init ==
  /\ mutex = None /\ bgmutex = None
  /\ writers = << >>
  /\ w = [t \in Writer |-> IdleWriter]
  /\ log = {} /\ logfilenumber = 1
  /\ mem = {} /\ imm = {} /\ hasimm = FALSE
  /\ flushed = {} /\ lastsequence = 0
  /\ level0 \in Level0AtOpen
  /\ bgerror = FALSE
  /\ bgscheduled = (level0 >= CompactionTrigger)
  /\ bgqueue = IF bgscheduled THEN <<"callback">> ELSE << >>
  /\ pc = [t \in Thread |->
             CASE t = Main -> "open"
               [] t = BG -> IF bgscheduled THEN "idle" ELSE "unstarted"
               [] OTHER -> "idle"]
  /\ crashed = FALSE
  /\ ncalls = 0 /\ faults = 0
  /\ result = [b \in Batch |-> "none"] /\ wantsync = {}

-----------------------------------------------------------------------------
(* Shared pieces                                                           *)

(* The I/O operation op fails in this step (only finitely often).          *)
Fails(op) == op \in Faults /\ faults < MaxFaults /\ faults' = faults + 1
Succeeds == UNCHANGED faults

NotifyAllForgotten(p) == p
(* bgfinishedsignal.notify_all(): every waiter has to take the mutex again.*)
NotifyAll(p) == [t \in Thread |-> CASE p[t] = "waitbg" -> "reroom"
                                    [] p[t] = "immwait" -> "immcheck"
                                    [] p[t] = "closewait" -> "closing"
                                    [] OTHER -> p[t]]

(* RecordBackgroundError: the first error stays and wakes the waiters.     *)
AfterError(p) == IF bgerror THEN p ELSE NotifyAll(p)

shuttingdown == pc[Main] # "open"
NeedsCompaction == level0 >= CompactionTrigger

ShouldScheduleIgnoringImm(scheduled, immpresent) ==
  ~scheduled /\ ~shuttingdown /\ ~bgerror /\ NeedsCompaction
ShouldScheduleTwice(scheduled, immpresent) ==
  ~shuttingdown /\ ~bgerror /\ (immpresent \/ NeedsCompaction)
(* MaybeScheduleCompaction's condition, with the values it sees.           *)
ShouldSchedule(scheduled, immpresent) ==
  ~scheduled /\ ~shuttingdown /\ ~bgerror /\ (immpresent \/ NeedsCompaction)

(* Env::Schedule: the first call starts the background thread.  A writer   *)
(* returns to MakeRoomForWrite; BackgroundCallback, which calls it with    *)
(* mutex and bgmutex held, would go on to notify and return.               *)
Schedule(t) ==
  /\ pc[t] = "sched" /\ mutex = t /\ bgmutex = None /\ ~crashed
  /\ bgqueue' = Append(bgqueue, "callback")
  /\ IF t = BG
     THEN pc' = [NotifyAll(pc) EXCEPT ![BG] = "exit"] /\ mutex' = None
     ELSE /\ pc' = [pc EXCEPT ![t] = "room",
                              ![BG] = IF @ = "unstarted" THEN "idle" ELSE @]
          /\ UNCHANGED mutex
  /\ UNCHANGED <<queueVars, dataVars, bgerror, bgscheduled, bgmutex, crashed,
                 faults, histVars>>
-----------------------------------------------------------------------------
(* DB::Write                                                               *)

MayLeadAlways(q, t) == TRUE
(* The wait at the start of Write ends for the front of the queue.         *)
MayLead(q, t) == t = Head(q)

(* Write up to its first wait: build the Writer, take the mutex, push it;  *)
(* the head of the queue goes on holding the mutex.                        *)
Enqueue(t, b, sync) ==
  /\ pc[t] = "idle" /\ mutex = None /\ ncalls < MaxCalls /\ ~crashed
  /\ pc[Main] = "open"
  /\ b \in {ncalls + 1, Nil}
  /\ ncalls' = ncalls + 1
  /\ writers' = Append(writers, t)
  /\ w' = [w EXCEPT ![t] = [IdleWriter EXCEPT
             !.batch = b, !.sync = sync,
             !.force = (b = Nil), !.allowdelay = (b # Nil)]]
  /\ IF MayLead(writers', t)
     THEN pc' = [pc EXCEPT ![t] = "room"] /\ mutex' = t
     ELSE pc' = [pc EXCEPT ![t] = "wait"] /\ UNCHANGED mutex
  /\ wantsync' = IF sync /\ b # Nil THEN wantsync \cup {b} ELSE wantsync
  /\ UNCHANGED <<dataVars, bgVars, bgerror, crashed, faults, result>>

(* A caller leaves Write: a plain Write returns, TESTCompactMemTable goes  *)
(* on to wait for the immutable memtable unless the write failed.          *)
AfterWrite(t, status) ==
  IF w[t].batch = Nil /\ status = "ok" THEN "immcheck" ELSE "idle"
LocalsAfterWrite(t, status) ==
  IF AfterWrite(t, status) = "idle" THEN IdleWriter ELSE w[t]
Returned(t, status) ==
  IF w[t].batch = Nil THEN result ELSE [result EXCEPT ![w[t].batch] = status]

(* The thread was notified: it was completed by another writer, or it is   *)
(* the new head of the queue.                                              *)
Wake(t) ==
  /\ pc[t] = "woken" /\ mutex = None /\ ~crashed
  /\ IF w[t].done
     THEN /\ pc' = [pc EXCEPT ![t] = AfterWrite(t, w[t].status)]
          /\ w' = [w EXCEPT ![t] = LocalsAfterWrite(t, w[t].status)]
          /\ result' = Returned(t, w[t].status)
          /\ UNCHANGED mutex
     ELSE /\ pc' = [pc EXCEPT ![t] = IF MayLead(writers, t) THEN "room" ELSE "wait"]
          /\ mutex' = IF MayLead(writers, t) THEN t ELSE mutex
          /\ UNCHANGED <<w, result>>
  /\ UNCHANGED <<writers, dataVars, bgVars, bgerror, crashed, faults, ncalls, wantsync>>

(* MakeRoomForWrite: the error exit.                                       *)
RoomError(t) ==
  /\ pc[t] = "room" /\ mutex = t /\ ~crashed /\ bgerror
  /\ pc' = [pc EXCEPT ![t] = "finish"]
  /\ w' = [w EXCEPT ![t].status = "error"]
  /\ UNCHANGED <<mutex, writers, dataVars, bgVars, bgerror, crashed, faults, histVars>>

(* The conditions of MakeRoomForWrite's if-chain, in its order.            *)
DelayWrite(t) == w[t].allowdelay /\ level0 >= SlowdownTrigger
RoomLeft(t)   == ~w[t].force /\ Cardinality(mem) <= WriteBufferSize
MustWaitIgnoringImm == level0 >= StopTrigger
MustWait      == hasimm \/ level0 >= StopTrigger

(* Level 0 is nearly full: sleep once for 1 ms without the mutex.          *)
RoomDelay(t) ==
  /\ pc[t] = "room" /\ mutex = t /\ ~crashed /\ ~bgerror /\ DelayWrite(t)
  /\ w' = [w EXCEPT ![t].allowdelay = FALSE]
  /\ pc' = [pc EXCEPT ![t] = "reroom"] /\ mutex' = None
  /\ UNCHANGED <<writers, dataVars, bgVars, bgerror, crashed, faults, histVars>>

(* There is room, or a forced call finds an empty memtable.                *)
RoomFound(t) ==
  /\ pc[t] = "room" /\ mutex = t /\ ~crashed /\ ~bgerror /\ ~DelayWrite(t)
  /\ RoomLeft(t) \/ (~MustWait /\ mem = {})
  /\ pc' = [pc EXCEPT ![t] = "build"]
  /\ UNCHANGED <<mutex, queueVars, dataVars, bgVars, bgerror, crashed, faults, histVars>>

(* The previous memtable is still being written, or level 0 is full.       *)
RoomWait(t) ==
  /\ pc[t] = "room" /\ mutex = t /\ ~crashed /\ ~bgerror /\ ~DelayWrite(t)
  /\ ~RoomLeft(t) /\ MustWait
  /\ pc' = [pc EXCEPT ![t] = "waitbg"] /\ mutex' = None
  /\ UNCHANGED <<queueVars, dataVars, bgVars, bgerror, crashed, faults, histVars>>

(* Switch to a new memtable and a new log file and ask for a compaction;   *)
(* a log file that cannot be created fails the write.                      *)
RoomSwitch(t) ==
  /\ pc[t] = "room" /\ mutex = t /\ ~crashed /\ ~bgerror /\ ~DelayWrite(t)
  /\ ~RoomLeft(t) /\ ~MustWait /\ mem # {}
  /\ \/ /\ Succeeds
        /\ logfilenumber' = logfilenumber + 1
        /\ imm' = mem /\ hasimm' = TRUE /\ mem' = {}
        /\ w' = [w EXCEPT ![t].force = FALSE]
        /\ IF ShouldSchedule(bgscheduled, TRUE)
           THEN bgscheduled' = TRUE /\ pc' = [pc EXCEPT ![t] = "sched"]
           ELSE UNCHANGED <<bgscheduled, pc>>
     \/ /\ Fails("newlog")
        /\ w' = [w EXCEPT ![t].status = "error"]
        /\ pc' = [pc EXCEPT ![t] = "finish"]
        /\ UNCHANGED <<logfilenumber, imm, hasimm, mem, bgscheduled>>
  /\ UNCHANGED <<mutex, writers, log, flushed, level0, lastsequence, bgmutex,
                 bgqueue, bgerror, crashed, histVars>>

(* The sleep is over or the wait was notified: lock and test again.        *)
RoomAgain(t) ==
  /\ pc[t] = "reroom" /\ mutex = None /\ ~crashed
  /\ mutex' = t /\ pc' = [pc EXCEPT ![t] = "room"]
  /\ UNCHANGED <<queueVars, dataVars, bgVars, bgerror, crashed, faults, histVars>>
-----------------------------------------------------------------------------
(* BuildBatchGroup: the first n writers of the queue form the group when   *)
(* no sync write follows a non-sync head and the batches fit.              *)
HasBatchUnchecked(n) == 1..n
HasBatch(n) == {i \in 1..n : w[writers[i]].batch # Nil}
JoinsGroupUnsynced(i) ==
  i \in HasBatch(i) => Cardinality(HasBatch(i)) <= MaxGroup
JoinsGroup(i) ==
  /\ ~(w[writers[i]].sync /\ ~w[writers[1]].sync)
  /\ i \in HasBatch(i) => Cardinality(HasBatch(i)) <= MaxGroup
IsGroup(n) == /\ \A i \in 2..n : JoinsGroup(i)
              /\ n < Len(writers) => ~JoinsGroup(n + 1)

(* The merged batch, numbered from lastsequence + 1 by SetSequence.        *)
Updates(n) == {[seq |-> lastsequence + Cardinality(HasBatch(i)),
                batch |-> w[writers[i]].batch] : i \in HasBatch(n)}

(* The head builds its group and releases the mutex to log it; a second    *)
(* batch has to be copied into *tmpbatch.  A null batch has nothing to log.*)
BuildBatchGroup(t) ==
  /\ pc[t] = "build" /\ mutex = t /\ ~crashed
  /\ IF w[t].batch = Nil
     THEN /\ pc' = [pc EXCEPT ![t] = "finish"]
          /\ UNCHANGED <<mutex, w, crashed>>
     ELSE \E n \in 1..Len(writers) :
            /\ IsGroup(n)
            /\ IF Cardinality(HasBatch(n)) > 1 /\ ~TmpBatch
               THEN crashed' = TRUE /\ UNCHANGED <<mutex, pc, w>>
               ELSE /\ w' = [w EXCEPT ![t].updates = Updates(n),
                                      ![t].count = Cardinality(HasBatch(n)),
                                      ![t].last = n]
                    /\ pc' = [pc EXCEPT ![t] = "log"]
                    /\ mutex' = None
                    /\ UNCHANGED crashed
  /\ UNCHANGED <<writers, dataVars, bgVars, bgerror, faults, histVars>>

(* Where the head goes after AddRecord and after sync.                     *)
AfterLog(t, ok) == IF ok THEN IF w[t].sync THEN "sync" ELSE "insert" ELSE "relock"
AfterSyncUnchecked(ok) == "insert"
AfterSync(ok) == IF ok THEN "insert" ELSE "relock"

(* log->AddRecord, without the mutex.                                      *)
AddRecord(t) ==
  /\ pc[t] = "log" /\ ~crashed
  /\ \/ /\ Succeeds
        /\ log' = log \cup {[seq |-> e.seq, batch |-> e.batch,
                             file |-> logfilenumber, synced |-> FALSE] :
                            e \in w[t].updates}
        /\ pc' = [pc EXCEPT ![t] = AfterLog(t, TRUE)]
        /\ UNCHANGED w
     \/ /\ Fails("append")
        /\ w' = [w EXCEPT ![t].status = "error"]
        /\ pc' = [pc EXCEPT ![t] = AfterLog(t, FALSE)]
        /\ UNCHANGED log
  /\ UNCHANGED <<mutex, writers, logfilenumber, mem, imm, hasimm, flushed,
                 level0, lastsequence, bgVars, bgerror, crashed, histVars>>

(* logfile->sync(): the current log file reaches the disk.                 *)
SyncLog(t) ==
  /\ pc[t] = "sync" /\ ~crashed
  /\ \/ /\ Succeeds
        /\ log' = {[e EXCEPT !.synced = @ \/ e.file = logfilenumber] : e \in log}
        /\ pc' = [pc EXCEPT ![t] = AfterSync(TRUE)]
        /\ UNCHANGED w
     \/ /\ Fails("sync")
        /\ w' = [w EXCEPT ![t].status = "error", ![t].syncerror = TRUE]
        /\ pc' = [pc EXCEPT ![t] = AfterSync(FALSE)]
        /\ UNCHANGED log
  /\ UNCHANGED <<mutex, writers, logfilenumber, mem, imm, hasimm, flushed,
                 level0, lastsequence, bgVars, bgerror, crashed, histVars>>

(* WriteBatchInternal::InsertInto(updates, mem), without the mutex.        *)
InsertInto(t) ==
  /\ pc[t] = "insert" /\ ~crashed
  /\ mem' = mem \cup w[t].updates
  /\ pc' = [pc EXCEPT ![t] = "relock"]
  /\ UNCHANGED <<mutex, queueVars, log, logfilenumber, imm, hasimm, flushed,
                 level0, lastsequence, bgVars, bgerror, crashed, faults, histVars>>

SequenceAfterOne(t) == lastsequence + 1
SequenceAfter(t) == lastsequence + w[t].count

(* Back under the mutex: a failed sync becomes the background error, the   *)
(* sequence number advances whatever happened.                             *)
Relock(t) ==
  /\ pc[t] = "relock" /\ mutex = None /\ ~crashed
  /\ mutex' = t
  /\ bgerror' = (bgerror \/ w[t].syncerror)
  /\ pc' = [(IF w[t].syncerror THEN AfterError(pc) ELSE pc) EXCEPT ![t] = "finish"]
  /\ lastsequence' = SequenceAfter(t)
  /\ UNCHANGED <<queueVars, log, logfilenumber, mem, imm, hasimm, flushed,
                 level0, bgVars, crashed, faults, histVars>>

NextHeadForgotten(n) == {}
NextHead(n) == IF n < Len(writers) THEN {writers[n + 1]} ELSE {}

(* The head pops its group, hands out its status, wakes the members and    *)
(* the next head, and returns.                                             *)
Finish(t) ==
  /\ pc[t] = "finish" /\ mutex = t /\ ~crashed
  /\ LET n == w[t].last
         members == {writers[i] : i \in (2..n) \cap DOMAIN writers}
     IN /\ writers' = SubSeq(writers, n + 1, Len(writers))
        /\ w' = [x \in Writer |->
                   CASE x = t -> LocalsAfterWrite(t, w[t].status)
                     [] x # t /\ x \in members ->
                          [w[x] EXCEPT !.done = TRUE, !.status = w[t].status]
                     [] OTHER -> w[x]]
        /\ pc' = [x \in Thread |->
                    CASE x = t -> AfterWrite(t, w[t].status)
                      [] x # t /\ x \in members \cup NextHead(n) -> "woken"
                      [] OTHER -> pc[x]]
  /\ mutex' = None
  /\ result' = Returned(t, w[t].status)
  /\ UNCHANGED <<dataVars, bgVars, bgerror, crashed, faults, ncalls, wantsync>>

(* TESTCompactMemTable after its Write: wait until imm is gone.            *)
ImmCheck(t) ==
  /\ pc[t] = "immcheck" /\ mutex = None /\ ~crashed
  /\ IF hasimm /\ ~bgerror
     THEN pc' = [pc EXCEPT ![t] = "immwait"] /\ UNCHANGED w
     ELSE pc' = [pc EXCEPT ![t] = "idle"] /\ w' = [w EXCEPT ![t] = IdleWriter]
  /\ UNCHANGED <<mutex, writers, dataVars, bgVars, bgerror, crashed, faults, histVars>>
-----------------------------------------------------------------------------
(* The destructor DB::~DB and Env::ExitSchedule                            *)

(* Refuse further background work and wait until none is scheduled.        *)
CloseDB ==
  /\ mutex = None /\ ~crashed
  /\ \/ pc[Main] = "open" /\ \A t \in Writer : pc[t] = "idle"
     \/ pc[Main] = "closing"
  /\ pc' = [pc EXCEPT ![Main] = IF bgscheduled THEN "closewait" ELSE "exitschedule"]
  /\ UNCHANGED <<mutex, queueVars, dataVars, bgVars, bgerror, crashed, faults, histVars>>

(* ExitSchedule: queue an empty functor for the thread, if there is one.   *)
ExitSchedule ==
  /\ pc[Main] = "exitschedule" /\ ~crashed
  /\ IF pc[BG] = "unstarted"
     THEN pc' = [pc EXCEPT ![Main] = "closed"] /\ UNCHANGED bgqueue
     ELSE /\ bgmutex = None
          /\ bgqueue' = Append(bgqueue, "empty")
          /\ pc' = [pc EXCEPT ![Main] = "join"]
  /\ UNCHANGED <<mutex, queueVars, dataVars, bgscheduled, bgmutex, bgerror,
                 crashed, faults, histVars>>

JoinNothing ==
  /\ pc[Main] = "join" /\ ~crashed
  /\ pc' = [pc EXCEPT ![Main] = "closed"]
  /\ UNCHANGED <<mutex, queueVars, dataVars, bgVars, bgerror, crashed, faults, histVars>>
Join ==
  /\ pc[Main] = "join" /\ pc[BG] = "stopped" /\ ~crashed
  /\ pc' = [pc EXCEPT ![Main] = "closed"]
  /\ UNCHANGED <<mutex, queueVars, dataVars, bgVars, bgerror, crashed, faults, histVars>>
-----------------------------------------------------------------------------
(* The background thread                                                   *)

(* BackgroundThreadMain takes a functor and calls it with bgmutex held.    *)
BgTake ==
  /\ pc[BG] = "idle" /\ bgqueue # << >> /\ bgmutex = None /\ ~crashed
  /\ bgmutex' = BG /\ bgqueue' = Tail(bgqueue)
  /\ pc' = [pc EXCEPT ![BG] = IF Head(bgqueue) = "empty" THEN "exit" ELSE "callback"]
  /\ UNCHANGED <<mutex, queueVars, dataVars, bgerror, bgscheduled, crashed, faults, histVars>>

(* BackgroundCallback and BackgroundCompaction up to the point where they  *)
(* release the mutex to build tables, or find nothing to do.               *)
BackgroundCallback ==
  /\ pc[BG] = "callback" /\ mutex = None /\ ~crashed
  /\ LET work == ~shuttingdown /\ ~bgerror
         next == CASE work /\ hasimm -> "flush"
                   [] work /\ ~hasimm /\ NeedsCompaction -> "compact"
                   [] OTHER -> "done"
     IN /\ pc' = [pc EXCEPT ![BG] = next]
        /\ mutex' = IF next = "done" THEN BG ELSE None
  /\ UNCHANGED <<queueVars, dataVars, bgVars, bgerror, crashed, faults, histVars>>

(* The end of CompactMemTable.  A table is added at level 0 or, when       *)
(* nothing overlaps, deeper.  WriteLevel0Table returns a status that       *)
(* BuildTable never sets: after a failed build it adds no table, or one    *)
(* whose file is deleted, and imm is still discarded.  Only a failure to   *)
(* write the manifest, or a shutdown seen in time, becomes an error.       *)
CompactMemTable(next) ==
  /\ \/ /\ Succeeds
        /\ flushed' = flushed \cup imm
        /\ level0' \in {level0, level0 + 1}
        /\ imm' = {} /\ hasimm' = FALSE
        /\ UNCHANGED bgerror
        /\ pc' = [pc EXCEPT ![BG] = next]
     \/ /\ Fails("build")
        /\ level0' \in {level0, level0 + 1}
        /\ imm' = {} /\ hasimm' = FALSE
        /\ UNCHANGED <<flushed, bgerror>>
        /\ pc' = [pc EXCEPT ![BG] = next]
     \/ /\ (shuttingdown /\ Succeeds) \/ Fails("manifest")
        /\ bgerror' = TRUE
        /\ pc' = [AfterError(pc) EXCEPT ![BG] = next]
        /\ UNCHANGED <<flushed, level0, imm, hasimm>>
  /\ UNCHANGED <<queueVars, log, logfilenumber, mem, lastsequence, bgVars,
                 crashed, histVars>>

BgFlush ==
  /\ pc[BG] = "flush" /\ mutex = None /\ ~crashed
  /\ CompactMemTable("done")
  /\ mutex' = BG

(* DoCompactionWork meets a new immutable memtable and writes it first.    *)
BgCompactImm ==
  /\ pc[BG] = "compact" /\ hasimm /\ mutex = None /\ ~crashed
  /\ CompactMemTable("compactflush")
  /\ mutex' = BG

BgCompactImmNotify ==
  /\ pc[BG] = "compactflush" /\ ~crashed
  /\ pc' = [NotifyAll(pc) EXCEPT ![BG] = "compact"] /\ mutex' = None
  /\ UNCHANGED <<queueVars, dataVars, bgVars, bgerror, crashed, faults, histVars>>

(* The end of DoCompactionWork: the level-0 inputs leave level 0.  Files   *)
(* flushed meanwhile are not inputs and may stay.                          *)
BgCompactDone ==
  /\ pc[BG] = "compact" /\ mutex = None /\ ~crashed
  /\ mutex' = BG
  /\ \/ /\ Succeeds
        /\ level0' \in 0..(level0 - 1)
        /\ UNCHANGED bgerror
        /\ pc' = [pc EXCEPT ![BG] = "done"]
     \/ /\ (shuttingdown /\ Succeeds) \/ Fails("compact")
        /\ bgerror' = TRUE
        /\ pc' = [AfterError(pc) EXCEPT ![BG] = "done"]
        /\ UNCHANGED level0
  /\ UNCHANGED <<queueVars, log, logfilenumber, mem, imm, hasimm, flushed,
                 lastsequence, bgVars, crashed, histVars>>

(* The end of BackgroundCallback: clear the flag, schedule again if there  *)
(* is more to do - with mutex and bgmutex held - or wake the waiters.      *)
BgReschedule ==
  /\ pc[BG] = "done" /\ mutex = BG /\ ~crashed
  /\ IF ShouldSchedule(FALSE, hasimm)
     THEN /\ bgscheduled' = TRUE
          /\ pc' = [pc EXCEPT ![BG] = "sched"]
          /\ UNCHANGED mutex
     ELSE /\ bgscheduled' = FALSE
          /\ pc' = [NotifyAll(pc) EXCEPT ![BG] = "exit"]
          /\ mutex' = None
  /\ UNCHANGED <<queueVars, dataVars, bgerror, bgmutex, bgqueue, crashed, faults, histVars>>

(* The functor returns, the scope of bgmutex ends, and the thread tests    *)
(* Env::shuttingdown, which ExitSchedule sets before it queues its functor.*)
BgExit ==
  /\ pc[BG] = "exit" /\ ~crashed
  /\ bgmutex' = None
  /\ \E next \in {"idle", "stopped"} :
       /\ pc[Main] \in {"open", "closing", "closewait"} => next = "idle"
       /\ pc[Main] \in {"join", "closed"} => next = "stopped"
       /\ pc' = [pc EXCEPT ![BG] = next]
  /\ UNCHANGED <<mutex, queueVars, dataVars, bgerror, bgscheduled, bgqueue, crashed, faults, histVars>>
-----------------------------------------------------------------------------
Calls(t) == \E b \in Batch \cup {Nil}, sync \in BOOLEAN :
              (b = Nil => ~sync) /\ Enqueue(t, b, sync)

(* What a thread does inside Write, once called.                           *)
WriterStep(t) ==
  \/ Wake(t) \/ RoomError(t) \/ RoomDelay(t) \/ RoomFound(t) \/ RoomWait(t)
  \/ RoomSwitch(t) \/ RoomAgain(t) \/ BuildBatchGroup(t)
  \/ AddRecord(t) \/ SyncLog(t) \/ InsertInto(t)
  \/ Relock(t) \/ Finish(t) \/ ImmCheck(t)

BgStep ==
  \/ BgTake \/ BackgroundCallback \/ BgFlush \/ BgCompactImm
  \/ BgCompactImmNotify \/ BgCompactDone \/ BgReschedule \/ BgExit

CloseStep == CloseDB \/ ExitSchedule \/ Join

Next == \/ \E t \in Writer : Calls(t) \/ WriterStep(t)
        \/ \E t \in Writer \cup {BG} : Schedule(t)
        \/ CloseStep
        \/ BgStep

Spec == Init /\ [][Next]_vars

(* Threads are scheduled by the operating system and their I/O returns;    *)
(* nobody has to call Write, and the DB object need not be deleted.        *)
FairSpec ==
  /\ Spec
  /\ \A t \in Writer : WF_vars(WriterStep(t) \/ Schedule(t))
  /\ WF_vars(BgStep \/ Schedule(BG))
  /\ WF_vars(CloseStep /\ shuttingdown)
-----------------------------------------------------------------------------
(* Properties                                                              *)

PcOK(p) ==
  /\ p \in [Thread -> WriterPC \cup MainPC \cup BgPC]
  /\ \A t \in Writer : p[t] \in WriterPC
  /\ p[Main] \in MainPC /\ p[BG] \in BgPC
ThreadsOK ==
  /\ mutex \in Thread \cup {None} /\ bgmutex \in {BG, None}
  /\ writers \in Seq(Writer)
  /\ PcOK(pc)
LocalsOK == w \in [Writer -> WriterRecord]
DataOK ==
  /\ log \in SUBSET LogEntry /\ logfilenumber \in Nat
  /\ mem \in SUBSET Entry /\ imm \in SUBSET Entry /\ hasimm \in BOOLEAN
  /\ flushed \in SUBSET Entry /\ level0 \in Nat /\ lastsequence \in Nat
FlagsOK ==
  /\ bgerror \in BOOLEAN /\ bgscheduled \in BOOLEAN /\ crashed \in BOOLEAN
  /\ bgqueue \in Seq({"callback", "empty"})
HistoryOK ==
  /\ ncalls \in 0..MaxCalls /\ faults \in 0..MaxFaults
  /\ result \in [Batch -> {"none", "ok", "error"}]
  /\ wantsync \in SUBSET Batch

(* The type invariant: variables and locals keep the types of the code.    *)
TypeOK == ThreadsOK /\ LocalsOK /\ DataOK /\ FlagsOK /\ HistoryOK

(* Write's comment: "&w is currently responsible for logging and protects  *)
(* against concurrent loggers and concurrent writes into mem_".  While a   *)
(* thread logs and inserts without the mutex, no other thread is past the  *)
(* wait at the head of the queue, so nobody else logs, inserts, switches   *)
(* the memtable or moves the sequence number.                              *)
SingleLogger ==
  \A t, u \in Writer : pc[t] \in LoggingPC /\ pc[u] \in LeaderPC => t = u

(* The queue is never left without somebody responsible for it: while      *)
(* calls are pending, the thread at the head is not asleep waiting for a   *)
(* notification that was already sent or never will be.                    *)
HeadIsAwake == Len(writers) > 0 => pc[writers[1]] # "wait"

(* The shape of the queue that makes both true: it lists, once each, the   *)
(* threads that wait for their turn or act as head, none of them already   *)
(* completed; only its first thread acts as head, and the group it formed  *)
(* is still a prefix of the queue.                                         *)
Queued(t) == pc[t] \in LeaderPC \cup {"wait"} \/ (pc[t] = "woken" /\ ~w[t].done)
QueueDistinct == \A i, j \in DOMAIN writers : writers[i] = writers[j] => i = j
QueueMembers ==
  /\ \A i \in DOMAIN writers : Queued(writers[i]) /\ ~w[writers[i]].done
  /\ \A t \in Writer : Queued(t) => \E i \in DOMAIN writers : writers[i] = t
LeaderIsHead ==
  \A t \in Writer : pc[t] \in LeaderPC =>
    Len(writers) > 0 /\ writers[1] = t
GroupFits ==
  \A i \in DOMAIN writers :
    w[writers[i]].last = 1 \/ (i = 1 /\ w[writers[i]].last \in 1..Len(writers))
QueueInv == /\ QueueDistinct /\ QueueMembers
            /\ LeaderIsHead /\ GroupFits /\ HeadIsAwake

(* SetSequence, group commit and the failure paths never give a sequence   *)
(* number twice nor log a batch twice: recovery and the memtables order    *)
(* entries by these numbers alone.                                         *)
SequenceUnique ==
  \A d, e \in log \cup mem \cup imm \cup flushed :
    d.seq = e.seq <=> d.batch = e.batch

Readable == mem \cup imm \cup flushed
Batches(entries) == {e.batch : e \in entries}

(* A write that was acknowledged, by the head for itself or for the other  *)
(* members of its group, is in a memtable or a table and visible at        *)
(* lastsequence, whatever switches and flushes happened since.             *)
AckedReadable ==
  \A b \in Batch : result[b] = "ok" =>
    \E e \in Readable : e.batch = b /\ e.seq <= lastsequence

(* An acknowledged sync write is on disk even when a group member is       *)
(* served by another head ("Do not include a sync Write into a batch       *)
(* handled by a non-sync Write").                                          *)
SyncedDurable ==
  \A b \in wantsync : result[b] = "ok" =>
    \E e \in log : e.batch = b /\ e.synced

(* A write that reported an error is not visible to readers: no member of  *)
(* a failed group was inserted.                                            *)
FailedUnreadable ==
  \A b \in Batch : result[b] = "error" => b \notin Batches(Readable)

(* As long as a full memtable waits to be written and no error stops the   *)
(* database, a background call is scheduled: the writers waiting for       *)
(* bgfinishedsignal have somebody to wake them.                            *)
FlushScheduled == hasimm /\ ~bgerror /\ ~shuttingdown => bgscheduled

(* bgcompactionscheduled means exactly one callback queued or running, so  *)
(* two compactions never run and the destructor's wait is not vacuous;     *)
(* when the destructor has returned, the background thread has stopped and *)
(* nothing touches the object any more.                                    *)
OneCallback ==
  LET queued == Cardinality({i \in DOMAIN bgqueue : bgqueue[i] = "callback"})
      coming == Cardinality({t \in Writer \cup {BG} : pc[t] = "sched"})
      running == IF pc[BG] \in {"callback", "flush", "compact", "compactflush", "done"}
                 THEN 1 ELSE 0
  IN /\ queued + coming + running = (IF bgscheduled THEN 1 ELSE 0)
     /\ pc[Main] = "closed" => pc[BG] \in {"unstarted", "stopped"}

(* tmpbatch is used only when it exists.                                   *)
NoNullTmpBatch == ~crashed

(* Every call returns.                                                     *)
WritersReturn == \A t \in Writer : pc[t] # "idle" ~> pc[t] = "idle"

(* The destructor returns.                                                 *)
CloseReturns == pc[Main] = "closing" \/ pc[Main] = "closewait" ~> pc[Main] = "closed"
=============================================================================
