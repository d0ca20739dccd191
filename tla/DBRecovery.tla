----------------------------- MODULE DBRecovery -----------------------------
(***************************************************************************)
(* The files of a database and what a crash leaves of them: the log files, *)
(* table files, MANIFEST files and CURRENT written by class DB             *)
(* (redisdb/db/db.cc) and class VersionSet (redisdb/db/versionset.cc), the *)
(* deletion of obsolete files, and DB::Open, which rebuilds the database   *)
(* from them.                                                              *)
(*                                                                         *)
(* A step ends where the code writes, syncs, renames or deletes a file, so *)
(* that the process or the machine may die between any two of them.  The   *)
(* interleaving of writers is the subject of DBWrite: a call of DB::Write  *)
(* is one step here.  A write is the number of its call.                   *)
(***************************************************************************)
EXTENDS Naturals, Sequences, FiniteSets

CONSTANTS
  MaxWrites,        \* bound on the number of writes
  MaxCrashes,       \* bound on the number of crashes
  MaxFile,          \* no compaction is begun beyond this file number
  MaxFaults,        \* bound on the number of failing operations
  Faults,           \* the operations that may fail
  PowerFailures,    \* the machine may crash, not only the process
  EntriesVolatile,  \* a directory entry is durable only once its directory is
                    \* synced (otherwise with the file)
  DirSynced         \* WritableFile::dirname names the database directory:
                    \* FALSE in the code, whose constructor computes it from
                    \* the string it has just moved away

ASSUME ConstantsAssumption ==
  /\ MaxWrites \in Nat /\ MaxCrashes \in Nat /\ MaxFile \in Nat /\ MaxFaults \in Nat
  /\ Faults \subseteq {"build", "rebuild", "append", "sync", "rename", "compact"}
  /\ PowerFailures \in BOOLEAN /\ EntriesVolatile \in BOOLEAN /\ DirSynced \in BOOLEAN

VARIABLES
  logs,       \* log files: number -> the writes appended and those synced
  tables,     \* table files: number -> the writes stored
  unlinked,   \* tables whose directory entry is not durable yet
  manifests,  \* MANIFEST files: number -> edits, and how many are synced
  current,    \* the manifest CURRENT names, 0 if there is no CURRENT
  up,         \* how far DB::Open has come, "open" once it returned
  m,          \* the memory of the process
  todo,       \* Recover: the log files still to be replayed
  bgpc,       \* where the background thread is
  compaction, \* the compaction it is doing: inputs and output
  edit,       \* the VersionEdit being built or applied
  seq,        \* history: the sequence number of each write
  acked,      \* history: writes acknowledged and not lost with the machine
  synced,     \* history: writes acknowledged with options.sync
  crashes, faults

disk == <<logs, tables, unlinked, manifests, current>>
bg == <<bgpc, compaction, edit>>
hist == <<seq, acked, synced>>
vars == <<logs, tables, unlinked, manifests, current, up, m, todo, bgpc,
          compaction, edit, seq, acked, synced, crashes, faults>>

Writes == 1..MaxWrites
Put(f, n, v) == [x \in DOMAIN f \cup {n} |-> IF x = n THEN v ELSE f[x]]
Keep(f, S) == [x \in DOMAIN f \cap S |-> f[x]]
MaxOf(S) == CHOOSE x \in S : \A y \in S : y <= x
MinOf(S) == CHOOSE x \in S : \A y \in S : x <= y

NoEdit == [add |-> {}, del |-> {}, log |-> 0, next |-> 0, last |-> 0]
NoCompaction == [inputs |-> {}, out |-> 0]
(* logfile is DB::logfilenumber, lognumber VersionSet's.                   *)
NoMemory == [mem |-> {}, imm |-> {}, hasimm |-> FALSE, logfile |-> 0,
             lognumber |-> 0, nextfile |-> 2, manifest |-> 0, version |-> {},
             lastseq |-> 0, pending |-> {}, bgerror |-> FALSE]

Init ==
  /\ logs = << >> /\ tables = << >> /\ unlinked = {} /\ manifests = << >>
  /\ current = 0
  /\ up = "down" /\ m = NoMemory /\ todo = {}
  /\ bgpc = "idle" /\ compaction = NoCompaction /\ edit = NoEdit
  /\ seq = [x \in Writes |-> 0] /\ acked = {} /\ synced = {}
  /\ crashes = 0 /\ faults = 0

Fails(op) == op \in Faults /\ faults < MaxFaults /\ faults' = faults + 1
Succeeds == UNCHANGED faults
-----------------------------------------------------------------------------
(* Reading a manifest                                                      *)

(* Builder::Apply over the edits: the files added and not deleted later.   *)
VersionOf(edits) == {n \in UNION {edits[i].add : i \in DOMAIN edits} :
                       \E i \in DOMAIN edits :
                         /\ n \in edits[i].add
                         /\ \A j \in DOMAIN edits : j > i => n \notin edits[j].del}
LastEdit(edits) == edits[Len(edits)]
-----------------------------------------------------------------------------
(* DeleteObsoleteFiles, given the state it runs in: log files before       *)
(* lognumber, manifests before the current one and tables that neither the *)
(* version nor pendingoutputs names are removed.                           *)
LiveTablesWithoutPending(s) == s.version
LiveTables(s) == s.version \cup s.pending
KeepLogsAfter(s) == {n \in DOMAIN logs : n > s.lognumber}
KeepLogs(s) == {n \in DOMAIN logs : n >= s.lognumber}
DeleteObsoleteFiles(s) ==
  /\ logs' = Keep(logs, KeepLogs(s))
  /\ manifests' = Keep(manifests, {n \in DOMAIN manifests : n >= s.manifest})
  /\ tables' = Keep(tables, LiveTables(s))
  /\ unlinked' = unlinked \cap LiveTables(s)
-----------------------------------------------------------------------------
(* DB::Write and the switch of the memtable                                *)

(* Append to the log, sync it if asked to, insert, acknowledge.            *)
Write(sync) ==
  /\ up = "open" /\ ~m.bgerror
  /\ \E x \in Writes :
       /\ seq[x] = 0 /\ \A y \in 1..(x - 1) : seq[y] # 0
       /\ seq' = [seq EXCEPT ![x] = m.lastseq + 1]
       /\ LET recs == logs[m.logfile].recs \cup {x}
          IN logs' = [logs EXCEPT ![m.logfile] =
                        [recs |-> recs, synced |-> IF sync THEN recs ELSE @.synced]]
       /\ m' = [m EXCEPT !.mem = @ \cup {x}, !.lastseq = @ + 1]
       /\ acked' = acked \cup {x}
       /\ synced' = IF sync THEN synced \cup {x} ELSE synced
  /\ UNCHANGED <<tables, unlinked, manifests, current, up, todo, bg, crashes, faults>>

(* MakeRoomForWrite's switch: a new log file and a new memtable.           *)
SwitchMem ==
  /\ up = "open" /\ ~m.bgerror /\ ~m.hasimm /\ m.mem # {}
  /\ logs' = Put(logs, m.nextfile, [recs |-> {}, synced |-> {}])
  /\ m' = [m EXCEPT !.imm = m.mem, !.hasimm = TRUE, !.mem = {},
                    !.logfile = m.nextfile, !.nextfile = @ + 1]
  /\ UNCHANGED <<tables, unlinked, manifests, current, up, todo, bg, hist, crashes, faults>>
-----------------------------------------------------------------------------
(* The background thread                                                   *)

(* A file created by this step; its directory entry is not durable yet if  *)
(* that takes a sync of the directory.                                     *)
NewTable(n, content) ==
  /\ tables' = Put(tables, n, content)
  /\ unlinked' = IF EntriesVolatile THEN unlinked \cup {n} ELSE unlinked

(* LogAndApply's first part completes the edit: the numbers it carries are *)
(* those of this moment.                                                   *)
CompleteStale(e, log, s) == [e EXCEPT !.log = log, !.next = s.manifest + 1, !.last = s.lastseq]
Complete(e, log, s) == [e EXCEPT !.log = log, !.next = s.nextfile, !.last = s.lastseq]

(* The log file from which a flush lets recovery start: the one that was   *)
(* begun when imm was sealed.                                              *)
FlushedLogNext == m.nextfile
FlushedLog == m.logfile

(* CompactMemTable up to the write of the manifest: from BackgroundCallback*)
(* unless there was an error, or from within DoCompactionWork.  The status *)
(* of BuildTable is lost: after a failure there is no table, and the edit  *)
(* may even name the deleted file.                                         *)
CompactMemTable ==
  /\ up = "open" /\ m.hasimm
  /\ (bgpc = "idle" /\ ~m.bgerror) \/ bgpc = "compact"
  /\ m' = [m EXCEPT !.nextfile = @ + 1]
  /\ \/ /\ Succeeds
        /\ NewTable(m.nextfile, m.imm)
        /\ edit' = Complete([NoEdit EXCEPT !.add = {m.nextfile}], FlushedLog, m')
     \/ /\ Fails("build")
        /\ \E add \in {{}, {m.nextfile}} :
             edit' = Complete([NoEdit EXCEPT !.add = add], FlushedLog, m')
        /\ UNCHANGED <<tables, unlinked>>
  /\ bgpc' = "apply"
  /\ UNCHANGED <<logs, manifests, current, up, todo, compaction, hist, crashes>>

(* LogAndApply: append the edit to the manifest, then sync it.  The sync   *)
(* of a manifest first syncs the directory WritableFile::dirname.          *)
AppendEdit ==
  /\ up = "open" /\ bgpc = "apply"
  /\ \/ /\ Succeeds
        /\ manifests' = [manifests EXCEPT ![m.manifest].edits = Append(@, edit)]
        /\ bgpc' = "sync"
     \/ Fails("append") /\ bgpc' = "failed" /\ UNCHANGED manifests
  /\ UNCHANGED <<logs, tables, unlinked, current, up, m, todo, compaction, edit, hist, crashes>>

SyncDirIfManifest == unlinked' = IF DirSynced THEN {} ELSE unlinked

SyncManifest ==
  /\ up = "open" /\ bgpc = "sync"
  /\ \/ /\ Succeeds
        /\ manifests' = [manifests EXCEPT ![m.manifest].synced =
                           Len(manifests[m.manifest].edits)]
        /\ SyncDirIfManifest
        /\ bgpc' = "install"
     \/ Fails("sync") /\ bgpc' = "failed" /\ UNCHANGED <<manifests, unlinked>>
  /\ UNCHANGED <<logs, tables, current, up, m, todo, compaction, edit, hist, crashes>>

(* The memory after the edit is applied; a flush also drops imm, and the   *)
(* end of a compaction its claim on the output.                            *)
FromCompaction == edit.del # {}
Applied == [m EXCEPT !.version = (@ \ edit.del) \cup edit.add, !.lognumber = edit.log]
Flushed(s) == [s EXCEPT !.imm = {}, !.hasimm = FALSE]
CleanupCompaction(s) == [s EXCEPT !.pending = @ \ {compaction.out}]

Install ==
  /\ up = "open" /\ bgpc = "install"
  /\ m' = IF FromCompaction THEN CleanupCompaction(Applied) ELSE Flushed(Applied)
  /\ DeleteObsoleteFiles(m')
  /\ bgpc' = IF ~FromCompaction /\ compaction # NoCompaction THEN "compact" ELSE "idle"
  /\ compaction' = IF FromCompaction THEN NoCompaction ELSE compaction
  /\ edit' = NoEdit
  /\ UNCHANGED <<current, up, todo, hist, crashes, faults>>

(* The edit was not applied: the first error stops further background work.*)
(* A compaction still ends with DeleteObsoleteFiles, whatever became of    *)
(* the edits whose append or sync failed.                                  *)
GiveUp ==
  /\ up = "open" /\ bgpc = "failed"
  /\ edit' = NoEdit
  /\ IF FromCompaction
     THEN /\ m' = CleanupCompaction([m EXCEPT !.bgerror = TRUE])
          /\ DeleteObsoleteFiles(m')
          /\ compaction' = NoCompaction /\ bgpc' = "idle"
     ELSE /\ m' = [m EXCEPT !.bgerror = TRUE]
          /\ bgpc' = IF compaction = NoCompaction THEN "idle" ELSE "compact"
          /\ UNCHANGED <<logs, manifests, tables, unlinked, compaction>>
  /\ UNCHANGED <<current, up, todo, hist, crashes, faults>>

(* BackgroundCompaction picks tables of the version and DoCompactionWork   *)
(* merges them.                                                            *)
PickCompaction ==
  /\ up = "open" /\ bgpc = "idle" /\ ~m.bgerror /\ ~m.hasimm
  /\ m.nextfile <= MaxFile
  /\ \E inputs \in (SUBSET m.version) \ {{}} :
       compaction' = [inputs |-> inputs, out |-> 0]
  /\ bgpc' = "compact"
  /\ UNCHANGED <<disk, up, m, todo, edit, hist, crashes, faults>>

(* OpenCompactionOutputFile: the output exists from here on, incomplete,   *)
(* and only pendingoutputs protects it.                                    *)
OpenCompactionOutputFile ==
  /\ up = "open" /\ bgpc = "compact" /\ compaction.out = 0
  /\ compaction' = [compaction EXCEPT !.out = m.nextfile]
  /\ m' = [m EXCEPT !.nextfile = @ + 1, !.pending = @ \cup {m.nextfile}]
  /\ NewTable(m.nextfile, {})
  /\ UNCHANGED <<logs, manifests, current, up, todo, bgpc, edit, hist, crashes, faults>>

(* The output is finished and synced, or the compaction fails.             *)
FinishCompaction ==
  /\ up = "open" /\ bgpc = "compact" /\ compaction.out # 0
  /\ edit' = Complete([NoEdit EXCEPT !.add = {compaction.out},
                                     !.del = compaction.inputs], m.lognumber, m)
  /\ \/ /\ Succeeds /\ compaction.inputs \subseteq DOMAIN tables
        /\ tables' = [n \in DOMAIN tables |->
                        IF n = compaction.out
                        THEN UNION {tables[i] : i \in compaction.inputs}
                        ELSE tables[n]]
        /\ bgpc' = "apply"
     \/ /\ Fails("compact") \/ (Succeeds /\ ~(compaction.inputs \subseteq DOMAIN tables))
        /\ bgpc' = "failed" /\ UNCHANGED tables
  /\ UNCHANGED <<logs, unlinked, manifests, current, up, m, todo, compaction, hist, crashes>>
-----------------------------------------------------------------------------
(* The process or the machine dies.  A machine takes with it what was not  *)
(* synced, and possibly tables whose directory entry was not.              *)
Crash(power) ==
  /\ up # "down" /\ crashes < MaxCrashes
  /\ crashes' = crashes + 1
  /\ IF power
     THEN /\ logs' = [n \in DOMAIN logs |-> [logs[n] EXCEPT !.recs = logs[n].synced]]
          /\ manifests' = [n \in DOMAIN manifests |->
                             [manifests[n] EXCEPT !.edits = SubSeq(@, 1, manifests[n].synced)]]
          /\ \E lost \in SUBSET unlinked : tables' = Keep(tables, DOMAIN tables \ lost)
          /\ acked' = synced
     ELSE UNCHANGED <<logs, manifests, tables, acked>>
  /\ up' = "down" /\ m' = NoMemory /\ todo' = {}
  /\ bgpc' = "idle" /\ compaction' = NoCompaction /\ edit' = NoEdit
  /\ unlinked' = {}
  /\ UNCHANGED <<current, seq, synced, faults>>
-----------------------------------------------------------------------------
(* DB::Open                                                                *)

(* NewDB: a first manifest, not synced, and CURRENT.                       *)
NewDB ==
  /\ up = "down" /\ current = 0
  /\ manifests' = Put(manifests, 1, [edits |-> <<[NoEdit EXCEPT !.next = 2]>>, synced |-> 0])
  /\ current' = 1
  /\ up' = "new"
  /\ UNCHANGED <<logs, tables, unlinked, m, todo, bg, hist, crashes, faults>>

LogsFrom(n) == {l \in DOMAIN logs : l >= n}

(* VersionSet::Recover reads the manifest; one without edits is corrupt.   *)
RecoverManifest ==
  /\ up \in {"down", "new"} /\ current # 0
  /\ LET edits == manifests[current].edits
     IN IF edits = << >>
        THEN up' = "corrupt" /\ UNCHANGED <<m, todo>>
        ELSE LET e == LastEdit(edits)
             IN /\ m' = [NoMemory EXCEPT !.version = VersionOf(edits),
                           !.lognumber = e.log, !.manifest = e.next,
                           !.nextfile = e.next + 1, !.lastseq = e.last]
                /\ todo' = LogsFrom(e.log)
                /\ up' = "logs"
  /\ UNCHANGED <<disk, bg, hist, crashes, faults>>

MarkFileNumberUsed(next, n) == IF next <= n THEN n + 1 ELSE next

NoSequences(last, recs) == last
MaxSequence(last, recs) == MaxOf({last} \cup {seq[x] : x \in recs})

(* RecoverLogFile: the oldest log becomes a table; its number is marked as *)
(* used only then.  Again the status of BuildTable is lost, and the edit   *)
(* may name the deleted file.                                              *)
RecoverLogFile ==
  /\ up = "logs" /\ todo # {}
  /\ LET n == MinOf(todo)
         recs == logs[n].recs
         used == IF recs = {} THEN m.nextfile ELSE m.nextfile + 1
     IN /\ todo' = todo \ {n}
        /\ m' = [m EXCEPT !.nextfile = MarkFileNumberUsed(used, n),
                          !.lastseq = MaxSequence(@, recs)]
        /\ IF recs = {}
           THEN Succeeds /\ UNCHANGED <<tables, unlinked, edit>>
           ELSE \/ /\ Succeeds
                   /\ NewTable(m.nextfile, recs)
                   /\ edit' = [edit EXCEPT !.add = @ \cup {m.nextfile}]
                \/ /\ Fails("rebuild")
                   /\ \E add \in {{}, {m.nextfile}} :
                        edit' = [edit EXCEPT !.add = @ \cup add]
                   /\ UNCHANGED <<tables, unlinked>>
  /\ UNCHANGED <<logs, manifests, current, up, bgpc, compaction, hist, crashes>>

(* A new log file, and the edit that makes the replayed ones obsolete.     *)
NewLog ==
  /\ up = "logs" /\ todo = {}
  /\ logs' = Put(logs, m.nextfile, [recs |-> {}, synced |-> {}])
  /\ m' = [m EXCEPT !.logfile = m.nextfile, !.nextfile = @ + 1]
  /\ edit' = Complete(edit, m.nextfile, m')
  /\ up' = "manifest"
  /\ UNCHANGED <<tables, unlinked, manifests, current, todo, bgpc, compaction, hist, crashes, faults>>

(* LogAndApply with no descriptor log: a new manifest starts with a        *)
(* snapshot of the version, then the edit; both are appended before the    *)
(* sync and are one edit here.  A failure deletes it and Open returns.     *)
OpenFails ==
  /\ manifests' = Keep(manifests, DOMAIN manifests \ {m.manifest})
  /\ up' = "down" /\ m' = NoMemory /\ edit' = NoEdit

WriteSnapshot ==
  /\ up = "manifest"
  /\ \/ /\ Succeeds
        /\ manifests' = Put(manifests, m.manifest,
             [edits |-> <<[edit EXCEPT !.add = @ \cup m.version]>>, synced |-> 0])
        /\ up' = "sync"
        /\ UNCHANGED <<m, edit>>
     \/ Fails("append") /\ OpenFails
  /\ UNCHANGED <<logs, tables, unlinked, current, todo, bgpc, compaction, hist, crashes>>

SyncedNothing == 0
SyncedSnapshot == 1

SyncSnapshot ==
  /\ up = "sync"
  /\ \/ /\ Succeeds
        /\ manifests' = [manifests EXCEPT ![m.manifest].synced = SyncedSnapshot]
        /\ SyncDirIfManifest
        /\ up' = "current"
        /\ UNCHANGED <<m, edit>>
     \/ Fails("sync") /\ OpenFails /\ UNCHANGED unlinked
  /\ UNCHANGED <<logs, tables, current, todo, bgpc, compaction, hist, crashes>>

(* SetCurrentFile: write and sync a temporary file, rename it to CURRENT.  *)
SetCurrentFile ==
  /\ up = "current"
  /\ \/ /\ Succeeds
        /\ current' = m.manifest
        /\ up' = "install"
        /\ UNCHANGED <<manifests, m, edit>>
     \/ Fails("rename") /\ OpenFails /\ UNCHANGED current
  /\ UNCHANGED <<logs, tables, unlinked, todo, bgpc, compaction, hist, crashes>>

OpenDone ==
  /\ up = "install"
  /\ m' = Applied
  /\ DeleteObsoleteFiles(m')
  /\ up' = "open" /\ edit' = NoEdit
  /\ UNCHANGED <<current, todo, bgpc, compaction, hist, crashes, faults>>
-----------------------------------------------------------------------------
OpenStep == NewDB \/ RecoverManifest \/ RecoverLogFile \/ NewLog \/ WriteSnapshot
            \/ SyncSnapshot \/ SetCurrentFile \/ OpenDone
BgStep == CompactMemTable \/ AppendEdit \/ SyncManifest \/ Install \/ GiveUp
          \/ PickCompaction \/ OpenCompactionOutputFile \/ FinishCompaction
Next == \/ \E sync \in BOOLEAN : Write(sync)
        \/ SwitchMem \/ BgStep \/ OpenStep
        \/ \E power \in BOOLEAN : (power => PowerFailures) /\ Crash(power)

Spec == Init /\ [][Next]_vars
-----------------------------------------------------------------------------
(* Properties                                                              *)

(* What DB::Open would find if it read this prefix of the manifest CURRENT *)
(* names: the tables of the version and the log files still needed.        *)
CurrentEdits == IF current \in DOMAIN manifests THEN manifests[current].edits ELSE << >>
SyncedEdits == IF current \in DOMAIN manifests
               THEN SubSeq(manifests[current].edits, 1, manifests[current].synced)
               ELSE << >>
Stored(tabs) == UNION {tables[n] : n \in tabs \cap DOMAIN tables}
Kept == IF CurrentEdits = << >> THEN {}
        ELSE Stored(VersionOf(CurrentEdits))
             \cup UNION {logs[n].recs : n \in LogsFrom(LastEdit(CurrentEdits).log)}
SafelyKept == IF SyncedEdits = << >> THEN {}
              ELSE Stored(VersionOf(SyncedEdits) \ unlinked)
                   \cup UNION {logs[n].synced : n \in LogsFrom(LastEdit(SyncedEdits).log)}
Served == m.mem \cup m.imm \cup Stored(m.version)

(* Whatever the background thread, an Open or an earlier recovery is doing,*)
(* a crash of the process loses no acknowledged write: it is in a table    *)
(* the manifest on disk names or in a log file that manifest still needs.  *)
ProcessSafe == acked \subseteq Kept

(* At every moment a power failure loses no write acknowledged with        *)
(* options.sync, although manifests, logs and tables are synced one by one.*)
PowerSafe == synced \subseteq SafelyKept

(* Every table named by the manifest, in its synced part or all of it, is  *)
(* a file of the database: DeleteObsoleteFiles never removes one too early *)
(* and no edit names one too soon.  The manifest CURRENT names exists.     *)
TablesExist ==
  /\ current # 0 => current \in DOMAIN manifests
  /\ VersionOf(CurrentEdits) \subseteq DOMAIN tables
  /\ VersionOf(SyncedEdits) \subseteq DOMAIN tables \ unlinked

(* Recovery never hands out a sequence number again: among the writes Open *)
(* would find, a later one has the larger number, so it wins.              *)
SequencesOrdered == \A x, y \in Kept : x < y => seq[x] < seq[y]

(* A database that has acknowledged a synced write can be opened again:    *)
(* Open never ends in Corruption.                                          *)
NeverBricked == up = "corrupt" => synced = {}

(* A table that the manifest names is never written again: file numbers    *)
(* are not reused across crashes and recoveries while they are in use.     *)
CommittedTablesKept ==
  [][\A n \in VersionOf(CurrentEdits) \cap VersionOf(CurrentEdits)' :
       n \in DOMAIN tables => n \in DOMAIN tables' /\ tables'[n] = tables[n]]_vars

(* The files implement a store that keeps every write: no step of the      *)
(* background thread, of Open or of the deletion of files changes what is  *)
(* kept, and an open database serves exactly that.                         *)
Store == INSTANCE DurableStore WITH
           kept <- Kept, safe <- synced,
           serving <- up = "open",
           visible <- IF up = "open" THEN Served ELSE {}
ImplementsStore == Store!Spec
=============================================================================
