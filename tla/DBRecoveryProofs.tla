-------------------------- MODULE DBRecoveryProofs --------------------------
(***************************************************************************)
(* Durability and recovery for every number of writes, crashes, faults and *)
(* files.  The invariant follows the files and the memory of the process   *)
(* through DB::Open, flushes, compactions and crashes; from it come the    *)
(* safety properties and the refinement of DurableStore.                   *)
(***************************************************************************)
EXTENDS DBRecovery, WellFoundedInduction, SequenceTheorems, TLAPS

Edit == [add : SUBSET Nat, del : SUBSET Nat, log : Nat, next : Nat, last : Nat]
LogFile == [recs : SUBSET Writes, synced : SUBSET Writes]
Manifest == {f \in [edits : Seq(Edit), synced : Nat] : f.synced <= Len(f.edits)}
Memory == [mem : SUBSET Writes, imm : SUBSET Writes, hasimm : BOOLEAN, logfile : Nat,
           lognumber : Nat, nextfile : Nat, manifest : Nat, version : SUBSET Nat,
           lastseq : Nat, pending : SUBSET Nat, bgerror : BOOLEAN]

TypeOK ==
  /\ logs \in [DOMAIN logs -> LogFile] /\ DOMAIN logs \subseteq Nat
  /\ tables \in [DOMAIN tables -> SUBSET Writes] /\ DOMAIN tables \subseteq Nat
  /\ unlinked \subseteq Nat
  /\ manifests \in [DOMAIN manifests -> Manifest] /\ DOMAIN manifests \subseteq Nat /\ current \in Nat
  /\ up \in {"down", "new", "corrupt", "logs", "manifest", "sync", "current", "install", "open"}
  /\ m \in Memory /\ todo \subseteq Nat
  /\ bgpc \in {"idle", "compact", "apply", "sync", "install", "failed"}
  /\ compaction \in [inputs : SUBSET Nat, out : Nat] /\ edit \in Edit
  /\ seq \in [Writes -> Nat] /\ acked \subseteq Writes /\ synced \subseteq Writes
  /\ crashes \in Nat /\ faults \in Nat

-----------------------------------------------------------------------------
LogRecs(from) == UNION {logs[n].recs : n \in LogsFrom(from)}
RecsOf(S) == UNION {logs[n].recs : n \in S}
Content(es) == Stored(VersionOf(es)) \cup LogRecs(LastEdit(es).log)

\* The sequence numbers of these writes, and of none to come, are within last.
Within(S, last) == /\ \A x \in S : seq[x] <= last
                   /\ \A x \in Writes : seq[x] = 0 => last < x

\* What a manifest with these edits says of the files.
EditsOK(es) ==
  /\ VersionOf(es) \subseteq DOMAIN tables
  /\ \A n \in VersionOf(es) : n < LastEdit(es).next
  /\ LastEdit(es).log < LastEdit(es).next /\ current < LastEdit(es).next
  /\ Within(Stored(VersionOf(es)), LastEdit(es).last)

\* Writes are numbered in the order of their calls, none is stored before it is made.
NumbersInv ==
  /\ \A x \in Writes : seq[x] <= x
  /\ \A x, y \in Writes : x < y /\ seq[x] = 0 => seq[y] = 0
  /\ \A n \in DOMAIN logs : \A x \in logs[n].recs : seq[x] # 0
  /\ \A n \in DOMAIN tables : \A x \in tables[n] : seq[x] # 0
  /\ synced \subseteq acked

\* A log file keeps in its synced part the writes that were synced.
LogsInv ==
  \A n \in DOMAIN logs : logs[n].synced \subseteq logs[n].recs /\ logs[n].recs \cap synced \subseteq logs[n].synced

SafeEntries == EntriesVolatile => DirSynced

\* The manifest that CURRENT names, whole or as far as it is synced, finds the same writes.
DiskInv ==
  /\ current = 0 => up = "down" /\ DOMAIN logs = {} /\ DOMAIN manifests = {}
  /\ current # 0 => current \in DOMAIN manifests /\ manifests[current].synced <= Len(manifests[current].edits)
  /\ CurrentEdits # << >> => EditsOK(CurrentEdits)
  /\ SyncedEdits # << >> => /\ EditsOK(SyncedEdits)
                            /\ Content(SyncedEdits) = Kept
                            /\ LastEdit(SyncedEdits).next <= LastEdit(CurrentEdits).next
                            /\ SafeEntries => VersionOf(SyncedEdits) \cap unlinked = {}
  /\ SyncedEdits = << >> => acked = {}
  /\ ~EntriesVolatile => unlinked = {}

Quiet == bgpc = "idle" /\ compaction = NoCompaction
ClosedInv ==
  /\ up # "open" => Quiet
  /\ up # "logs" => todo = {}
  /\ up \in {"down", "new", "corrupt"} => edit = NoEdit
  /\ up = "corrupt" => CurrentEdits = << >>

EmptyMemory == m.mem = {} /\ m.imm = {} /\ ~m.hasimm /\ m.pending = {}

\* DB::Open before CURRENT is renamed: the memory is that of the old manifest.
RecoverInv ==
  up \in {"logs", "manifest", "sync", "current"} =>
    /\ EmptyMemory /\ CurrentEdits # << >>
    /\ m.version = VersionOf(CurrentEdits) /\ m.lognumber = LastEdit(CurrentEdits).log
    /\ m.manifest = LastEdit(CurrentEdits).next /\ m.manifest < m.nextfile
    /\ edit.del = {} /\ edit.add \subseteq DOMAIN tables
    /\ \A n \in edit.add : m.manifest < n /\ n < m.nextfile
    /\ Within(Stored(m.version), m.lastseq)

\* The logs that have been replayed are in the tables of the edit.
ReplayInv ==
  up = "logs" =>
    /\ todo \subseteq LogsFrom(m.lognumber)
    /\ \A n \in LogsFrom(m.lognumber) \ todo : n < m.nextfile /\ \A x \in logs[n].recs : seq[x] <= m.lastseq
    /\ Stored(edit.add) = RecsOf(LogsFrom(m.lognumber) \ todo)

Snapshot == [edit EXCEPT !.add = edit.add \cup m.version]

\* All of them are: the new manifest holds what the old one and the logs did.
SnapshotInv ==
  up \in {"manifest", "sync", "current", "install"} =>
    /\ EmptyMemory /\ edit.del = {}
    /\ edit.log = m.logfile /\ edit.next = m.nextfile /\ edit.last = m.lastseq
    /\ m.logfile \in DOMAIN logs /\ logs[m.logfile].recs = {} /\ m.logfile < m.nextfile /\ m.manifest < m.nextfile
    /\ \A n \in DOMAIN logs : n <= m.logfile
    /\ edit.add \cup m.version \subseteq DOMAIN tables
    /\ \A n \in edit.add \cup m.version : n < m.nextfile
    /\ Stored(edit.add \cup m.version) = Kept
    /\ Within(Kept, m.lastseq)
    /\ up # "manifest" => m.manifest \in DOMAIN manifests /\ manifests[m.manifest].edits = <<Snapshot>>
    /\ up = "sync" => manifests[m.manifest].synced = 0
    /\ up \in {"current", "install"} => manifests[m.manifest].synced = 1
    /\ up = "current" /\ SafeEntries => unlinked = {}
    /\ up = "install" => current = m.manifest

\* The open database: its logs, its version and the claims of a compaction.
OpenInv ==
  up = "open" =>
    /\ current = m.manifest /\ SyncedEdits # << >> /\ LastEdit(CurrentEdits).next <= m.nextfile
    /\ m.logfile \in DOMAIN logs /\ logs[m.logfile].recs = m.mem
    /\ m.lognumber <= m.logfile /\ m.logfile < m.nextfile /\ \A n \in DOMAIN logs : n <= m.logfile
    /\ LogRecs(m.lognumber) = m.mem \cup m.imm /\ (~m.hasimm => m.imm = {})
    /\ m.version \subseteq DOMAIN tables /\ \A n \in m.version : n < m.nextfile
    /\ Kept = Served /\ Within(Served, m.lastseq)

CompactionInv ==
  up = "open" =>
    /\ compaction.inputs \subseteq m.version
    /\ m.pending = IF compaction.out = 0 THEN {} ELSE {compaction.out}
    /\ compaction.out # 0 => /\ compaction.inputs # {} /\ compaction.out \in DOMAIN tables
                             /\ compaction.out < m.nextfile /\ compaction.out \notin m.version
    /\ bgpc = "idle" => compaction = NoCompaction
    /\ bgpc = "compact" => compaction.inputs # {}
    /\ compaction # NoCompaction => compaction.inputs # {}

\* The edit in hand and the manifest.
EditInv ==
  up = "open" =>
    /\ bgpc \in {"idle", "compact"} => edit = NoEdit
    /\ bgpc \in {"idle", "compact", "apply", "failed"} =>
         /\ VersionOf(CurrentEdits) = m.version /\ LastEdit(CurrentEdits).log = m.lognumber
         /\ manifests[current].synced = Len(manifests[current].edits)
    /\ bgpc \in {"sync", "install"} =>
         /\ VersionOf(CurrentEdits) = (m.version \ edit.del) \cup edit.add /\ LastEdit(CurrentEdits) = edit
    /\ bgpc = "sync" =>
         /\ manifests[current].synced + 1 = Len(manifests[current].edits)
         /\ VersionOf(SyncedEdits) = m.version /\ LastEdit(SyncedEdits).log = m.lognumber
    /\ bgpc = "install" =>
         /\ manifests[current].synced = Len(manifests[current].edits)
    /\ edit.del # {} => compaction.out # 0 /\ edit.del = compaction.inputs /\ edit.add = {compaction.out}
    /\ bgpc \in {"apply", "sync", "install"} =>
         /\ edit.add # {}
         /\ edit.del = {} => /\ m.hasimm /\ edit.log = m.logfile
                             /\ Stored(edit.add) = m.imm
                             /\ \A n \in edit.add : n \notin m.version /\ n # compaction.out
         /\ edit.del # {} => Stored(edit.add) = Stored(edit.del) /\ edit.log = m.lognumber
         /\ edit.add \subseteq DOMAIN tables
         /\ \A n \in edit.add \cup m.version : n < edit.next
         /\ edit.log < edit.next /\ current < edit.next /\ edit.next <= m.nextfile
         /\ LastEdit(CurrentEdits).next <= edit.next
         /\ Within(Stored(m.version \cup edit.add), edit.last)

DiskPart == NumbersInv /\ LogsInv /\ DiskInv /\ ProcessSafe /\ SequencesOrdered
OpeningPart == ClosedInv /\ RecoverInv /\ ReplayInv /\ SnapshotInv
OpenPart == OpenInv /\ CompactionInv /\ EditInv

StoreInv == DiskPart /\ OpeningPart /\ OpenPart

-----------------------------------------------------------------------------
(* Numbers, sequences of edits and sets of files                           *)

LessThan == {ss \in Nat \X Nat : ss[1] < ss[2]}

LEMMA LessThanWellFounded == IsWellFoundedOn(LessThan, Nat)
  BY NatLessThanWellFounded, Zenon DEF OpToRel, LessThan

LEMMA LeastExists ==
  ASSUME NEW S \in SUBSET Nat, S # {}
  PROVE  MinOf(S) \in S /\ \A y \in S : MinOf(S) <= y
<1>1. PICK x \in S : \A y \in S : ~(<<y, x>> \in LessThan)
  BY LessThanWellFounded, WFMin
<1>2. ASSUME NEW y \in S PROVE x <= y
  <2>1. <<y, x>> \in Nat \X Nat /\ ~(<<y, x>> \in LessThan)
    BY <1>1
  <2>2. ~(y < x)
    BY <2>1 DEF LessThan
  <2> QED
    BY <2>1, <2>2
<1> QED
  BY <1>2 DEF MinOf

LEMMA GreatestExists ==
  ASSUME NEW S \in SUBSET Nat, S # {}, NEW b \in Nat, \A y \in S : y <= b
  PROVE  MaxOf(S) \in S /\ \A y \in S : y <= MaxOf(S)
<1>1. PICK U : U = {c \in Nat : \A y \in S : y <= c}
  OBVIOUS
<1>2. U \in SUBSET Nat /\ U # {}
  BY <1>1
<1>3. PICK c : c = MinOf(U) /\ c \in U /\ \A d \in U : c <= d
  BY <1>2, LeastExists
<1>4. c \in Nat /\ \A y \in S : y <= c
  BY <1>1, <1>3
<1>5. c \in S
  <2> SUFFICES ASSUME c \notin S PROVE FALSE
    OBVIOUS
  <2>1. \A y \in S : y < c
    BY <1>4
  <2>2. c - 1 \in Nat /\ \A y \in S : y <= c - 1
    <3>1. PICK z \in S : z \in Nat
      OBVIOUS
    <3>2. c > 0
      BY <1>4, <2>1, <3>1
    <3>3. ASSUME NEW y \in S PROVE y <= c - 1
      BY <1>4, <2>1
    <3> QED
      BY <1>4, <3>2, <3>3
  <2>3. c - 1 \in U
    BY <1>1, <2>2
  <2> QED
    BY <1>3, <1>4, <2>3
<1> QED
  BY <1>4, <1>5 DEF MaxOf

LEMMA VersionAppend ==
  ASSUME NEW es \in Seq(Edit), NEW e \in Edit
  PROVE  /\ VersionOf(Append(es, e)) = (VersionOf(es) \ e.del) \cup e.add
         /\ LastEdit(Append(es, e)) = e /\ Append(es, e) # << >>
         /\ SubSeq(Append(es, e), 1, Len(es)) = es
         /\ SubSeq(Append(es, e), 1, Len(Append(es, e))) = Append(es, e)
         /\ Append(es, e) \in Seq(Edit) /\ Len(Append(es, e)) = Len(es) + 1
<1>1. PICK fs : fs = Append(es, e)
  OBVIOUS
<1>2. /\ fs \in Seq(Edit) /\ Len(fs) = Len(es) + 1 /\ fs[Len(es) + 1] = e /\ DOMAIN fs = 1..(Len(es) + 1)
      /\ DOMAIN es = 1..Len(es) /\ \A i \in 1..Len(es) : fs[i] = es[i]
      /\ Len(es) \in Nat
  BY <1>1
<1>3. \A i \in DOMAIN fs : i \in DOMAIN es \/ i = Len(es) + 1
  BY <1>2
<1>4. \A i \in DOMAIN es : i \in DOMAIN fs /\ fs[i] = es[i] /\ i < Len(es) + 1 /\ i \in Nat
  BY <1>2
<1>5. Len(es) + 1 \in DOMAIN fs
  BY <1>2
<1>6. ASSUME NEW n \in VersionOf(fs) PROVE n \in (VersionOf(es) \ e.del) \cup e.add
  <2>1. PICK i \in DOMAIN fs : n \in fs[i].add /\ \A j \in DOMAIN fs : j > i => n \notin fs[j].del
    BY <1>6 DEF VersionOf
  <2>2. CASE i = Len(es) + 1
    BY <2>1, <2>2, <1>2
  <2>3. CASE i \in DOMAIN es
    <3>1. n \in es[i].add /\ n \notin e.del
      BY <2>1, <2>3, <1>2, <1>4, <1>5
    <3>2. \A j \in DOMAIN es : j > i => n \notin es[j].del
      BY <2>1, <1>4
    <3> QED
      BY <2>3, <3>1, <3>2 DEF VersionOf
  <2> QED
    BY <2>1, <2>2, <2>3, <1>3
<1>7. ASSUME NEW n \in e.add PROVE n \in VersionOf(fs)
  <2>1. \A j \in DOMAIN fs : ~(j > Len(es) + 1)
    BY <1>2
  <2> QED
    BY <1>2, <1>5, <1>7, <2>1 DEF VersionOf
<1>8. ASSUME NEW n \in VersionOf(es), n \notin e.del PROVE n \in VersionOf(fs)
  <2>1. PICK i \in DOMAIN es : n \in es[i].add /\ \A j \in DOMAIN es : j > i => n \notin es[j].del
    BY <1>8 DEF VersionOf
  <2>2. i \in DOMAIN fs /\ n \in fs[i].add
    BY <1>4, <2>1
  <2>3. \A j \in DOMAIN fs : j > i => n \notin fs[j].del
    BY <1>2, <1>3, <1>4, <1>8, <2>1
  <2> QED
    BY <2>2, <2>3 DEF VersionOf
<1>9. VersionOf(fs) = (VersionOf(es) \ e.del) \cup e.add
  BY <1>6, <1>7, <1>8
<1>10. LastEdit(fs) = e /\ fs # << >>
  BY <1>2 DEF LastEdit
<1>11. SubSeq(fs, 1, Len(es)) = es
  BY <1>1, <1>2
<1>12. SubSeq(fs, 1, Len(fs)) = fs
  BY <1>2, SubSeqFull
<1> QED
  BY <1>1, <1>2, <1>9, <1>10, <1>11, <1>12

LEMMA VersionOne ==
  ASSUME NEW e \in Edit
  PROVE  /\ VersionOf(<<e>>) = e.add /\ LastEdit(<<e>>) = e /\ <<e>> # << >>
         /\ Len(<<e>>) = 1 /\ <<e>> \in Seq(Edit) /\ SubSeq(<<e>>, 1, 1) = <<e>> /\ SubSeq(<<e>>, 1, 0) = << >>
<1>1. DOMAIN <<e>> = {1} /\ <<e>>[1] = e /\ Len(<<e>>) = 1 /\ <<e>> \in Seq(Edit)
  OBVIOUS
<1>2. VersionOf(<<e>>) = e.add
  BY <1>1 DEF VersionOf
<1>3. SubSeq(<<e>>, 1, 1) = <<e>>
  BY <1>1, SubSeqFull
<1>4. SubSeq(<<e>>, 1, 0) = << >>
  BY SubSeqEmpty
<1> QED
  BY <1>1, <1>2, <1>3, <1>4 DEF LastEdit

LEMMA VersionType ==
  ASSUME NEW es \in Seq(Edit)
  PROVE  /\ VersionOf(es) \subseteq Nat
         /\ es # << >> => LastEdit(es) \in Edit
         /\ SubSeq(es, 1, Len(es)) = es
         /\ \A k \in 0..Len(es) : SubSeq(es, 1, k) \in Seq(Edit) /\ Len(SubSeq(es, 1, k)) = k
<1>1. \A i \in DOMAIN es : es[i] \in Edit
  OBVIOUS
<1>2. VersionOf(es) \subseteq Nat
  BY <1>1 DEF VersionOf, Edit
<1>3. es # << >> => LastEdit(es) \in Edit
  BY DEF LastEdit
<1>4. SubSeq(es, 1, Len(es)) = es
  BY SubSeqFull
<1>5. ASSUME NEW k \in 0..Len(es) PROVE SubSeq(es, 1, k) \in Seq(Edit) /\ Len(SubSeq(es, 1, k)) = k
  BY SubSeqProperties
<1> QED
  BY <1>2, <1>3, <1>4, <1>5

-----------------------------------------------------------------------------
(* Steps that leave the files a recovery would read as they are            *)

FilesKept ==
  /\ UNCHANGED <<current, seq, acked, synced>> /\ current # 0
  /\ current \in DOMAIN manifests' /\ manifests'[current] = manifests[current]
  /\ \A n \in VersionOf(CurrentEdits) \cup VersionOf(SyncedEdits) : n \in DOMAIN tables' /\ tables'[n] = tables[n]
  /\ \A n \in DOMAIN tables' : \A x \in tables'[n] : seq[x] # 0
  /\ \A n \in DOMAIN logs' : \/ n \in DOMAIN logs /\ logs'[n] = logs[n]
                             \/ n \notin DOMAIN logs /\ logs'[n].recs = {} /\ logs'[n].synced = {}
  /\ \A n \in DOMAIN logs : \/ CurrentEdits # << >> /\ n >= LastEdit(CurrentEdits).log
                            \/ SyncedEdits # << >> /\ n >= LastEdit(SyncedEdits).log
                            => n \in DOMAIN logs'
  /\ VersionOf(SyncedEdits) \cap unlinked' \subseteq unlinked
  /\ ~EntriesVolatile => unlinked' = {}

\* A table that was named and still is is the same file.
CommittedStep == \A n \in VersionOf(CurrentEdits) \cap VersionOf(CurrentEdits)' :
                   n \in DOMAIN tables => n \in DOMAIN tables' /\ tables'[n] = tables[n]
SameStore == Kept' = Kept /\ CommittedStep

LEMMA DiskTypes ==
  ASSUME TypeOK, DiskInv
  PROVE  /\ CurrentEdits \in Seq(Edit) /\ SyncedEdits \in Seq(Edit)
         /\ VersionOf(CurrentEdits) \subseteq Nat /\ VersionOf(SyncedEdits) \subseteq Nat
         /\ CurrentEdits # << >> => LastEdit(CurrentEdits) \in Edit
         /\ SyncedEdits # << >> => LastEdit(SyncedEdits) \in Edit /\ CurrentEdits # << >>
         /\ CurrentEdits = << >> => VersionOf(CurrentEdits) = {}
         /\ SyncedEdits = << >> => VersionOf(SyncedEdits) = {}
         /\ current # 0 => /\ CurrentEdits = manifests[current].edits
                           /\ SyncedEdits = SubSeq(manifests[current].edits, 1, manifests[current].synced)
                           /\ manifests[current] \in Manifest
         /\ current = 0 => CurrentEdits = << >> /\ SyncedEdits = << >>
<1>1. CASE current = 0
  <2>1. CurrentEdits = << >> /\ SyncedEdits = << >>
    BY <1>1 DEF DiskInv, CurrentEdits, SyncedEdits
  <2>2. << >> \in Seq(Edit) /\ VersionOf(<< >>) = {}
    BY DEF VersionOf
  <2> QED
    BY <1>1, <2>1, <2>2
<1>2. CASE current # 0
  <2>1. current \in DOMAIN manifests /\ manifests[current] \in Manifest
    BY <1>2 DEF DiskInv, TypeOK
  <2>2. PICK es, k : es = manifests[current].edits /\ k = manifests[current].synced
    OBVIOUS
  <2>3. es \in Seq(Edit) /\ k \in Nat /\ k <= Len(es)
    BY <1>2, <2>1, <2>2 DEF Manifest, DiskInv
  <2>4. CurrentEdits = es /\ SyncedEdits = SubSeq(es, 1, k)
    BY <2>1, <2>2 DEF CurrentEdits, SyncedEdits
  <2>5. SubSeq(es, 1, k) \in Seq(Edit) /\ Len(SubSeq(es, 1, k)) = k
    BY <2>3, VersionType
  <2>6. SubSeq(es, 1, k) # << >> => es # << >>
    BY <2>3, <2>5
  <2>7. VersionOf(<< >>) = {}
    BY DEF VersionOf
  <2>8. \A fs \in Seq(Edit) : VersionOf(fs) \subseteq Nat /\ (fs # << >> => LastEdit(fs) \in Edit)
    BY VersionType
  <2> QED
    BY <1>2, <2>1, <2>2, <2>3, <2>4, <2>5, <2>6, <2>7, <2>8
<1> QED
  BY <1>1, <1>2

\* The writes in unchanged tables.
LEMMA StoredSame ==
  ASSUME NEW S, S \subseteq DOMAIN tables, \A n \in S : n \in DOMAIN tables' /\ tables'[n] = tables[n]
  PROVE  Stored(S)' = Stored(S)
<1>1. Stored(S) = UNION {tables[n] : n \in S \cap DOMAIN tables}
  BY DEF Stored
<1>2. Stored(S)' = UNION {tables'[n] : n \in S \cap DOMAIN tables'}
  BY DEF Stored
<1>3. ASSUME NEW x \in Stored(S) PROVE x \in Stored(S)'
  BY <1>1, <1>2, <1>3
<1>4. ASSUME NEW x \in Stored(S)' PROVE x \in Stored(S)
  BY <1>1, <1>2, <1>4
<1> QED
  BY <1>3, <1>4

\* The writes in log files from number k on: files may be added empty, or go below k.
LEMMA LogRecsSame ==
  ASSUME NEW k,
         \A n \in DOMAIN logs' : \/ n \in DOMAIN logs /\ logs'[n] = logs[n]
                                 \/ n \notin DOMAIN logs /\ logs'[n].recs = {} /\ logs'[n].synced = {},
         \A n \in DOMAIN logs : n >= k => n \in DOMAIN logs'
  PROVE  LogRecs(k)' = LogRecs(k)
<1>1. LogRecs(k) = UNION {logs[n].recs : n \in {l \in DOMAIN logs : l >= k}}
  BY DEF LogRecs, LogsFrom
<1>2. LogRecs(k)' = UNION {logs'[n].recs : n \in {l \in DOMAIN logs' : l >= k}}
  BY DEF LogRecs, LogsFrom
<1>3. ASSUME NEW x \in LogRecs(k) PROVE x \in LogRecs(k)'
  BY <1>1, <1>2, <1>3
<1>4. ASSUME NEW x \in LogRecs(k)' PROVE x \in LogRecs(k)
  BY <1>1, <1>2, <1>4
<1> QED
  BY <1>3, <1>4

LEMMA KeptIs ==
  /\ CurrentEdits # << >> => Kept = Content(CurrentEdits)
  /\ CurrentEdits = << >> => Kept = {}
BY DEF Kept, Content, LogRecs

LEMMA FilesKeptStep ==
  ASSUME TypeOK, TypeOK', DiskPart, FilesKept
  PROVE  DiskPart' /\ SameStore /\ Kept' = Kept /\ CurrentEdits' = CurrentEdits /\ SyncedEdits' = SyncedEdits
<1>1. CurrentEdits' = CurrentEdits /\ SyncedEdits' = SyncedEdits
  BY DEF FilesKept, CurrentEdits, SyncedEdits, DiskPart, DiskInv
<1>2. PICK es, fs : es = CurrentEdits /\ fs = SyncedEdits
  OBVIOUS
<1>3. PICK cv, sv, ce, se : cv = VersionOf(es) /\ sv = VersionOf(fs) /\ ce = LastEdit(es) /\ se = LastEdit(fs)
  OBVIOUS
<1>4. Content(es) = Stored(cv) \cup LogRecs(ce.log) /\ Content(fs) = Stored(sv) \cup LogRecs(se.log)
  BY <1>3 DEF Content
<1>5. Content(es)' = Stored(cv)' \cup LogRecs(ce.log)' /\ Content(fs)' = Stored(sv)' \cup LogRecs(se.log)'
  BY <1>3 DEF Content, Stored, LogRecs, LogsFrom
<1>6. /\ es # << >> => EditsOK(es) /\ cv \subseteq DOMAIN tables
      /\ fs # << >> => EditsOK(fs) /\ sv \subseteq DOMAIN tables
  BY <1>2, <1>3 DEF DiskPart, DiskInv, EditsOK
<1>7. /\ es # << >> => Stored(cv)' = Stored(cv) /\ LogRecs(ce.log)' = LogRecs(ce.log)
      /\ fs # << >> => Stored(sv)' = Stored(sv) /\ LogRecs(se.log)' = LogRecs(se.log)
  <2>1. ASSUME es # << >> PROVE Stored(cv)' = Stored(cv)
    BY <1>2, <1>3, <1>6, <2>1, StoredSame DEF FilesKept
  <2>2. ASSUME fs # << >> PROVE Stored(sv)' = Stored(sv)
    BY <1>2, <1>3, <1>6, <2>2, StoredSame DEF FilesKept
  <2>3. ASSUME es # << >> PROVE LogRecs(ce.log)' = LogRecs(ce.log)
    BY <1>2, <1>3, <2>3, LogRecsSame DEF FilesKept
  <2>4. ASSUME fs # << >> PROVE LogRecs(se.log)' = LogRecs(se.log)
    BY <1>2, <1>3, <2>4, LogRecsSame DEF FilesKept
  <2> QED
    BY <2>1, <2>2, <2>3, <2>4
<1>8. /\ es # << >> => Content(es)' = Content(es)
      /\ fs # << >> => Content(fs)' = Content(fs)
  BY <1>4, <1>5, <1>7
<1>9. Kept' = Kept
  <2>1. CASE es = << >>
    BY <1>1, <1>2, <2>1 DEF Kept
  <2>2. CASE es # << >>
    <3>1. Kept = Content(es)
      BY <1>2, <2>2, KeptIs
    <3>2. Kept' = Content(es)'
      BY <1>1, <1>2, <2>2 DEF Kept, Content, LogRecs, LogsFrom, Stored
    <3> QED
      BY <1>8, <2>2, <3>1, <3>2
  <2> QED
    BY <2>1, <2>2
<1>10. UNCHANGED <<current, seq, acked, synced>> /\ current # 0
  BY DEF FilesKept
<1>11. NumbersInv'
  <2>1. \A n \in DOMAIN logs' : \A x \in logs'[n].recs : seq[x] # 0
    BY DEF FilesKept, DiskPart, NumbersInv
  <2>2. \A n \in DOMAIN tables' : \A x \in tables'[n] : seq[x] # 0
    BY DEF FilesKept
  <2> QED
    BY <1>10, <2>1, <2>2 DEF DiskPart, NumbersInv
<1>12. LogsInv'
  BY <1>10 DEF FilesKept, DiskPart, LogsInv
<1>13. ProcessSafe' /\ SequencesOrdered'
  BY <1>9, <1>10 DEF DiskPart, ProcessSafe, SequencesOrdered
<1>14. (es # << >> => EditsOK(es)') /\ (fs # << >> => EditsOK(fs)')
  <2>1. ASSUME es # << >> PROVE EditsOK(es)'
    <3>1. Within(Stored(cv), ce.last)'
      BY <1>3, <1>6, <1>7, <1>10, <2>1 DEF EditsOK, Within
    <3>2. cv \subseteq DOMAIN tables'
      BY <1>2, <1>3 DEF FilesKept
    <3> QED
      BY <1>3, <1>6, <1>10, <2>1, <3>1, <3>2 DEF EditsOK, Within, Stored
  <2>2. ASSUME fs # << >> PROVE EditsOK(fs)'
    <3>1. Within(Stored(sv), se.last)'
      BY <1>3, <1>6, <1>7, <1>10, <2>2 DEF EditsOK, Within
    <3>2. sv \subseteq DOMAIN tables'
      BY <1>2, <1>3 DEF FilesKept
    <3> QED
      BY <1>3, <1>6, <1>10, <2>2, <3>1, <3>2 DEF EditsOK, Within, Stored
  <2> QED
    BY <2>1, <2>2
<1>15. DiskInv'
  <2>1. current' # 0 /\ current' \in DOMAIN manifests'
        /\ manifests'[current'].synced <= Len(manifests'[current'].edits)
    BY <1>10 DEF FilesKept, DiskPart, DiskInv
  <2>2. (CurrentEdits # << >> => EditsOK(CurrentEdits))'
    BY <1>1, <1>2, <1>14 DEF EditsOK, Within, Stored
  <2>3. (SyncedEdits # << >> => EditsOK(SyncedEdits))'
    BY <1>1, <1>2, <1>14 DEF EditsOK, Within, Stored
  <2>4. ASSUME fs # << >> PROVE (Content(SyncedEdits) = Kept)'
    <3>1. Content(fs)' = Kept'
      BY <1>2, <1>8, <1>9, <2>4 DEF DiskPart, DiskInv
    <3> QED
      BY <1>1, <1>2, <3>1 DEF Content, Stored, LogRecs, LogsFrom
  <2>5. ASSUME fs # << >>, SafeEntries PROVE VersionOf(SyncedEdits)' \cap unlinked' = {}
    BY <1>1, <1>2, <2>5 DEF FilesKept, DiskPart, DiskInv
  <2>6. fs # << >> => (LastEdit(SyncedEdits).next <= LastEdit(CurrentEdits).next)'
    BY <1>1, <1>2 DEF DiskPart, DiskInv
  <2>7. fs = << >> => acked' = {}
    BY <1>2, <1>10 DEF DiskPart, DiskInv
  <2>8. ~EntriesVolatile => unlinked' = {}
    BY DEF FilesKept
  <2> QED
    BY <1>1, <1>2, <2>1, <2>2, <2>3, <2>4, <2>5, <2>6, <2>7, <2>8 DEF DiskInv, SafeEntries
<1>16. SameStore
  BY <1>9 DEF SameStore, CommittedStep, FilesKept
<1> QED
  BY <1>1, <1>9, <1>11, <1>12, <1>13, <1>15, <1>16 DEF DiskPart

-----------------------------------------------------------------------------
(* Types                                                                   *)

LEMMA MemoryUpdates ==
  ASSUME NEW s \in Memory, NEW ws \in SUBSET Writes, NEW i \in Nat, NEW j \in Nat, NEW k \in Nat, NEW l \in Nat,
         NEW ns \in SUBSET Nat, NEW vs \in SUBSET Nat
  PROVE  /\ [s EXCEPT !.mem = ws, !.lastseq = i] \in Memory
         /\ [s EXCEPT !.imm = ws, !.hasimm = TRUE, !.mem = {}, !.logfile = i, !.nextfile = j] \in Memory
         /\ [s EXCEPT !.nextfile = i] \in Memory
         /\ [s EXCEPT !.version = vs, !.lognumber = i] \in Memory
         /\ [s EXCEPT !.imm = {}, !.hasimm = FALSE] \in Memory
         /\ [s EXCEPT !.pending = ns] \in Memory
         /\ [s EXCEPT !.bgerror = TRUE] \in Memory
         /\ [s EXCEPT !.nextfile = i, !.pending = ns] \in Memory
         /\ [s EXCEPT !.nextfile = i, !.lastseq = j] \in Memory
         /\ [s EXCEPT !.logfile = i, !.nextfile = j] \in Memory
         /\ [s EXCEPT !.version = vs, !.lognumber = i, !.manifest = j, !.nextfile = k, !.lastseq = l] \in Memory
<1>1. [s EXCEPT !.mem = ws, !.lastseq = i] \in Memory
  BY Zenon DEF Memory
<1>2. [s EXCEPT !.imm = ws, !.hasimm = TRUE, !.mem = {}, !.logfile = i, !.nextfile = j] \in Memory
  BY Zenon DEF Memory
<1>3. [s EXCEPT !.nextfile = i] \in Memory
  BY Zenon DEF Memory
<1>4. [s EXCEPT !.version = vs, !.lognumber = i] \in Memory
  BY Zenon DEF Memory
<1>5. [s EXCEPT !.imm = {}, !.hasimm = FALSE] \in Memory
  BY Zenon DEF Memory
<1>6. [s EXCEPT !.pending = ns] \in Memory
  BY Zenon DEF Memory
<1>7. [s EXCEPT !.bgerror = TRUE] \in Memory
  BY Zenon DEF Memory
<1>8. [s EXCEPT !.nextfile = i, !.pending = ns] \in Memory
  BY Zenon DEF Memory
<1>9. [s EXCEPT !.nextfile = i, !.lastseq = j] \in Memory
  BY Zenon DEF Memory
<1>10. [s EXCEPT !.logfile = i, !.nextfile = j] \in Memory
  BY Zenon DEF Memory
<1>11. [s EXCEPT !.version = vs, !.lognumber = i, !.manifest = j, !.nextfile = k, !.lastseq = l] \in Memory
  BY Zenon DEF Memory
<1> QED
  BY <1>1, <1>2, <1>3, <1>4, <1>5, <1>6, <1>7, <1>8, <1>9, <1>10, <1>11

LEMMA ManifestUpdates ==
  ASSUME NEW f \in Manifest, NEW es \in Seq(Edit), NEW k \in Nat
  PROVE  /\ f.synced <= Len(es) => [f EXCEPT !.edits = es] \in Manifest
         /\ k <= Len(es) => [edits |-> es, synced |-> k] \in Manifest
<1>1. f \in [edits : Seq(Edit), synced : Nat]
  BY DEF Manifest
<1>2. PICK g : g = [f EXCEPT !.edits = es]
  OBVIOUS
<1>3. g \in [edits : Seq(Edit), synced : Nat] /\ g.edits = es /\ g.synced = f.synced
  BY <1>1, <1>2
<1>4. f.synced <= Len(es) => g \in Manifest
  BY <1>3 DEF Manifest
<1>5. PICK h : h = [edits |-> es, synced |-> k]
  OBVIOUS
<1>6. h \in [edits : Seq(Edit), synced : Nat] /\ h.edits = es /\ h.synced = k
  BY <1>5
<1>7. k <= Len(es) => h \in Manifest
  BY <1>6 DEF Manifest
<1> QED
  BY <1>2, <1>4, <1>5, <1>7

LEMMA MemoryTypes ==
  ASSUME TypeOK
  PROVE  /\ m.mem \in SUBSET Writes /\ m.imm \in SUBSET Writes /\ m.hasimm \in BOOLEAN
         /\ m.logfile \in Nat /\ m.lognumber \in Nat /\ m.nextfile \in Nat /\ m.manifest \in Nat
         /\ m.version \in SUBSET Nat /\ m.lastseq \in Nat /\ m.pending \in SUBSET Nat /\ m.bgerror \in BOOLEAN
         /\ edit.add \in SUBSET Nat /\ edit.del \in SUBSET Nat /\ edit.log \in Nat /\ edit.next \in Nat
         /\ edit.last \in Nat /\ compaction.inputs \in SUBSET Nat /\ compaction.out \in Nat
         /\ NoEdit \in Edit /\ NoMemory \in Memory /\ NoCompaction \in [inputs : SUBSET Nat, out : Nat]
         /\ m \in Memory /\ edit \in Edit
BY DEF TypeOK, Memory, Edit, NoEdit, NoMemory, NoCompaction

\* The files after one is created or some are deleted.
LEMMA FilesTyped ==
  ASSUME NEW f, NEW S, f \in [DOMAIN f -> S], DOMAIN f \subseteq Nat,
         NEW n \in Nat, NEW v \in S, NEW T, NEW g, g = Put(f, n, v) \/ g = Keep(f, T)
  PROVE  g \in [DOMAIN g -> S] /\ DOMAIN g \subseteq Nat
<1>1. CASE g = Put(f, n, v)
  <2>1. DOMAIN g = DOMAIN f \cup {n} /\ g = [x \in DOMAIN f \cup {n} |-> IF x = n THEN v ELSE f[x]]
    BY <1>1 DEF Put
  <2> QED
    BY <2>1
<1>2. CASE g = Keep(f, T)
  <2>1. DOMAIN g = DOMAIN f \cap T /\ g = [x \in DOMAIN f \cap T |-> f[x]]
    BY <1>2 DEF Keep
  <2> QED
    BY <2>1
<1> QED
  BY <1>1, <1>2

-----------------------------------------------------------------------------
(* Frames                                                                  *)

LEMMA WhileOpen ==
  ASSUME up' = "open", todo' = {}
  PROVE  OpeningPart'
BY DEF OpeningPart, ClosedInv, RecoverInv, ReplayInv, SnapshotInv

LEMMA WhileClosed ==
  ASSUME up' # "open"
  PROVE  OpenPart'
BY DEF OpenPart, OpenInv, CompactionInv, EditInv

LEMMA WithinSame ==
  ASSUME NEW S, NEW last, Within(S, last), \A x \in S : seq'[x] = seq[x],
         \A x \in Writes : seq'[x] = 0 => seq[x] = 0
  PROVE  Within(S, last)'
BY DEF Within

\* Whatever is on disk has been written.
LEMMA KeptWritten ==
  ASSUME TypeOK, DiskPart
  PROVE  /\ \A S : \A x \in Stored(S) : x \in Writes /\ seq[x] # 0
         /\ \A k : \A x \in LogRecs(k) : x \in Writes /\ seq[x] # 0
         /\ \A x \in Kept : x \in Writes /\ seq[x] # 0
<1>1. ASSUME NEW S, NEW x \in Stored(S) PROVE x \in Writes /\ seq[x] # 0
  BY <1>1 DEF Stored, TypeOK, DiskPart, NumbersInv
<1>2. ASSUME NEW k, NEW x \in LogRecs(k) PROVE x \in Writes /\ seq[x] # 0
  <2>1. PICK n \in DOMAIN logs : x \in logs[n].recs
    BY <1>2 DEF LogRecs, LogsFrom
  <2>2. logs[n] \in LogFile
    BY DEF TypeOK
  <2> QED
    BY <2>1, <2>2 DEF LogFile, DiskPart, NumbersInv
<1>3. ASSUME NEW x \in Kept PROVE x \in Writes /\ seq[x] # 0
  <2>1. x \in Stored(VersionOf(CurrentEdits)) \/ x \in LogRecs(LastEdit(CurrentEdits).log)
    BY <1>3, KeptIs DEF Content
  <2> QED
    BY <1>1, <1>2, <2>1
<1> QED
  BY <1>1, <1>2, <1>3

\* The manifest of an open database.
LEMMA OpenEdits ==
  ASSUME TypeOK, DiskPart, OpenPart, up = "open"
  PROVE  /\ CurrentEdits # << >> /\ SyncedEdits # << >> /\ current # 0 /\ current \in DOMAIN manifests
         /\ LastEdit(CurrentEdits) \in Edit /\ LastEdit(SyncedEdits) \in Edit
         /\ LastEdit(CurrentEdits).log <= m.logfile /\ LastEdit(SyncedEdits).log <= m.logfile
         /\ LastEdit(CurrentEdits).log >= m.lognumber /\ LastEdit(SyncedEdits).log >= m.lognumber
         /\ bgpc # "sync" => SyncedEdits = CurrentEdits
         /\ \A n \in VersionOf(CurrentEdits) \cup VersionOf(SyncedEdits) : n < m.nextfile /\ n \in DOMAIN tables
         /\ EditsOK(CurrentEdits) /\ EditsOK(SyncedEdits)
<1>1. SyncedEdits # << >> /\ LastEdit(CurrentEdits).next <= m.nextfile /\ m.lognumber <= m.logfile
  BY DEF OpenPart, OpenInv
<1>2. /\ CurrentEdits # << >> /\ current # 0 /\ current \in DOMAIN manifests
      /\ LastEdit(CurrentEdits) \in Edit /\ LastEdit(SyncedEdits) \in Edit
      /\ CurrentEdits = manifests[current].edits /\ manifests[current] \in Manifest
      /\ SyncedEdits = SubSeq(manifests[current].edits, 1, manifests[current].synced)
      /\ VersionOf(CurrentEdits) \subseteq Nat /\ VersionOf(SyncedEdits) \subseteq Nat
  BY <1>1, DiskTypes DEF DiskPart, DiskInv
<1>3. /\ EditsOK(CurrentEdits) /\ EditsOK(SyncedEdits)
      /\ LastEdit(SyncedEdits).next <= LastEdit(CurrentEdits).next
  BY <1>1, <1>2 DEF DiskPart, DiskInv
<1>4. bgpc # "sync" => SyncedEdits = CurrentEdits
  <2> SUFFICES ASSUME bgpc # "sync" PROVE SyncedEdits = CurrentEdits
    OBVIOUS
  <2>1. manifests[current].synced = Len(manifests[current].edits)
    BY DEF OpenPart, EditInv, TypeOK
  <2>2. manifests[current].edits \in Seq(Edit)
    BY <1>2 DEF Manifest
  <2> QED
    BY <1>2, <2>1, <2>2, VersionType
<1>5. /\ m.logfile \in Nat /\ m.lognumber \in Nat /\ m.nextfile \in Nat /\ edit.log \in Nat
      /\ LastEdit(CurrentEdits).next \in Nat /\ LastEdit(SyncedEdits).next \in Nat
  BY <1>2, MemoryTypes DEF Edit
<1>6. \A n \in VersionOf(CurrentEdits) \cup VersionOf(SyncedEdits) : n < m.nextfile /\ n \in DOMAIN tables
  BY <1>1, <1>2, <1>3, <1>5 DEF EditsOK
<1>7. LastEdit(CurrentEdits).log <= m.logfile /\ LastEdit(CurrentEdits).log >= m.lognumber
  <2>1. CASE bgpc \in {"sync", "install"}
    <3>1. LastEdit(CurrentEdits) = edit /\ (edit.log = m.logfile \/ edit.log = m.lognumber)
      BY <2>1 DEF OpenPart, EditInv
    <3> QED
      BY <1>1, <1>5, <3>1
  <2>2. CASE bgpc \notin {"sync", "install"}
    <3>1. LastEdit(CurrentEdits).log = m.lognumber
      BY <2>2 DEF OpenPart, EditInv, TypeOK
    <3> QED
      BY <1>1, <1>5, <3>1
  <2> QED
    BY <2>1, <2>2
<1>8. LastEdit(SyncedEdits).log <= m.logfile /\ LastEdit(SyncedEdits).log >= m.lognumber
  <2>1. CASE bgpc = "sync"
    <3>1. LastEdit(SyncedEdits).log = m.lognumber
      BY <2>1 DEF OpenPart, EditInv
    <3> QED
      BY <1>1, <1>5, <3>1
  <2>2. CASE bgpc # "sync"
    BY <1>4, <1>7, <2>2
  <2> QED
    BY <2>1, <2>2
<1> QED
  BY <1>1, <1>2, <1>3, <1>4, <1>6, <1>7, <1>8

\* A step of a writer leaves the edit and the compaction in hand alone.
LEMMA BackgroundSame ==
  ASSUME TypeOK, TypeOK', DiskPart, OpenPart, up = "open", up' = "open",
         UNCHANGED <<bgpc, compaction, edit, current, manifests, tables>>,
         m'.version = m.version, m'.lognumber = m.lognumber, m'.pending = m.pending, m.nextfile <= m'.nextfile,
         m.hasimm => m'.hasimm /\ m'.imm = m.imm /\ m'.logfile = m.logfile,
         \A x \in Writes : seq[x] # 0 => seq'[x] = seq[x], \A x \in Writes : seq'[x] = 0 => seq[x] = 0
  PROVE  CompactionInv' /\ EditInv'
<1>1. CurrentEdits' = CurrentEdits /\ SyncedEdits' = SyncedEdits
  BY DEF CurrentEdits, SyncedEdits
<1>2. m.nextfile \in Nat /\ m'.nextfile \in Nat /\ edit.next \in Nat /\ compaction.out \in Nat
  BY MemoryTypes DEF TypeOK, Memory
<1>3. CompactionInv'
  BY <1>2 DEF OpenPart, CompactionInv
<1>4. PICK vs, add : vs = m.version \cup edit.add /\ add = edit.add
  OBVIOUS
<1>5. bgpc \in {"apply", "sync", "install"} => Within(Stored(vs), edit.last)'
  <2> SUFFICES ASSUME bgpc \in {"apply", "sync", "install"} PROVE Within(Stored(vs), edit.last)'
    OBVIOUS
  <2>1. PICK S, l : S = Stored(vs) /\ l = edit.last
    OBVIOUS
  <2>2. Within(S, l)
    BY <1>4, <2>1 DEF OpenPart, EditInv
  <2>3. \A x \in S : x \in Writes /\ seq[x] # 0
    BY <2>1, KeptWritten
  <2>4. Within(S, l)'
    BY <2>2, <2>3, WithinSame
  <2> QED
    BY <2>1, <2>4 DEF Within, Stored
<1>6. EditInv'
  BY <1>1, <1>2, <1>4, <1>5 DEF OpenPart, EditInv, Stored
<1> QED
  BY <1>3, <1>6

-----------------------------------------------------------------------------
(* Writers                                                                 *)

LEMMA SwitchMemStep ==
  ASSUME TypeOK, StoreInv, SwitchMem
  PROVE  TypeOK' /\ StoreInv' /\ SameStore
<1> USE DEF StoreInv
<1>1. /\ up = "open" /\ up' = "open" /\ ~m.hasimm /\ todo' = todo
      /\ logs' = Put(logs, m.nextfile, [recs |-> {}, synced |-> {}])
      /\ UNCHANGED <<tables, unlinked, manifests, current, bgpc, compaction, edit, seq, acked, synced, crashes, faults>>
  BY DEF SwitchMem, bg, hist
<1>2. /\ m' = [m EXCEPT !.imm = m.mem, !.hasimm = TRUE, !.mem = {},
                        !.logfile = m.nextfile, !.nextfile = m.nextfile + 1]
      /\ m'.imm = m.mem /\ m'.hasimm /\ m'.mem = {} /\ m'.logfile = m.nextfile /\ m'.nextfile = m.nextfile + 1
      /\ m'.version = m.version /\ m'.lognumber = m.lognumber /\ m'.pending = m.pending
      /\ m'.manifest = m.manifest /\ m'.lastseq = m.lastseq
  BY DEF SwitchMem, TypeOK, Memory
<1>3. /\ m.nextfile \in Nat /\ m.logfile \in Nat /\ m.lognumber \in Nat /\ m.mem \in SUBSET Writes /\ m \in Memory
      /\ m.nextfile + 1 \in Nat
  BY MemoryTypes
<1>4. TypeOK'
  <2>1. m' \in Memory
    BY <1>2, <1>3, MemoryUpdates, ZenonT(40)
  <2>2. logs' \in [DOMAIN logs' -> LogFile] /\ DOMAIN logs' \subseteq Nat
    <3>1. [recs |-> {}, synced |-> {}] \in LogFile
      BY DEF LogFile
    <3> QED
      BY <1>1, <1>3, <3>1, FilesTyped DEF TypeOK
  <2> QED
    BY <1>1, <2>1, <2>2 DEF TypeOK
<1>5. /\ m.logfile \in DOMAIN logs /\ logs[m.logfile].recs = m.mem /\ m.lognumber <= m.logfile
      /\ m.logfile < m.nextfile /\ (\A n \in DOMAIN logs : n <= m.logfile) /\ m.imm = {}
      /\ LogRecs(m.lognumber) = m.mem \cup m.imm
      /\ Kept = Served /\ Within(Served, m.lastseq) /\ todo = {}
  BY <1>1 DEF OpenPart, OpenInv, OpeningPart, ClosedInv
<1>6. \A n \in DOMAIN logs : n \in Nat /\ n < m.nextfile
  BY <1>3, <1>5 DEF TypeOK
<1>7. /\ DOMAIN logs' = DOMAIN logs \cup {m.nextfile} /\ logs'[m.nextfile] = [recs |-> {}, synced |-> {}]
      /\ \A n \in DOMAIN logs : logs'[n] = logs[n]
  <2>1. m.nextfile \notin DOMAIN logs
    BY <1>3, <1>6
  <2> QED
    BY <1>1, <2>1 DEF Put
<1>8. FilesKept
  <2>1. current # 0 /\ current \in DOMAIN manifests
    BY <1>1, OpenEdits
  <2>2. \A n \in VersionOf(CurrentEdits) \cup VersionOf(SyncedEdits) : n \in DOMAIN tables
    BY <1>1, OpenEdits
  <2>3. ~EntriesVolatile => unlinked = {}
    BY DEF DiskPart, DiskInv
  <2>4. \A n \in DOMAIN tables : \A x \in tables[n] : seq[x] # 0
    BY DEF DiskPart, NumbersInv
  <2>5. \A n \in DOMAIN logs' : \/ n \in DOMAIN logs /\ logs'[n] = logs[n]
                                \/ n \notin DOMAIN logs /\ logs'[n].recs = {} /\ logs'[n].synced = {}
    BY <1>3, <1>6, <1>7
  <2> QED
    BY <1>1, <1>7, <2>1, <2>2, <2>3, <2>4, <2>5 DEF FilesKept
<1>9. DiskPart' /\ SameStore /\ Kept' = Kept /\ CurrentEdits' = CurrentEdits /\ SyncedEdits' = SyncedEdits
  BY <1>4, <1>8, FilesKeptStep
<1>10. CompactionInv' /\ EditInv'
  BY <1>1, <1>2, <1>3, <1>4, BackgroundSame
<1>11. LogRecs(m.lognumber)' = LogRecs(m.lognumber)
  <2>1. PICK k : k = m.lognumber
    OBVIOUS
  <2>2. LogRecs(k)' = LogRecs(k)
    BY <1>7, <1>8, LogRecsSame DEF FilesKept
  <2> QED
    BY <1>2, <2>1, <2>2 DEF LogRecs, LogsFrom
<1>12. Served' = Served
  BY <1>1, <1>2, <1>5 DEF Served, Stored
<1>13. Within(Served, m.lastseq)'
  BY <1>1, <1>2, <1>5, <1>12 DEF Within
<1>14. OpenInv'
  <2>1. /\ m'.logfile \in DOMAIN logs' /\ logs'[m'.logfile].recs = m'.mem /\ m'.lognumber <= m'.logfile
        /\ m'.logfile < m'.nextfile /\ \A n \in DOMAIN logs' : n <= m'.logfile
    BY <1>2, <1>3, <1>5, <1>6, <1>7
  <2>2. LastEdit(CurrentEdits').next <= m'.nextfile
    <3>1. LastEdit(CurrentEdits).next \in Nat /\ LastEdit(CurrentEdits).next <= m.nextfile
      BY <1>1, OpenEdits DEF Edit, OpenPart, OpenInv
    <3> QED
      BY <1>2, <1>3, <1>9, <3>1
  <2>3. m'.version \subseteq DOMAIN tables' /\ \A n \in m'.version : n < m'.nextfile
    <3>1. m.version \subseteq DOMAIN tables /\ \A n \in m.version : n < m.nextfile /\ n \in Nat
      BY <1>1 DEF OpenPart, OpenInv, TypeOK
    <3> QED
      BY <1>1, <1>2, <1>3, <3>1
  <2>4. LogRecs(m.lognumber)' = m'.mem \cup m'.imm
    BY <1>2, <1>5, <1>11
  <2>5. current' = m'.manifest /\ SyncedEdits' # << >>
    BY <1>1, <1>2, <1>9 DEF OpenPart, OpenInv
  <2> QED
    BY <1>2, <1>5, <1>9, <1>12, <1>13, <2>1, <2>2, <2>3, <2>4, <2>5 DEF OpenInv
<1> QED
  BY <1>1, <1>4, <1>5, <1>9, <1>10, <1>14, WhileOpen DEF OpenPart

LEMMA WriteStep ==
  ASSUME TypeOK, StoreInv, NEW sync \in BOOLEAN, Write(sync)
  PROVE  /\ TypeOK' /\ StoreInv' /\ CommittedStep /\ up = "open" /\ up' = "open"
         /\ \E x \in Writes : /\ x \notin Kept /\ Kept' = Kept \cup {x}
                             /\ synced' = IF sync THEN synced \cup {x} ELSE synced
<1> USE DEF StoreInv
<1>1. PICK x \in Writes :
        /\ seq[x] = 0 /\ \A y \in 1..(x - 1) : seq[y] # 0
        /\ seq' = [seq EXCEPT ![x] = m.lastseq + 1]
        /\ logs' = [logs EXCEPT ![m.logfile] = [recs |-> logs[m.logfile].recs \cup {x},
                      synced |-> IF sync THEN logs[m.logfile].recs \cup {x} ELSE logs[m.logfile].synced]]
        /\ m' = [m EXCEPT !.mem = m.mem \cup {x}, !.lastseq = m.lastseq + 1]
        /\ acked' = acked \cup {x}
        /\ synced' = IF sync THEN synced \cup {x} ELSE synced
  BY DEF Write
<1>2. /\ up = "open" /\ up' = "open"
      /\ UNCHANGED <<tables, unlinked, manifests, current, todo, bgpc, compaction, edit, crashes, faults>>
  BY DEF Write, bg
<1>3. /\ m.nextfile \in Nat /\ m.logfile \in Nat /\ m.lognumber \in Nat /\ m.mem \in SUBSET Writes /\ m \in Memory
      /\ m.lastseq \in Nat /\ m.lastseq + 1 \in Nat /\ m.mem \cup {x} \in SUBSET Writes
  BY MemoryTypes
<1>4. /\ m'.imm = m.imm /\ m'.hasimm = m.hasimm /\ m'.mem = m.mem \cup {x} /\ m'.logfile = m.logfile
      /\ m'.nextfile = m.nextfile /\ m'.version = m.version /\ m'.lognumber = m.lognumber /\ m'.pending = m.pending
      /\ m'.manifest = m.manifest /\ m'.lastseq = m.lastseq + 1
  BY <1>1, <1>3 DEF Memory
<1>5. /\ m.logfile \in DOMAIN logs /\ logs[m.logfile].recs = m.mem /\ m.lognumber <= m.logfile
      /\ m.logfile < m.nextfile /\ (\A n \in DOMAIN logs : n <= m.logfile)
      /\ LogRecs(m.lognumber) = m.mem \cup m.imm
      /\ Kept = Served /\ Within(Served, m.lastseq) /\ todo = {}
  BY <1>2 DEF OpenPart, OpenInv, OpeningPart, ClosedInv
<1>6. /\ DOMAIN logs' = DOMAIN logs /\ (\A n \in DOMAIN logs : n # m.logfile => logs'[n] = logs[n])
      /\ logs'[m.logfile].recs = m.mem \cup {x}
      /\ logs'[m.logfile].synced = IF sync THEN m.mem \cup {x} ELSE logs[m.logfile].synced
  BY <1>1, <1>5 DEF TypeOK
<1>7. TypeOK'
  <2>1. m' \in Memory
    BY <1>1, <1>3, MemoryUpdates
  <2>2. logs' \in [DOMAIN logs' -> LogFile] /\ DOMAIN logs' \subseteq Nat
    <3>1. logs[m.logfile] \in LogFile /\ logs'[m.logfile] = [recs |-> m.mem \cup {x},
                      synced |-> IF sync THEN m.mem \cup {x} ELSE logs[m.logfile].synced]
      BY <1>1, <1>5 DEF TypeOK
    <3>2. logs'[m.logfile] \in LogFile
      BY <1>3, <3>1 DEF LogFile
    <3> QED
      BY <1>1, <1>5, <1>6, <3>2 DEF TypeOK
  <2>3. seq' \in [Writes -> Nat]
    BY <1>1, <1>3 DEF TypeOK
  <2> QED
    BY <1>1, <1>2, <2>1, <2>2, <2>3 DEF TypeOK
<1>8. CurrentEdits' = CurrentEdits /\ SyncedEdits' = SyncedEdits
  BY <1>2 DEF CurrentEdits, SyncedEdits
<1>9. /\ (\A y \in Writes : y # x => seq'[y] = seq[y]) /\ seq'[x] = m.lastseq + 1
      /\ (\A y \in Writes : y < x => seq[y] # 0) /\ x \in Nat /\ x >= 1
      /\ \A y \in Writes : seq'[y] = 0 => seq[y] = 0 /\ y # x /\ y > x
  <2>1. x \in Nat /\ x >= 1 /\ \A y \in Writes : y \in Nat /\ y >= 1
    BY ConstantsAssumption DEF Writes
  <2>2. \A y \in Writes : y < x => seq[y] # 0
    BY <1>1, <2>1
  <2> QED
    BY <1>1, <1>3, <2>1, <2>2 DEF TypeOK
<1>10. \A k \in Nat : k <= m.logfile => LogRecs(k)' = LogRecs(k) \cup {x}
  <2> SUFFICES ASSUME NEW k \in Nat, k <= m.logfile PROVE LogRecs(k)' = LogRecs(k) \cup {x}
    OBVIOUS
  <2>1. LogRecs(k) = UNION {logs[n].recs : n \in {l \in DOMAIN logs : l >= k}}
    BY DEF LogRecs, LogsFrom
  <2>2. LogRecs(k)' = UNION {logs'[n].recs : n \in {l \in DOMAIN logs' : l >= k}}
    BY DEF LogRecs, LogsFrom
  <2>3. ASSUME NEW y \in LogRecs(k)' PROVE y \in LogRecs(k) \cup {x}
    <3>1. PICK n \in DOMAIN logs : n >= k /\ y \in logs'[n].recs
      BY <1>6, <2>2, <2>3
    <3> QED
      BY <1>5, <1>6, <2>1, <3>1
  <2>4. ASSUME NEW y \in LogRecs(k) PROVE y \in LogRecs(k)'
    <3>1. PICK n \in DOMAIN logs : n >= k /\ y \in logs[n].recs
      BY <2>1, <2>4
    <3> QED
      BY <1>5, <1>6, <2>2, <3>1
  <2>5. x \in LogRecs(k)'
    BY <1>3, <1>5, <1>6, <2>2
  <2> QED
    BY <2>3, <2>4, <2>5
<1>11. \A S : Stored(S)' = Stored(S)
  BY <1>2 DEF Stored
<1>12. \A y \in Writes : seq[y] # 0 => seq'[y] = seq[y] /\ y # x
  BY <1>1, <1>9
<1>13. PICK es, fs, cl, sl, cv, sv :
         /\ es = CurrentEdits /\ fs = SyncedEdits /\ cl = LastEdit(es).log /\ sl = LastEdit(fs).log
         /\ cv = VersionOf(es) /\ sv = VersionOf(fs)
  OBVIOUS
<1>14. /\ cl \in Nat /\ cl <= m.logfile /\ sl \in Nat /\ sl <= m.logfile /\ es # << >> /\ fs # << >>
       /\ EditsOK(es) /\ EditsOK(fs)
  BY <1>2, <1>13, OpenEdits DEF Edit
<1>15. Kept' = Kept \cup {x} /\ (Content(SyncedEdits) = Kept)'
  <2>1. Kept = Stored(cv) \cup LogRecs(cl)
    BY <1>13, <1>14, KeptIs DEF Content
  <2>2. Kept' = Stored(cv)' \cup LogRecs(cl)'
    BY <1>8, <1>13, <1>14 DEF Kept, Stored, LogRecs, LogsFrom
  <2>3. Kept = Stored(sv) \cup LogRecs(sl)
    BY <1>13, <1>14 DEF Content, DiskPart, DiskInv
  <2>4. Content(SyncedEdits)' = Stored(sv)' \cup LogRecs(sl)'
    BY <1>8, <1>13 DEF Content, Stored, LogRecs, LogsFrom
  <2> QED
    BY <1>10, <1>11, <1>14, <2>1, <2>2, <2>3, <2>4
<1>16. \A S, last : Within(Stored(S), last) => Within(Stored(S), last)'
  <2> SUFFICES ASSUME NEW S, NEW last, Within(Stored(S), last) PROVE Within(Stored(S), last)'
    OBVIOUS
  <2>1. PICK T : T = Stored(S)
    OBVIOUS
  <2>2. \A y \in T : y \in Writes /\ seq[y] # 0
    BY <2>1, KeptWritten
  <2>3. Within(T, last)'
    BY <1>9, <1>12, <2>1, <2>2, WithinSame
  <2> QED
    BY <1>11, <2>1, <2>3 DEF Within
<1>17. \A y \in Kept : y \in Writes /\ seq[y] # 0 /\ seq'[y] = seq[y] /\ y # x /\ y < x /\ seq[y] <= m.lastseq
  <2> SUFFICES ASSUME NEW y \in Kept
               PROVE  y \in Writes /\ seq[y] # 0 /\ seq'[y] = seq[y] /\ y # x /\ y < x /\ seq[y] <= m.lastseq
    OBVIOUS
  <2>1. y \in Writes /\ seq[y] # 0 /\ seq[y] <= m.lastseq
    BY <1>5, KeptWritten DEF Within
  <2>2. ~(x < y)
    BY <1>1, <2>1 DEF DiskPart, NumbersInv
  <2>3. y \in Nat
    BY <2>1 DEF Writes
  <2> QED
    BY <1>9, <1>12, <2>1, <2>2, <2>3
<1>18. m.lastseq < x /\ acked \subseteq Kept /\ x \notin synced /\ synced \subseteq acked
  BY <1>1, <1>5, <1>17 DEF Within, DiskPart, ProcessSafe, NumbersInv
<1>19. NumbersInv'
  <2>1. \A y \in Writes : seq'[y] <= y
    BY <1>3, <1>9, <1>18 DEF DiskPart, NumbersInv
  <2>2. \A y, z \in Writes : y < z /\ seq'[y] = 0 => seq'[z] = 0
    <3> SUFFICES ASSUME NEW y \in Writes, NEW z \in Writes, y < z, seq'[y] = 0 PROVE seq'[z] = 0
      OBVIOUS
    <3>1. seq[y] = 0 /\ y > x /\ y \in Nat /\ z \in Nat
      BY <1>9 DEF Writes
    <3>2. seq[z] = 0 /\ z # x
      BY <1>9, <3>1 DEF DiskPart, NumbersInv
    <3> QED
      BY <1>9, <3>2
  <2>3. ASSUME NEW n \in DOMAIN logs', NEW y \in logs'[n].recs PROVE seq'[y] # 0
    <3>1. CASE y = x
      BY <1>3, <1>9, <3>1
    <3>2. CASE y # x
      <4>1. n \in DOMAIN logs /\ y \in logs[n].recs
        BY <1>5, <1>6, <2>3, <3>2
      <4>2. seq[y] # 0 /\ y \in Writes
        BY <4>1 DEF DiskPart, NumbersInv, TypeOK, LogFile
      <4> QED
        BY <1>12, <4>2
    <3> QED
      BY <3>1, <3>2
  <2>4. ASSUME NEW n \in DOMAIN tables', NEW y \in tables'[n] PROVE seq'[y] # 0
    BY <1>2, <1>12, <2>4 DEF DiskPart, NumbersInv, TypeOK
  <2>5. synced' \subseteq acked'
    BY <1>1, <1>18
  <2> QED
    BY <2>1, <2>2, <2>3, <2>4, <2>5 DEF NumbersInv
<1>20. LogsInv'
  <2> SUFFICES ASSUME NEW n \in DOMAIN logs'
               PROVE  logs'[n].synced \subseteq logs'[n].recs /\ logs'[n].recs \cap synced' \subseteq logs'[n].synced
    BY DEF LogsInv
  <2>1. n \in DOMAIN logs /\ logs[n].synced \subseteq logs[n].recs /\ logs[n].recs \cap synced \subseteq logs[n].synced
    BY <1>6 DEF DiskPart, LogsInv
  <2>2. x \notin logs[n].recs
    BY <1>1, <2>1 DEF DiskPart, NumbersInv
  <2>3. CASE n = m.logfile
    BY <1>1, <1>5, <1>6, <1>18, <2>1, <2>2, <2>3
  <2>4. CASE n # m.logfile
    BY <1>1, <1>6, <2>1, <2>2, <2>4
  <2> QED
    BY <2>3, <2>4
<1>21. ProcessSafe'
  BY <1>1, <1>15, <1>18 DEF ProcessSafe
<1>22. SequencesOrdered'
  <2> SUFFICES ASSUME NEW y \in Kept', NEW z \in Kept', y < z PROVE seq'[y] < seq'[z]
    BY DEF SequencesOrdered
  <2>1. CASE z = x
    <3>1. y \in Kept
      BY <1>9, <1>15, <2>1
    <3> QED
      BY <1>3, <1>9, <1>17, <2>1, <3>1 DEF TypeOK
  <2>2. CASE z # x
    <3>1. z \in Kept /\ y \in Kept
      <4>1. z \in Kept /\ z \in Nat /\ z < x
        BY <1>15, <1>17, <2>2 DEF Writes
      <4>2. y # x
        BY <1>9, <4>1
      <4> QED
        BY <1>15, <4>1, <4>2
    <3> QED
      BY <1>17, <3>1 DEF DiskPart, SequencesOrdered
  <2> QED
    BY <2>1, <2>2
<1>23. DiskInv'
  <2>1. EditsOK(es)' /\ EditsOK(fs)'
    BY <1>2, <1>14, <1>16 DEF EditsOK
  <2>2. EditsOK(CurrentEdits)' /\ EditsOK(SyncedEdits)'
    BY <1>8, <1>13, <2>1 DEF EditsOK, Within, Stored
  <2> QED
    BY <1>2, <1>6, <1>8, <1>13, <1>14, <1>15, <2>2 DEF DiskInv, DiskPart, SafeEntries
<1>24. CompactionInv' /\ EditInv'
  BY <1>2, <1>3, <1>4, <1>7, <1>9, <1>12, BackgroundSame
<1>25. Served' = Served \cup {x}
  BY <1>4, <1>11 DEF Served, Stored
<1>26. Within(Served, m.lastseq)'
  <2>1. \A y \in Served' : seq'[y] <= m.lastseq + 1
    BY <1>3, <1>5, <1>9, <1>17, <1>25 DEF TypeOK
  <2>2. \A y \in Writes : seq'[y] = 0 => m.lastseq + 1 < y
    BY <1>3, <1>9, <1>18 DEF Writes
  <2> QED
    BY <1>4, <2>1, <2>2 DEF Within
<1>27. OpenInv'
  <2>1. PICK k : k = m.lognumber
    OBVIOUS
  <2>2. LogRecs(k)' = m'.mem \cup m'.imm
    BY <1>3, <1>4, <1>5, <1>10, <2>1
  <2>3. LogRecs(m.lognumber)' = m'.mem \cup m'.imm
    BY <1>4, <2>1, <2>2 DEF LogRecs, LogsFrom
  <2>4. Kept' = Served'
    BY <1>5, <1>15, <1>25
  <2> QED
    BY <1>2, <1>4, <1>5, <1>6, <1>8, <1>26, <2>3, <2>4 DEF OpenPart, OpenInv
<1>28. CommittedStep
  BY <1>2 DEF CommittedStep
<1>29. x \notin Kept
  BY <1>17
<1>30. TypeOK' /\ StoreInv'
  BY <1>2, <1>5, <1>7, <1>19, <1>20, <1>21, <1>22, <1>23, <1>24, <1>27, WhileOpen DEF OpenPart, DiskPart
<1> QED
  BY <1>1, <1>2, <1>15, <1>28, <1>29, <1>30

-----------------------------------------------------------------------------
(* The background thread                                                   *)

\* Recovery is not told when BuildTable or the sync of a manifest fails: these
\* faults are left out, as the code does not survive them.
SoundFaults == Faults \cap {"build", "rebuild", "sync"} = {}

LEMMA StoredUnion ==
  ASSUME NEW S, NEW T
  PROVE  Stored(S \cup T) = Stored(S) \cup Stored(T)
BY DEF Stored

LEMMA WithinSubset ==
  ASSUME NEW S, NEW T, NEW last, Within(T, last), S \subseteq T
  PROVE  Within(S, last)
BY DEF Within

\* A table with a new number leaves everything else alone.
LEMMA NewTableStep ==
  ASSUME TypeOK, DiskPart, current # 0,
         NEW n \in Nat, NEW content \in SUBSET Writes, \A x \in content : seq[x] # 0,
         \A k \in VersionOf(CurrentEdits) \cup VersionOf(SyncedEdits) : k < n,
         NewTable(n, content), UNCHANGED <<logs, manifests, current, seq, acked, synced>>
  PROVE  /\ FilesKept
         /\ tables' \in [DOMAIN tables' -> SUBSET Writes] /\ DOMAIN tables' \subseteq Nat /\ unlinked' \subseteq Nat
         /\ DOMAIN tables' = DOMAIN tables \cup {n} /\ tables'[n] = content
         /\ \A S : n \notin S => Stored(S)' = Stored(S)
         /\ Stored({n})' = content
<1>1. tables' = Put(tables, n, content) /\ unlinked' = IF EntriesVolatile THEN unlinked \cup {n} ELSE unlinked
  BY DEF NewTable
<1>2. /\ DOMAIN tables' = DOMAIN tables \cup {n} /\ tables'[n] = content
      /\ \A k \in DOMAIN tables : k # n => tables'[k] = tables[k]
  BY <1>1 DEF Put
<1>3. /\ VersionOf(CurrentEdits) \subseteq DOMAIN tables /\ VersionOf(SyncedEdits) \subseteq DOMAIN tables
      /\ VersionOf(CurrentEdits) \subseteq Nat /\ VersionOf(SyncedEdits) \subseteq Nat
      /\ current \in DOMAIN manifests
  <2>1. VersionOf(CurrentEdits) \subseteq DOMAIN tables
    <3>1. CASE CurrentEdits = << >>
      BY <3>1, DiskTypes DEF DiskPart
    <3>2. CASE CurrentEdits # << >>
      BY <3>2 DEF DiskPart, DiskInv, EditsOK
    <3> QED
      BY <3>1, <3>2
  <2>2. VersionOf(SyncedEdits) \subseteq DOMAIN tables
    <3>1. CASE SyncedEdits = << >>
      BY <3>1, DiskTypes DEF DiskPart
    <3>2. CASE SyncedEdits # << >>
      BY <3>2 DEF DiskPart, DiskInv, EditsOK
    <3> QED
      BY <3>1, <3>2
  <2> QED
    BY <2>1, <2>2, DiskTypes DEF DiskPart, DiskInv
<1>4. \A k \in VersionOf(CurrentEdits) \cup VersionOf(SyncedEdits) : k # n
  BY <1>3
<1>5. FilesKept
  <2>1. \A k \in VersionOf(CurrentEdits) \cup VersionOf(SyncedEdits) : k \in DOMAIN tables' /\ tables'[k] = tables[k]
    BY <1>2, <1>3, <1>4
  <2>2. \A k \in DOMAIN tables' : \A x \in tables'[k] : seq[x] # 0
    BY <1>2 DEF DiskPart, NumbersInv
  <2>3. VersionOf(SyncedEdits) \cap unlinked' \subseteq unlinked
    BY <1>1, <1>4
  <2>4. ~EntriesVolatile => unlinked' = {}
    BY <1>1 DEF DiskPart, DiskInv
  <2> QED
    BY <1>3, <2>1, <2>2, <2>3, <2>4 DEF FilesKept
<1>6. tables' \in [DOMAIN tables' -> SUBSET Writes] /\ DOMAIN tables' \subseteq Nat
  BY <1>1, FilesTyped DEF TypeOK
<1>7. unlinked' \subseteq Nat
  BY <1>1 DEF TypeOK
<1>8. ASSUME NEW S, n \notin S PROVE Stored(S)' = Stored(S)
  BY <1>2, <1>8 DEF Stored
<1>9. Stored({n})' = content
  BY <1>2 DEF Stored
<1> QED
  BY <1>2, <1>5, <1>6, <1>7, <1>8, <1>9

\* The writes the open database serves are found through the edit as well.
LEMMA EditKeeps ==
  ASSUME TypeOK, DiskPart, OpenPart, up = "open", bgpc \in {"apply", "sync", "install"}
  PROVE  /\ Stored((m.version \ edit.del) \cup edit.add) \cup LogRecs(edit.log) = Served
         /\ edit.del = {} => LogRecs(edit.log) = m.mem
         /\ edit.del # {} => LogRecs(edit.log) = m.mem \cup m.imm /\ Stored((m.version \ edit.del) \cup edit.add) = Stored(m.version)
<1>1. /\ m.logfile \in DOMAIN logs /\ logs[m.logfile].recs = m.mem /\ (\A n \in DOMAIN logs : n <= m.logfile)
      /\ LogRecs(m.lognumber) = m.mem \cup m.imm /\ DOMAIN logs \subseteq Nat /\ m.logfile \in Nat
  BY MemoryTypes DEF OpenPart, OpenInv, TypeOK
<1>2. CASE edit.del = {}
  <2>1. edit.log = m.logfile /\ Stored(edit.add) = m.imm
    BY <1>2 DEF OpenPart, EditInv
  <2>2. \A n \in DOMAIN logs : n >= m.logfile <=> n = m.logfile
    BY <1>1
  <2>3. LogRecs(m.logfile) = m.mem
    BY <1>1, <2>2 DEF LogRecs, LogsFrom
  <2>4. (m.version \ edit.del) \cup edit.add = m.version \cup edit.add
    BY <1>2
  <2> QED
    BY <1>2, <2>1, <2>3, <2>4, StoredUnion DEF Served
<1>3. CASE edit.del # {}
  <2>1. Stored(edit.add) = Stored(edit.del) /\ edit.log = m.lognumber /\ edit.del \subseteq m.version
    BY <1>3 DEF OpenPart, EditInv, CompactionInv
  <2>2. Stored((m.version \ edit.del) \cup edit.add) = Stored(m.version \ edit.del) \cup Stored(edit.add)
    BY StoredUnion
  <2>3. Stored((m.version \ edit.del) \cup edit.del) = Stored(m.version \ edit.del) \cup Stored(edit.del)
    BY StoredUnion
  <2>4. (m.version \ edit.del) \cup edit.del = m.version
    BY <2>1
  <2> QED
    BY <1>1, <1>3, <2>1, <2>2, <2>3, <2>4 DEF Served
<1> QED
  BY <1>2, <1>3

LEMMA CompactMemTableStep ==
  ASSUME TypeOK, StoreInv, SoundFaults, CompactMemTable
  PROVE  TypeOK' /\ StoreInv' /\ SameStore
<1> USE DEF StoreInv
<1>1. PICK n : n = m.nextfile
  OBVIOUS
<1>2. /\ up = "open" /\ up' = "open" /\ m.hasimm /\ bgpc \in {"idle", "compact"} /\ bgpc' = "apply"
      /\ m' = [m EXCEPT !.nextfile = n + 1] /\ NewTable(n, m.imm)
      /\ edit' = Complete([NoEdit EXCEPT !.add = {n}], m.logfile, m')
      /\ UNCHANGED <<logs, manifests, current, todo, compaction, seq, acked, synced, crashes, faults>>
  BY <1>1 DEF CompactMemTable, Fails, Succeeds, SoundFaults, FlushedLog, hist
<1>3. /\ n \in Nat /\ n + 1 \in Nat /\ m.logfile \in Nat /\ m \in Memory /\ m.lastseq \in Nat /\ m.imm \in SUBSET Writes
      /\ m.lognumber \in Nat /\ compaction.out \in Nat /\ m.version \subseteq Nat
  BY <1>1, MemoryTypes
<1>4. /\ m'.imm = m.imm /\ m'.hasimm = m.hasimm /\ m'.mem = m.mem /\ m'.logfile = m.logfile
      /\ m'.nextfile = n + 1 /\ m'.version = m.version /\ m'.lognumber = m.lognumber /\ m'.pending = m.pending
      /\ m'.manifest = m.manifest /\ m'.lastseq = m.lastseq
  BY <1>2, <1>3 DEF Memory
<1>5. /\ edit'.add = {n} /\ edit'.del = {} /\ edit'.log = m.logfile /\ edit'.next = n + 1 /\ edit'.last = m.lastseq
      /\ edit' \in Edit
  BY <1>2, <1>3, <1>4 DEF Complete, NoEdit, Edit
<1>6. /\ current # 0 /\ LastEdit(CurrentEdits).next \in Nat
      /\ \A k \in VersionOf(CurrentEdits) \cup VersionOf(SyncedEdits) : k < n
      /\ current < LastEdit(CurrentEdits).next
  BY <1>1, <1>2, OpenEdits DEF Edit, EditsOK
<1>7. /\ m.logfile < n /\ LastEdit(CurrentEdits).next <= n /\ m.version \subseteq DOMAIN tables
      /\ (\A k \in m.version : k < n) /\ Kept = Served /\ Within(Served, m.lastseq)
      /\ LogRecs(m.lognumber) = m.mem \cup m.imm /\ todo = {}
  BY <1>1, <1>2 DEF OpenPart, OpenInv, OpeningPart, ClosedInv
<1>8. \A x \in m.imm : seq[x] # 0
  BY <1>7, KeptWritten DEF Served
<1>9. /\ FilesKept
      /\ tables' \in [DOMAIN tables' -> SUBSET Writes] /\ DOMAIN tables' \subseteq Nat /\ unlinked' \subseteq Nat
      /\ DOMAIN tables' = DOMAIN tables \cup {n} /\ tables'[n] = m.imm
      /\ (\A S : n \notin S => Stored(S)' = Stored(S))
      /\ Stored({n})' = m.imm
  BY <1>2, <1>3, <1>6, <1>8, NewTableStep
<1>10. TypeOK'
  <2>1. m' \in Memory
    BY <1>2, <1>3, MemoryUpdates
  <2> QED
    BY <1>2, <1>5, <1>9, <2>1 DEF TypeOK
<1>11. DiskPart' /\ SameStore /\ Kept' = Kept /\ CurrentEdits' = CurrentEdits /\ SyncedEdits' = SyncedEdits
  BY <1>9, <1>10, FilesKeptStep
<1>12. n \notin m.version /\ n # compaction.out /\ n # 0
  <2>1. compaction.out # 0 => compaction.out < n
    BY <1>1, <1>2 DEF OpenPart, CompactionInv
  <2> QED
    BY <1>3, <1>7, <2>1
<1>13. PICK vs : vs = m.version
  OBVIOUS
<1>14. Stored(vs)' = Stored(vs) /\ Served' = Served
  <2>1. Stored(vs)' = Stored(vs)
    BY <1>9, <1>12, <1>13
  <2> QED
    BY <1>4, <1>13, <2>1 DEF Served, Stored
<1>15. OpenInv'
  <2>1. Within(Served, m.lastseq)'
    BY <1>2, <1>4, <1>7, <1>14 DEF Within
  <2>2. LastEdit(CurrentEdits').next <= m'.nextfile
    BY <1>3, <1>4, <1>6, <1>7, <1>11
  <2>3. m'.version \subseteq DOMAIN tables' /\ \A k \in m'.version : k < m'.nextfile
    BY <1>3, <1>4, <1>7, <1>9
  <2>4. LogRecs(m.lognumber)' = m'.mem \cup m'.imm
    BY <1>2, <1>4, <1>7 DEF LogRecs, LogsFrom
  <2>5. Kept' = Served'
    BY <1>7, <1>11, <1>14
  <2>6. m'.logfile < m'.nextfile
    BY <1>3, <1>4, <1>7
  <2> QED
    BY <1>2, <1>4, <1>11, <2>1, <2>2, <2>3, <2>4, <2>5, <2>6 DEF OpenPart, OpenInv
<1>16. CompactionInv'
  <2>1. compaction.out # 0 => compaction.out < n + 1
    BY <1>1, <1>2, <1>3 DEF OpenPart, CompactionInv
  <2> QED
    BY <1>1, <1>2, <1>3, <1>4, <1>9, <2>1 DEF OpenPart, CompactionInv
<1>17. EditInv'
  <2>1. Within(Stored(m.version \cup edit.add), edit.last)'
    <3>1. Stored(vs \cup {n})' = Stored(vs)' \cup Stored({n})'
      BY DEF Stored
    <3>2. PICK S : S = Stored(vs \cup {n})'
      OBVIOUS
    <3>3. S \subseteq Served
      BY <1>9, <1>13, <1>14, <3>1, <3>2 DEF Served
    <3>4. Within(S, m.lastseq)
      BY <1>7, <3>3, WithinSubset
    <3> QED
      BY <1>2, <1>4, <1>5, <1>13, <3>2, <3>4 DEF Within, Stored
  <2>2. /\ VersionOf(CurrentEdits)' = m'.version /\ LastEdit(CurrentEdits)'.log = m'.lognumber
        /\ manifests'[current'].synced = Len(manifests'[current'].edits)
    BY <1>2, <1>4, <1>11 DEF OpenPart, EditInv
  <2>3. Stored(edit.add)' = m'.imm
    BY <1>4, <1>5, <1>9 DEF Stored
  <2>4. /\ edit'.add \subseteq DOMAIN tables' /\ \A k \in edit'.add \cup m'.version : k < edit'.next
        /\ \A k \in edit'.add : k \notin m'.version /\ k # compaction'.out
    <3>1. \A k \in m.version \cup {n} : k < n + 1
      BY <1>3, <1>7
    <3> QED
      BY <1>2, <1>4, <1>5, <1>9, <1>12, <3>1
  <2>5. /\ edit'.log < edit'.next /\ current' < edit'.next /\ edit'.next <= m'.nextfile
        /\ LastEdit(CurrentEdits)'.next <= edit'.next
    BY <1>2, <1>3, <1>4, <1>5, <1>6, <1>7, <1>11 DEF TypeOK
  <2> QED
    BY <1>2, <1>4, <1>5, <2>1, <2>2, <2>3, <2>4, <2>5 DEF EditInv
<1> QED
  BY <1>2, <1>7, <1>10, <1>11, <1>15, <1>16, <1>17, WhileOpen DEF OpenPart

LEMMA PickCompactionStep ==
  ASSUME TypeOK, StoreInv, PickCompaction
  PROVE  TypeOK' /\ StoreInv' /\ SameStore
<1> USE DEF StoreInv
<1>1. PICK inputs \in (SUBSET m.version) \ {{}} : compaction' = [inputs |-> inputs, out |-> 0]
  BY DEF PickCompaction
<1>2. /\ up = "open" /\ up' = "open" /\ bgpc = "idle" /\ bgpc' = "compact"
      /\ UNCHANGED <<logs, tables, unlinked, manifests, current, m, todo, edit, seq, acked, synced, crashes, faults>>
  BY DEF PickCompaction, disk, hist
<1>3. TypeOK'
  BY <1>1, <1>2, MemoryTypes DEF TypeOK
<1>4. FilesKept
  <2>1. /\ current # 0 /\ current \in DOMAIN manifests
        /\ \A n \in VersionOf(CurrentEdits) \cup VersionOf(SyncedEdits) : n \in DOMAIN tables
    BY <1>2, OpenEdits
  <2> QED
    BY <1>2, <2>1 DEF FilesKept, DiskPart, DiskInv, NumbersInv
<1>5. DiskPart' /\ SameStore /\ Kept' = Kept /\ CurrentEdits' = CurrentEdits /\ SyncedEdits' = SyncedEdits
  BY <1>3, <1>4, FilesKeptStep
<1>6. Served' = Served /\ todo = {}
  BY <1>2 DEF Served, Stored, OpeningPart, ClosedInv
<1>7. OpenInv'
  BY <1>2, <1>5, <1>6 DEF OpenPart, OpenInv, Within, LogRecs, LogsFrom
<1>8. CompactionInv'
  <2>1. inputs # {} /\ inputs \subseteq m.version
    BY <1>1, Zenon
  <2>3. compaction'.inputs = inputs /\ compaction'.out = 0
    BY <1>1
  <2>2. m.pending = {}
    BY <1>2 DEF OpenPart, CompactionInv, NoCompaction
  <2> QED
    BY <1>2, <2>1, <2>2, <2>3 DEF CompactionInv, NoCompaction
<1>9. EditInv'
  BY <1>2, <1>5 DEF OpenPart, EditInv, NoEdit
<1> QED
  BY <1>2, <1>3, <1>5, <1>6, <1>7, <1>8, <1>9, WhileOpen DEF OpenPart

LEMMA OpenCompactionOutputFileStep ==
  ASSUME TypeOK, StoreInv, OpenCompactionOutputFile
  PROVE  TypeOK' /\ StoreInv' /\ SameStore
<1> USE DEF StoreInv
<1>1. PICK n : n = m.nextfile
  OBVIOUS
<1>2. /\ up = "open" /\ up' = "open" /\ bgpc = "compact" /\ bgpc' = "compact" /\ compaction.out = 0
      /\ compaction' = [compaction EXCEPT !.out = n]
      /\ m' = [m EXCEPT !.nextfile = n + 1, !.pending = m.pending \cup {n}] /\ NewTable(n, {})
      /\ UNCHANGED <<logs, manifests, current, todo, edit, seq, acked, synced, crashes, faults>>
  BY <1>1 DEF OpenCompactionOutputFile, hist
<1>3. /\ n \in Nat /\ n + 1 \in Nat /\ m.logfile \in Nat /\ m \in Memory /\ m.pending \cup {n} \in SUBSET Nat
      /\ m.lognumber \in Nat /\ m.version \subseteq Nat
  BY <1>1, MemoryTypes
<1>4. /\ m'.imm = m.imm /\ m'.hasimm = m.hasimm /\ m'.mem = m.mem /\ m'.logfile = m.logfile
      /\ m'.nextfile = n + 1 /\ m'.version = m.version /\ m'.lognumber = m.lognumber
      /\ m'.pending = m.pending \cup {n} /\ m'.manifest = m.manifest /\ m'.lastseq = m.lastseq
  BY <1>2, <1>3 DEF Memory
<1>5. /\ compaction'.inputs = compaction.inputs /\ compaction'.out = n
      /\ compaction' \in [inputs : SUBSET Nat, out : Nat]
  BY <1>2, <1>3 DEF TypeOK
<1>6. /\ current # 0 /\ LastEdit(CurrentEdits).next \in Nat
      /\ \A k \in VersionOf(CurrentEdits) \cup VersionOf(SyncedEdits) : k < n
  BY <1>1, <1>2, OpenEdits DEF Edit
<1>7. /\ m.logfile < n /\ LastEdit(CurrentEdits).next <= n /\ m.version \subseteq DOMAIN tables
      /\ (\A k \in m.version : k < n) /\ Kept = Served /\ Within(Served, m.lastseq)
      /\ LogRecs(m.lognumber) = m.mem \cup m.imm /\ todo = {}
  BY <1>1, <1>2 DEF OpenPart, OpenInv, OpeningPart, ClosedInv
<1>8. PICK none \in SUBSET Writes : none = {}
  OBVIOUS
<1>9. /\ FilesKept
      /\ tables' \in [DOMAIN tables' -> SUBSET Writes] /\ DOMAIN tables' \subseteq Nat /\ unlinked' \subseteq Nat
      /\ DOMAIN tables' = DOMAIN tables \cup {n}
      /\ (\A S : n \notin S => Stored(S)' = Stored(S))
  BY <1>2, <1>3, <1>6, <1>8, NewTableStep
<1>10. TypeOK'
  <2>1. m' \in Memory
    BY <1>2, <1>3, MemoryUpdates, ZenonT(40)
  <2> QED
    BY <1>2, <1>5, <1>9, <2>1 DEF TypeOK
<1>11. DiskPart' /\ SameStore /\ Kept' = Kept /\ CurrentEdits' = CurrentEdits /\ SyncedEdits' = SyncedEdits
  BY <1>9, <1>10, FilesKeptStep
<1>12. n \notin m.version /\ n # 0
  BY <1>3, <1>7
<1>13. PICK vs : vs = m.version
  OBVIOUS
<1>14. Stored(vs)' = Stored(vs) /\ Served' = Served
  <2>1. Stored(vs)' = Stored(vs)
    BY <1>9, <1>12, <1>13
  <2> QED
    BY <1>4, <1>13, <2>1 DEF Served, Stored
<1>15. OpenInv'
  <2>1. Within(Served, m.lastseq)'
    BY <1>2, <1>4, <1>7, <1>14 DEF Within
  <2>2. LastEdit(CurrentEdits').next <= m'.nextfile
    BY <1>3, <1>4, <1>6, <1>7, <1>11
  <2>3. m'.version \subseteq DOMAIN tables' /\ \A k \in m'.version : k < m'.nextfile
    BY <1>3, <1>4, <1>7, <1>9
  <2>4. LogRecs(m.lognumber)' = m'.mem \cup m'.imm
    BY <1>2, <1>4, <1>7 DEF LogRecs, LogsFrom
  <2>5. Kept' = Served'
    BY <1>7, <1>11, <1>14
  <2>6. m'.logfile < m'.nextfile
    BY <1>3, <1>4, <1>7
  <2> QED
    BY <1>2, <1>4, <1>11, <2>1, <2>2, <2>3, <2>4, <2>5, <2>6 DEF OpenPart, OpenInv
<1>16. CompactionInv'
  <2>1. compaction.inputs # {} /\ compaction.inputs \subseteq m.version /\ m.pending = {}
    BY <1>2 DEF OpenPart, CompactionInv
  <2>2. n < n + 1
    BY <1>3
  <2> QED
    BY <1>2, <1>4, <1>5, <1>9, <1>12, <2>1, <2>2 DEF CompactionInv
<1>17. EditInv'
  BY <1>2, <1>4, <1>11 DEF OpenPart, EditInv, NoEdit
<1> QED
  BY <1>2, <1>7, <1>10, <1>11, <1>15, <1>16, <1>17, WhileOpen DEF OpenPart

LEMMA FinishCompactionStep ==
  ASSUME TypeOK, StoreInv, FinishCompaction
  PROVE  TypeOK' /\ StoreInv' /\ SameStore
<1> USE DEF StoreInv
<1>1. PICK out, ins : out = compaction.out /\ ins = compaction.inputs
  OBVIOUS
<1>2. /\ up = "open" /\ up' = "open" /\ bgpc = "compact" /\ out # 0
      /\ edit' = Complete([NoEdit EXCEPT !.add = {out}, !.del = ins], m.lognumber, m)
      /\ UNCHANGED <<logs, unlinked, manifests, current, m, todo, compaction, seq, acked, synced, crashes>>
      /\ faults' \in {faults, faults + 1}
      /\ \/ /\ bgpc' = "apply"
            /\ tables' = [n \in DOMAIN tables |-> IF n = out THEN UNION {tables[i] : i \in ins} ELSE tables[n]]
         \/ bgpc' = "failed" /\ tables' = tables
  BY <1>1 DEF FinishCompaction, Fails, Succeeds, hist
<1>3. /\ m \in Memory /\ m.lastseq \in Nat /\ m.lognumber \in Nat /\ m.nextfile \in Nat /\ m.logfile \in Nat
      /\ m.version \subseteq Nat /\ out \in Nat /\ ins \subseteq Nat
  BY <1>1, MemoryTypes
<1>4. /\ edit'.add = {out} /\ edit'.del = ins /\ edit'.log = m.lognumber /\ edit'.next = m.nextfile
      /\ edit'.last = m.lastseq /\ edit' \in Edit
  BY <1>2, <1>3 DEF Complete, NoEdit, Edit
<1>5. /\ ins # {} /\ ins \subseteq m.version /\ out \in DOMAIN tables /\ out < m.nextfile /\ out \notin m.version
  BY <1>1, <1>2 DEF OpenPart, CompactionInv
<1>6. /\ m.version \subseteq DOMAIN tables /\ (\A k \in m.version : k < m.nextfile) /\ Kept = Served
      /\ Within(Served, m.lastseq) /\ todo = {} /\ LastEdit(CurrentEdits).next <= m.nextfile
      /\ m.lognumber <= m.logfile /\ m.logfile < m.nextfile
  BY <1>2 DEF OpenPart, OpenInv, OpeningPart, ClosedInv
<1>7. /\ VersionOf(CurrentEdits) = m.version /\ SyncedEdits = CurrentEdits /\ current # 0
      /\ current \in DOMAIN manifests /\ LastEdit(CurrentEdits).next \in Nat /\ current < LastEdit(CurrentEdits).next
  BY <1>2, OpenEdits DEF OpenPart, EditInv, Edit, EditsOK
<1>8. /\ DOMAIN tables' = DOMAIN tables /\ (\A n \in DOMAIN tables : n # out => tables'[n] = tables[n])
      /\ tables'[out] = tables[out] \/ tables'[out] = UNION {tables[i] : i \in ins}
  BY <1>2, <1>5
<1>9. \A n \in DOMAIN tables : tables[n] \subseteq Writes /\ \A x \in tables[n] : seq[x] # 0
  BY DEF TypeOK, DiskPart, NumbersInv
<1>10. UNION {tables[i] : i \in ins} \subseteq Writes /\ \A x \in UNION {tables[i] : i \in ins} : seq[x] # 0
  BY <1>5, <1>6, <1>9
<1>11. \A n \in DOMAIN tables' : tables'[n] \subseteq Writes /\ \A x \in tables'[n] : seq[x] # 0
  BY <1>8, <1>9, <1>10
<1>12. TypeOK'
  <2>1. tables' \in [DOMAIN tables' -> SUBSET Writes] /\ DOMAIN tables' \subseteq Nat
    <3>1. tables' = [n \in DOMAIN tables' |-> tables'[n]]
      BY <1>2 DEF TypeOK
    <3> QED
      BY <1>8, <1>11, <3>1 DEF TypeOK
  <2>2. faults' \in Nat /\ bgpc' \in {"apply", "failed"}
    BY <1>2 DEF TypeOK
  <2> QED
    BY <1>2, <1>4, <2>1, <2>2 DEF TypeOK
<1>13. FilesKept
  <2>1. \A n \in VersionOf(CurrentEdits) \cup VersionOf(SyncedEdits) : n \in DOMAIN tables' /\ tables'[n] = tables[n]
    BY <1>5, <1>6, <1>7, <1>8
  <2> QED
    BY <1>2, <1>7, <1>11, <2>1 DEF FilesKept, DiskPart, DiskInv
<1>14. DiskPart' /\ SameStore /\ Kept' = Kept /\ CurrentEdits' = CurrentEdits /\ SyncedEdits' = SyncedEdits
  BY <1>12, <1>13, FilesKeptStep
<1>15. PICK vs : vs = m.version
  OBVIOUS
<1>16. Stored(vs)' = Stored(vs) /\ Served' = Served /\ Stored(ins)' = Stored(ins)
  <2>1. Stored(vs)' = Stored(vs)
    BY <1>5, <1>6, <1>8, <1>15, StoredSame
  <2>2. Stored(ins)' = Stored(ins)
    BY <1>5, <1>6, <1>8, StoredSame
  <2> QED
    BY <1>2, <1>15, <2>1, <2>2 DEF Served, Stored
<1>17. OpenInv'
  BY <1>2, <1>8, <1>14, <1>16 DEF OpenPart, OpenInv, Within, LogRecs, LogsFrom
<1>18. CompactionInv'
  BY <1>2, <1>8 DEF OpenPart, CompactionInv
<1>19. bgpc' = "apply" => Stored({out})' = Stored(ins)' /\ Stored({out})' \subseteq Stored(vs)
  <2> SUFFICES ASSUME bgpc' = "apply" PROVE Stored({out})' = Stored(ins)' /\ Stored({out})' \subseteq Stored(vs)
    OBVIOUS
  <2>1. tables'[out] = UNION {tables[i] : i \in ins}
    BY <1>2, <1>5
  <2>2. Stored({out})' = UNION {tables[i] : i \in ins}
    BY <1>5, <1>8, <2>1 DEF Stored
  <2>3. Stored(ins) = UNION {tables[i] : i \in ins}
    BY <1>5, <1>6 DEF Stored
  <2>4. Stored(ins) \subseteq Stored(vs)
    BY <1>5, <1>15 DEF Stored
  <2> QED
    BY <1>16, <2>2, <2>3, <2>4
<1>20. EditInv'
  <2>1. /\ VersionOf(CurrentEdits)' = m'.version /\ LastEdit(CurrentEdits)'.log = m'.lognumber
        /\ manifests'[current'].synced = Len(manifests'[current'].edits)
    BY <1>2, <1>14 DEF OpenPart, EditInv
  <2>2. ASSUME bgpc' = "apply" PROVE Within(Stored(m.version \cup edit.add), edit.last)'
    <3>1. Stored(vs \cup {out})' = Stored(vs)' \cup Stored({out})'
      BY DEF Stored
    <3>2. PICK S : S = Stored(vs \cup {out})'
      OBVIOUS
    <3>3. S \subseteq Served
      BY <1>15, <1>16, <1>19, <2>2, <3>1, <3>2 DEF Served
    <3>4. Within(S, m.lastseq)
      BY <1>6, <3>3, WithinSubset
    <3> QED
      BY <1>2, <1>4, <1>15, <3>2, <3>4 DEF Within, Stored
  <2>3. bgpc' = "apply" => Stored(edit.add)' = Stored(edit.del)'
    BY <1>4, <1>19 DEF Stored
  <2>4. edit'.add \subseteq DOMAIN tables' /\ \A k \in edit'.add \cup m'.version : k < edit'.next
    BY <1>2, <1>4, <1>5, <1>6, <1>8
  <2>5. edit'.log < edit'.next
    BY <1>3, <1>4, <1>6
  <2>6. current' < edit'.next /\ edit'.next <= m'.nextfile /\ LastEdit(CurrentEdits)'.next <= edit'.next
    BY <1>2, <1>3, <1>4, <1>6, <1>7, <1>14 DEF TypeOK
  <2> QED
    BY <1>1, <1>2, <1>4, <1>5, <2>1, <2>2, <2>3, <2>4, <2>5, <2>6 DEF EditInv
<1> QED
  BY <1>2, <1>6, <1>12, <1>14, <1>17, <1>18, <1>20, WhileOpen DEF OpenPart

LEMMA AppendEditStep ==
  ASSUME TypeOK, StoreInv, AppendEdit
  PROVE  TypeOK' /\ StoreInv' /\ SameStore
<1> USE DEF StoreInv
<1>1. /\ up = "open" /\ up' = "open" /\ bgpc = "apply" /\ faults' \in {faults, faults + 1}
      /\ UNCHANGED <<logs, tables, unlinked, current, m, todo, compaction, edit, seq, acked, synced, crashes>>
      /\ \/ /\ bgpc' = "sync"
            /\ manifests' = [manifests EXCEPT ![m.manifest].edits = Append(manifests[m.manifest].edits, edit)]
         \/ bgpc' = "failed" /\ UNCHANGED manifests
  BY DEF AppendEdit, Fails, Succeeds, hist
<1>2. /\ current = m.manifest /\ current # 0 /\ current \in DOMAIN manifests /\ manifests[current] \in Manifest
      /\ CurrentEdits = manifests[current].edits /\ CurrentEdits \in Seq(Edit) /\ CurrentEdits # << >>
      /\ SyncedEdits = CurrentEdits /\ manifests[current].synced = Len(CurrentEdits)
      /\ VersionOf(CurrentEdits) = m.version /\ LastEdit(CurrentEdits).log = m.lognumber
      /\ EditsOK(CurrentEdits) /\ edit \in Edit /\ LastEdit(CurrentEdits) \in Edit
      /\ \A n \in VersionOf(CurrentEdits) \cup VersionOf(SyncedEdits) : n \in DOMAIN tables
  BY <1>1, OpenEdits, DiskTypes, MemoryTypes DEF OpenPart, OpenInv, EditInv, DiskPart
<1>3. todo = {} /\ Kept = Served
  BY <1>1 DEF OpenPart, OpenInv, OpeningPart, ClosedInv
<1>4. Served' = Served /\ (\A S : Stored(S)' = Stored(S)) /\ (\A k : LogRecs(k)' = LogRecs(k))
  BY <1>1 DEF Served, Stored, LogRecs, LogsFrom
<1>5. CompactionInv'
  BY <1>1 DEF OpenPart, CompactionInv
<1>6. CASE bgpc' = "failed" /\ UNCHANGED manifests
  <2>1. TypeOK'
    BY <1>1, <1>6 DEF TypeOK
  <2>2. FilesKept
    BY <1>1, <1>2, <1>6 DEF FilesKept, DiskPart, DiskInv, NumbersInv
  <2>3. DiskPart' /\ SameStore /\ Kept' = Kept /\ CurrentEdits' = CurrentEdits /\ SyncedEdits' = SyncedEdits
    BY <2>1, <2>2, FilesKeptStep
  <2>4. OpenInv'
    BY <1>1, <1>3, <1>4, <2>3 DEF OpenPart, OpenInv, Within, LogRecs, LogsFrom
  <2>5. EditInv'
    BY <1>1, <1>6, <2>3 DEF OpenPart, EditInv
  <2> QED
    BY <1>1, <1>3, <1>5, <2>1, <2>3, <2>4, <2>5, WhileOpen DEF OpenPart
<1>7. CASE /\ bgpc' = "sync"
           /\ manifests' = [manifests EXCEPT ![m.manifest].edits = Append(manifests[m.manifest].edits, edit)]
  <2>1. PICK es, v : es = CurrentEdits /\ v = (m.version \ edit.del) \cup edit.add
    OBVIOUS
  <2>2. /\ DOMAIN manifests' = DOMAIN manifests /\ manifests'[current] = [manifests[current] EXCEPT !.edits = Append(es, edit)]
        /\ \A n \in DOMAIN manifests : n # current => manifests'[n] = manifests[n]
    BY <1>2, <1>7, <2>1 DEF TypeOK
  <2>3. manifests'[current].edits = Append(es, edit) /\ manifests'[current].synced = Len(es)
    BY <1>2, <2>1, <2>2 DEF Manifest
  <2>4. /\ VersionOf(Append(es, edit)) = v /\ LastEdit(Append(es, edit)) = edit /\ Append(es, edit) # << >>
        /\ SubSeq(Append(es, edit), 1, Len(es)) = es /\ Append(es, edit) \in Seq(Edit)
        /\ Len(Append(es, edit)) = Len(es) + 1 /\ Len(es) \in Nat
    <3>1. v = (VersionOf(es) \ edit.del) \cup edit.add
      BY <1>2, <2>1
    <3> QED
      BY <1>2, <2>1, <3>1, VersionAppend
  <2>5. TypeOK'
    <3>1. manifests'[current] \in Manifest
      <4>1. PICK f, fs : f = manifests[current] /\ fs = Append(es, edit)
        OBVIOUS
      <4>2. f \in Manifest /\ fs \in Seq(Edit) /\ f.synced <= Len(fs)
        BY <1>2, <2>1, <2>4, <4>1
      <4>3. [f EXCEPT !.edits = fs] \in Manifest
        BY <4>2 DEF Manifest
      <4> QED
        BY <2>2, <4>1, <4>3
    <3>2. manifests' \in [DOMAIN manifests' -> Manifest] /\ DOMAIN manifests' \subseteq Nat
      BY <1>2, <1>7, <2>2, <3>1 DEF TypeOK
    <3> QED
      BY <1>1, <1>7, <3>2 DEF TypeOK
  <2>6. CurrentEdits' = Append(es, edit) /\ SyncedEdits' = es
    BY <1>1, <1>2, <2>2, <2>3, <2>4 DEF CurrentEdits, SyncedEdits
  <2>7. PICK l, sv, sl : l = edit.log /\ sv = VersionOf(es) /\ sl = LastEdit(es).log
    OBVIOUS
  <2>8. Kept' = Kept
    <3>1. Kept' = Stored(v)' \cup LogRecs(l)'
      BY <2>4, <2>6, <2>7 DEF Kept, Stored, LogRecs, LogsFrom
    <3>2. Stored(v) \cup LogRecs(l) = Served
      BY <1>1, <2>1, <2>7, EditKeeps
    <3> QED
      BY <1>3, <1>4, <3>1, <3>2
  <2>9. (Content(SyncedEdits) = Kept)'
    <3>1. Content(SyncedEdits)' = Stored(sv)' \cup LogRecs(sl)'
      BY <2>6, <2>7 DEF Content, Stored, LogRecs, LogsFrom
    <3>2. Kept = Stored(sv) \cup LogRecs(sl)
      BY <1>2, <2>1, <2>7, KeptIs DEF Content
    <3> QED
      BY <1>4, <2>8, <3>1, <3>2
  <2>10. EditsOK(SyncedEdits)'
    BY <1>1, <1>2, <2>1, <2>6 DEF EditsOK, Within, Stored
  <2>11. EditsOK(CurrentEdits)'
    <3>1. /\ edit.add \subseteq DOMAIN tables /\ m.version \subseteq DOMAIN tables
          /\ (\A n \in edit.add \cup m.version : n < edit.next) /\ edit.log < edit.next /\ current < edit.next
          /\ Within(Stored(m.version \cup edit.add), edit.last)
      BY <1>1 DEF OpenPart, EditInv, OpenInv
    <3>2. Stored(v) \subseteq Stored(m.version \cup edit.add)
      BY <2>1 DEF Stored
    <3>3. PICK S, la : S = Stored(v) /\ la = edit.last
      OBVIOUS
    <3>4. Within(S, la)
      BY <3>1, <3>2, <3>3, WithinSubset
    <3>5. Within(S, la)'
      BY <1>1, <3>4 DEF Within
    <3>6. (VersionOf(CurrentEdits) = v /\ LastEdit(CurrentEdits) = edit /\ Stored(VersionOf(CurrentEdits)) = S)'
      BY <1>1, <1>4, <2>4, <2>6, <3>3 DEF Stored
    <3> QED
      BY <1>1, <2>1, <3>1, <3>3, <3>5, <3>6 DEF EditsOK, Within
  <2>12. NumbersInv' /\ LogsInv' /\ ProcessSafe' /\ SequencesOrdered'
    BY <1>1, <2>8 DEF DiskPart, NumbersInv, LogsInv, ProcessSafe, SequencesOrdered
  <2>13. DiskInv'
    <3>2. LastEdit(es).next <= edit.next
      BY <1>1, <2>1 DEF OpenPart, EditInv
    <3>3. SafeEntries => VersionOf(es) \cap unlinked = {}
      BY <1>2, <2>1 DEF DiskPart, DiskInv
    <3>4. Len(es) <= Len(es) + 1
      BY <2>4
    <3> QED
      BY <1>1, <1>2, <2>1, <2>2, <2>3, <2>4, <2>6, <2>9, <2>10, <2>11, <3>2, <3>3, <3>4 DEF DiskPart, DiskInv
  <2>14. OpenInv'
    <3>1. edit.next <= m.nextfile
      BY <1>1 DEF OpenPart, EditInv
    <3> QED
      BY <1>1, <1>2, <1>3, <1>4, <2>1, <2>4, <2>6, <2>8, <3>1 DEF OpenPart, OpenInv, Within, LogRecs, LogsFrom
  <2>15. EditInv'
    <3>1. /\ VersionOf(CurrentEdits)' = v /\ LastEdit(CurrentEdits)' = edit
          /\ VersionOf(SyncedEdits)' = m.version /\ LastEdit(SyncedEdits)'.log = m.lognumber
      BY <1>2, <2>1, <2>4, <2>6
    <3>2. manifests'[current].synced + 1 = Len(manifests'[current].edits)
      BY <2>3, <2>4
    <3>3. edit.next <= edit.next
      BY MemoryTypes
    <3> QED
      BY <1>1, <1>7, <2>1, <3>1, <3>2, <3>3 DEF OpenPart, EditInv, Within, Stored
  <2> QED
    BY <1>1, <1>3, <1>5, <2>5, <2>8, <2>12, <2>13, <2>14, <2>15, WhileOpen DEF OpenPart, DiskPart, SameStore, CommittedStep
<1> QED
  BY <1>1, <1>6, <1>7

LEMMA SyncManifestStep ==
  ASSUME TypeOK, StoreInv, SoundFaults, SyncManifest
  PROVE  TypeOK' /\ StoreInv' /\ SameStore
<1> USE DEF StoreInv
<1>1. /\ up = "open" /\ up' = "open" /\ bgpc = "sync" /\ bgpc' = "install"
      /\ UNCHANGED <<logs, tables, current, m, todo, compaction, edit, seq, acked, synced, crashes, faults>>
      /\ manifests' = [manifests EXCEPT ![m.manifest].synced = Len(manifests[m.manifest].edits)]
      /\ unlinked' = IF DirSynced THEN {} ELSE unlinked
  BY DEF SyncManifest, Fails, Succeeds, hist, SoundFaults, SyncDirIfManifest
<1>2. /\ current = m.manifest /\ current # 0 /\ current \in DOMAIN manifests /\ manifests[current] \in Manifest
      /\ CurrentEdits = manifests[current].edits /\ CurrentEdits \in Seq(Edit) /\ CurrentEdits # << >>
      /\ EditsOK(CurrentEdits) /\ LastEdit(CurrentEdits) \in Edit
  BY <1>1, OpenEdits, DiskTypes DEF OpenPart, OpenInv, DiskPart
<1>3. PICK es : es = CurrentEdits
  OBVIOUS
<1>4. /\ DOMAIN manifests' = DOMAIN manifests /\ manifests'[current] = [manifests[current] EXCEPT !.synced = Len(es)]
      /\ \A n \in DOMAIN manifests : n # current => manifests'[n] = manifests[n]
  BY <1>1, <1>2, <1>3 DEF TypeOK
<1>5. manifests'[current].edits = es /\ manifests'[current].synced = Len(es) /\ Len(es) \in Nat
      /\ SubSeq(es, 1, Len(es)) = es
  BY <1>2, <1>3, <1>4, VersionType DEF Manifest
<1>6. TypeOK'
  <2>1. manifests'[current] \in Manifest
    BY <1>2, <1>3, <1>4, <1>5 DEF Manifest
  <2>2. manifests' \in [DOMAIN manifests' -> Manifest] /\ DOMAIN manifests' \subseteq Nat
    BY <1>1, <1>2, <1>4, <2>1 DEF TypeOK
  <2> QED
    BY <1>1, <2>2 DEF TypeOK
<1>7. CurrentEdits' = es /\ SyncedEdits' = es
  BY <1>1, <1>2, <1>4, <1>5 DEF CurrentEdits, SyncedEdits
<1>8. Kept' = Kept /\ Served' = Served /\ todo = {} /\ Kept = Served
  BY <1>1, <1>3, <1>7 DEF Kept, Served, Stored, LogsFrom, OpenPart, OpenInv, OpeningPart, ClosedInv
<1>9. (Content(SyncedEdits) = Kept)'
  BY <1>2, <1>3, <1>7 DEF Kept, Content, LogRecs
<1>10. EditsOK(CurrentEdits)' /\ EditsOK(SyncedEdits)'
  BY <1>1, <1>2, <1>3, <1>7 DEF EditsOK, Within, Stored
<1>11. NumbersInv' /\ LogsInv' /\ ProcessSafe' /\ SequencesOrdered'
  BY <1>1, <1>8 DEF DiskPart, NumbersInv, LogsInv, ProcessSafe, SequencesOrdered
<1>12. DiskInv'
  <2>1. (~EntriesVolatile => unlinked' = {}) /\ (SafeEntries => unlinked' = {})
    BY <1>1 DEF DiskPart, DiskInv, SafeEntries
  <2>2. LastEdit(es).next <= LastEdit(es).next /\ Len(es) <= Len(es)
    BY <1>2, <1>3, <1>5 DEF Edit
  <2> QED
    BY <1>1, <1>2, <1>3, <1>4, <1>5, <1>7, <1>9, <1>10, <2>1, <2>2 DEF DiskInv
<1>13. OpenInv'
  BY <1>1, <1>2, <1>3, <1>7, <1>8 DEF OpenPart, OpenInv, Within, LogRecs, LogsFrom
<1>14. CompactionInv'
  BY <1>1 DEF OpenPart, CompactionInv
<1>15. EditInv'
  BY <1>1, <1>2, <1>3, <1>5, <1>7 DEF OpenPart, EditInv, Within, Stored
<1> QED
  BY <1>1, <1>6, <1>8, <1>11, <1>12, <1>13, <1>14, <1>15, WhileOpen DEF OpenPart, DiskPart, SameStore, CommittedStep

\* DeleteObsoleteFiles, given a memory that agrees with the manifest, removes no file it needs.
LEMMA ObsoleteFilesStep ==
  ASSUME TypeOK, DiskPart, current # 0, NEW s \in Memory, DeleteObsoleteFiles(s),
         UNCHANGED <<current, seq, acked, synced>>, SyncedEdits = CurrentEdits, CurrentEdits # << >>,
         s.manifest = current, VersionOf(CurrentEdits) \subseteq s.version,
         s.lognumber <= LastEdit(CurrentEdits).log
  PROVE  /\ FilesKept
         /\ logs' \in [DOMAIN logs' -> LogFile] /\ DOMAIN logs' \subseteq Nat
         /\ tables' \in [DOMAIN tables' -> SUBSET Writes] /\ DOMAIN tables' \subseteq Nat /\ unlinked' \subseteq Nat
         /\ manifests' \in [DOMAIN manifests' -> Manifest] /\ DOMAIN manifests' \subseteq Nat
         /\ \A n \in DOMAIN tables : n \in s.version \cup s.pending => n \in DOMAIN tables' /\ tables'[n] = tables[n]
         /\ DOMAIN logs' \subseteq DOMAIN logs
         /\ \A n \in DOMAIN logs : n >= s.lognumber => n \in DOMAIN logs' /\ logs'[n] = logs[n]
         /\ LogRecs(s.lognumber)' = LogRecs(s.lognumber)
         /\ s.version \subseteq DOMAIN tables => Stored(s.version)' = Stored(s.version)
<1>1. /\ logs' = Keep(logs, KeepLogs(s)) /\ manifests' = Keep(manifests, {n \in DOMAIN manifests : n >= s.manifest})
      /\ tables' = Keep(tables, s.version \cup s.pending) /\ unlinked' = unlinked \cap (s.version \cup s.pending)
  BY DEF DeleteObsoleteFiles, LiveTables
<1>2. /\ logs' \in [DOMAIN logs' -> LogFile] /\ DOMAIN logs' \subseteq Nat
      /\ tables' \in [DOMAIN tables' -> SUBSET Writes] /\ DOMAIN tables' \subseteq Nat /\ unlinked' \subseteq Nat
      /\ manifests' \in [DOMAIN manifests' -> Manifest] /\ DOMAIN manifests' \subseteq Nat
  <2>1. logs' = [n \in DOMAIN logs \cap KeepLogs(s) |-> logs[n]]
    BY <1>1 DEF Keep
  <2>2. tables' = [n \in DOMAIN tables \cap (s.version \cup s.pending) |-> tables[n]]
    BY <1>1 DEF Keep
  <2>3. manifests' = [n \in DOMAIN manifests \cap {k \in DOMAIN manifests : k >= s.manifest} |-> manifests[n]]
    BY <1>1 DEF Keep
  <2>4. logs' \in [DOMAIN logs' -> LogFile] /\ DOMAIN logs' \subseteq Nat
    BY <2>1 DEF TypeOK
  <2>5. tables' \in [DOMAIN tables' -> SUBSET Writes] /\ DOMAIN tables' \subseteq Nat
    BY <2>2 DEF TypeOK
  <2>6. manifests' \in [DOMAIN manifests' -> Manifest] /\ DOMAIN manifests' \subseteq Nat
    BY <2>3 DEF TypeOK
  <2> QED
    BY <1>1, <2>4, <2>5, <2>6 DEF TypeOK
<1>3. /\ DOMAIN tables' = DOMAIN tables \cap (s.version \cup s.pending)
      /\ \A n \in DOMAIN tables' : tables'[n] = tables[n]
  BY <1>1 DEF Keep
<1>4. /\ DOMAIN logs' = {n \in DOMAIN logs : n >= s.lognumber}
      /\ \A n \in DOMAIN logs' : logs'[n] = logs[n]
  BY <1>1 DEF Keep, KeepLogs
<1>5. /\ DOMAIN manifests' = {n \in DOMAIN manifests : n >= s.manifest}
      /\ \A n \in DOMAIN manifests' : manifests'[n] = manifests[n]
  BY <1>1 DEF Keep
<1>6. FilesKept
  <2>1. current \in DOMAIN manifests' /\ manifests'[current] = manifests[current]
    BY <1>5 DEF DiskPart, DiskInv, TypeOK
  <2>2. VersionOf(CurrentEdits) \subseteq DOMAIN tables
    BY DEF DiskPart, DiskInv, EditsOK
  <2>3. \A n \in VersionOf(CurrentEdits) \cup VersionOf(SyncedEdits) : n \in DOMAIN tables' /\ tables'[n] = tables[n]
    BY <1>3, <2>2
  <2>4. \A n \in DOMAIN tables' : \A x \in tables'[n] : seq[x] # 0
    BY <1>3 DEF DiskPart, NumbersInv
  <2>5. LastEdit(CurrentEdits).log \in Nat /\ s.lognumber \in Nat
    BY DiskTypes DEF DiskPart, Edit, Memory
  <2>6. \A n \in DOMAIN logs : n >= LastEdit(CurrentEdits).log => n \in DOMAIN logs'
    BY <1>4, <2>5 DEF TypeOK
  <2>7. ~EntriesVolatile => unlinked' = {}
    BY <1>1 DEF DiskPart, DiskInv
  <2> QED
    BY <1>1, <1>4, <2>1, <2>3, <2>4, <2>6, <2>7 DEF FilesKept
<1>7. LogRecs(s.lognumber)' = LogRecs(s.lognumber)
  <2>1. PICK k : k = s.lognumber
    OBVIOUS
  <2>2. LogRecs(k)' = LogRecs(k)
    BY <1>4, <2>1, LogRecsSame
  <2> QED
    BY <2>1, <2>2
<1>8. ASSUME s.version \subseteq DOMAIN tables PROVE Stored(s.version)' = Stored(s.version)
  <2>1. PICK S : S = s.version
    OBVIOUS
  <2>2. Stored(S)' = Stored(S)
    BY <1>3, <1>8, <2>1, StoredSame
  <2> QED
    BY <2>1, <2>2
<1> QED
  BY <1>2, <1>3, <1>4, <1>6, <1>7, <1>8

LEMMA InstallStep ==
  ASSUME TypeOK, StoreInv, Install
  PROVE  TypeOK' /\ StoreInv' /\ SameStore
<1> USE DEF StoreInv
<1>1. /\ up = "open" /\ up' = "open" /\ bgpc = "install" /\ edit' = NoEdit
      /\ UNCHANGED <<current, todo, seq, acked, synced, crashes, faults>> /\ DeleteObsoleteFiles(m')
      /\ edit.del # {} => m' = CleanupCompaction(Applied) /\ bgpc' = "idle" /\ compaction' = NoCompaction
      /\ edit.del = {} => /\ m' = Flushed(Applied) /\ compaction' = compaction
                          /\ bgpc' = IF compaction # NoCompaction THEN "compact" ELSE "idle"
  BY DEF Install, FromCompaction, hist
<1>2. PICK v, l, a : v = (m.version \ edit.del) \cup edit.add /\ l = edit.log /\ a = Applied
  OBVIOUS
<1>3. /\ m \in Memory /\ v \in SUBSET Nat /\ l \in Nat /\ m.pending \ {compaction.out} \in SUBSET Nat /\ NoEdit \in Edit
      /\ NoCompaction \in [inputs : SUBSET Nat, out : Nat] /\ m.logfile \in Nat /\ m.nextfile \in Nat
  BY <1>2, MemoryTypes
<1>4. /\ a = [m EXCEPT !.version = v, !.lognumber = l] /\ a \in Memory
      /\ a.version = v /\ a.lognumber = l /\ a.mem = m.mem /\ a.logfile = m.logfile /\ a.nextfile = m.nextfile
      /\ a.manifest = m.manifest /\ a.lastseq = m.lastseq /\ a.imm = m.imm /\ a.hasimm = m.hasimm
      /\ a.pending = m.pending
  <2>1. a = [m EXCEPT !.version = v, !.lognumber = l]
    BY <1>2 DEF Applied
  <2>2. a \in Memory
    BY <1>3, <2>1, MemoryUpdates
  <2> QED
    BY <1>3, <2>1, <2>2 DEF Memory
<1>21. /\ edit.del # {} => m' = [a EXCEPT !.pending = m.pending \ {compaction.out}]
       /\ edit.del = {} => m' = [a EXCEPT !.imm = {}, !.hasimm = FALSE]
  <2>1. edit.del # {} => m' = CleanupCompaction(a)
    BY <1>1, <1>2
  <2>2. edit.del = {} => m' = Flushed(a)
    BY <1>1, <1>2
  <2>3. CleanupCompaction(a) = [a EXCEPT !.pending = a.pending \ {compaction.out}]
    BY DEF CleanupCompaction
  <2> QED
    BY <1>4, <2>1, <2>2, <2>3 DEF Flushed
<1>5. m' \in Memory
  <2>1. PICK ps \in SUBSET Nat : ps = m.pending \ {compaction.out}
    BY <1>3
  <2>2. [a EXCEPT !.pending = ps] \in Memory
    BY <1>4, MemoryUpdates
  <2>3. [a EXCEPT !.imm = {}, !.hasimm = FALSE] \in Memory
    BY <1>4, MemoryUpdates
  <2> QED
    BY <1>21, <2>1, <2>2, <2>3
<1>6. /\ m'.version = v /\ m'.lognumber = l /\ m'.mem = m.mem /\ m'.logfile = m.logfile /\ m'.nextfile = m.nextfile
      /\ m'.manifest = m.manifest /\ m'.lastseq = m.lastseq
      /\ edit.del # {} => m'.pending = m.pending \ {compaction.out} /\ m'.imm = m.imm /\ m'.hasimm = m.hasimm
      /\ edit.del = {} => m'.pending = m.pending /\ m'.imm = {} /\ ~m'.hasimm
  <2>1. CASE edit.del # {}
    BY <1>4, <1>21, <2>1 DEF Memory
  <2>2. CASE edit.del = {}
    BY <1>4, <1>21, <2>2 DEF Memory
  <2> QED
    BY <2>1, <2>2
<1>7. /\ current = m.manifest /\ current # 0 /\ CurrentEdits # << >> /\ SyncedEdits = CurrentEdits
      /\ VersionOf(CurrentEdits) = v /\ LastEdit(CurrentEdits) = edit /\ LastEdit(CurrentEdits).next \in Nat
      /\ (\A n \in v : n < m.nextfile /\ n \in DOMAIN tables)
      /\ manifests[current].synced = Len(manifests[current].edits)
  BY <1>1, <1>2, OpenEdits DEF OpenPart, OpenInv, EditInv, Edit
<1>8. /\ m.logfile \in DOMAIN logs /\ logs[m.logfile].recs = m.mem /\ m.logfile < m.nextfile
      /\ (\A n \in DOMAIN logs : n <= m.logfile) /\ Kept = Served /\ Within(Served, m.lastseq) /\ todo = {}
      /\ LastEdit(CurrentEdits).next <= m.nextfile /\ (~m.hasimm => m.imm = {})
  BY <1>1 DEF OpenPart, OpenInv, OpeningPart, ClosedInv
<1>9. l <= m.logfile
  BY <1>1, <1>2, <1>7, OpenEdits
<1>10. PICK s : s = m'
  OBVIOUS
<1>11. /\ FilesKept
       /\ logs' \in [DOMAIN logs' -> LogFile] /\ DOMAIN logs' \subseteq Nat
       /\ tables' \in [DOMAIN tables' -> SUBSET Writes] /\ DOMAIN tables' \subseteq Nat /\ unlinked' \subseteq Nat
       /\ manifests' \in [DOMAIN manifests' -> Manifest] /\ DOMAIN manifests' \subseteq Nat
       /\ (\A n \in DOMAIN tables : n \in s.version \cup s.pending => n \in DOMAIN tables' /\ tables'[n] = tables[n])
       /\ DOMAIN logs' \subseteq DOMAIN logs
       /\ (\A n \in DOMAIN logs : n >= s.lognumber => n \in DOMAIN logs' /\ logs'[n] = logs[n])
       /\ LogRecs(s.lognumber)' = LogRecs(s.lognumber)
       /\ (s.version \subseteq DOMAIN tables => Stored(s.version)' = Stored(s.version))
  <2>1. s \in Memory /\ DeleteObsoleteFiles(s) /\ s.manifest = current /\ VersionOf(CurrentEdits) \subseteq s.version
        /\ s.lognumber <= LastEdit(CurrentEdits).log
    BY <1>1, <1>2, <1>3, <1>5, <1>6, <1>7, <1>10
  <2> QED
    BY <1>1, <1>7, <2>1, ObsoleteFilesStep
<1>12. TypeOK'
  <2>1. bgpc' \in {"idle", "compact"} /\ compaction' \in [inputs : SUBSET Nat, out : Nat]
    BY <1>1, <1>3 DEF TypeOK
  <2> QED
    BY <1>1, <1>3, <1>5, <1>11, <2>1 DEF TypeOK
<1>13. DiskPart' /\ SameStore /\ Kept' = Kept /\ CurrentEdits' = CurrentEdits /\ SyncedEdits' = SyncedEdits
  BY <1>11, <1>12, FilesKeptStep
<1>14. Stored(v)' = Stored(v) /\ LogRecs(l)' = LogRecs(l) /\ v \subseteq DOMAIN tables'
  BY <1>6, <1>7, <1>10, <1>11
<1>15. LogRecs(l) = m'.mem \cup m'.imm /\ Stored(v) \cup LogRecs(l) = Served
  BY <1>1, <1>2, <1>6, EditKeeps
<1>16. Served' = Kept'
  <2>1. Served' = m'.mem \cup m'.imm \cup Stored(v)'
    BY <1>6 DEF Served, Stored
  <2> QED
    BY <1>8, <1>13, <1>14, <1>15, <2>1
<1>17. manifests'[current] = manifests[current]
  BY <1>11 DEF FilesKept
<1>18. OpenInv'
  <2>1. m.logfile \in DOMAIN logs' /\ logs'[m.logfile] = logs[m.logfile]
    BY <1>3, <1>6, <1>8, <1>9, <1>10, <1>11
  <2>2. LogRecs(m.lognumber)' = m'.mem \cup m'.imm
    <3>1. LogRecs(l)' = m'.mem \cup m'.imm
      BY <1>14, <1>15
    <3> QED
      BY <1>6, <3>1 DEF LogRecs, LogsFrom
  <2>3. Within(Served, m.lastseq)'
    BY <1>1, <1>6, <1>8, <1>13, <1>16 DEF Within
  <2>4. \A n \in DOMAIN logs' : n <= m.logfile
    BY <1>8, <1>11
  <2>5. ~m'.hasimm => m'.imm = {}
    BY <1>6, <1>8
  <2> QED
    BY <1>1, <1>6, <1>7, <1>8, <1>9, <1>13, <1>14, <1>16, <2>1, <2>2, <2>3, <2>4, <2>5 DEF OpenInv
<1>19. CompactionInv'
  <2>1. /\ m.pending = (IF compaction.out = 0 THEN {} ELSE {compaction.out})
        /\ compaction.inputs \subseteq m.version /\ (compaction # NoCompaction => compaction.inputs # {})
        /\ compaction.out # 0 => /\ compaction.inputs # {} /\ compaction.out \in DOMAIN tables
                                 /\ compaction.out < m.nextfile /\ compaction.out \notin m.version
    BY <1>1 DEF OpenPart, CompactionInv
  <2>2. CASE edit.del # {}
    <3>1. m'.pending = {}
      BY <1>6, <2>1, <2>2
    <3> QED
      BY <1>1, <2>2, <3>1 DEF CompactionInv, NoCompaction
  <2>3. CASE edit.del = {}
    <3>1. /\ compaction' = compaction /\ m'.pending = m.pending /\ v = m.version \cup edit.add
          /\ bgpc' = "idle" => compaction = NoCompaction
      BY <1>1, <1>2, <1>6, <2>3
    <3>2. \A n \in edit.add : n # compaction.out
      BY <1>1, <2>3 DEF OpenPart, EditInv
    <3>3. compaction.out # 0 => compaction.out \in DOMAIN tables'
      BY <1>10, <1>11, <2>1, <3>1
    <3>4. bgpc' = "compact" => compaction # NoCompaction
      BY <1>1, <2>3
    <3> QED
      BY <1>6, <2>1, <3>1, <3>2, <3>3, <3>4 DEF CompactionInv
  <2> QED
    BY <2>2, <2>3
<1>20. EditInv'
  <2>1. bgpc' \in {"idle", "compact"} /\ edit'.del = {}
    BY <1>1 DEF NoEdit
  <2>2. /\ VersionOf(CurrentEdits)' = m'.version /\ LastEdit(CurrentEdits)'.log = m'.lognumber
        /\ manifests'[current'].synced = Len(manifests'[current'].edits)
    BY <1>1, <1>2, <1>6, <1>7, <1>13, <1>17
  <2> QED
    BY <1>1, <2>1, <2>2 DEF EditInv
<1> QED
  BY <1>1, <1>8, <1>12, <1>13, <1>18, <1>19, <1>20, WhileOpen DEF OpenPart

LEMMA GiveUpStep ==
  ASSUME TypeOK, StoreInv, GiveUp
  PROVE  TypeOK' /\ StoreInv' /\ SameStore
<1> USE DEF StoreInv
<1>1. /\ up = "open" /\ up' = "open" /\ bgpc = "failed" /\ edit' = NoEdit
      /\ UNCHANGED <<current, todo, seq, acked, synced, crashes, faults>>
      /\ edit.del # {} => /\ m' = CleanupCompaction([m EXCEPT !.bgerror = TRUE]) /\ bgpc' = "idle"
                          /\ compaction' = NoCompaction /\ DeleteObsoleteFiles(m')
      /\ edit.del = {} => /\ m' = [m EXCEPT !.bgerror = TRUE] /\ UNCHANGED <<logs, manifests, tables, unlinked, compaction>>
                          /\ bgpc' = IF compaction = NoCompaction THEN "idle" ELSE "compact"
  BY DEF GiveUp, FromCompaction, hist
<1>2. PICK a : a = [m EXCEPT !.bgerror = TRUE]
  OBVIOUS
<1>3. /\ m \in Memory /\ m.pending \ {compaction.out} \in SUBSET Nat /\ NoEdit \in Edit
      /\ NoCompaction \in [inputs : SUBSET Nat, out : Nat] /\ m.logfile \in Nat /\ m.lognumber \in Nat
  BY MemoryTypes
<1>4. a \in Memory
  BY <1>2, <1>3, MemoryUpdates
<1>19. a.pending = m.pending
  BY <1>2, <1>3 DEF Memory
<1>5. /\ edit.del # {} => m' = [a EXCEPT !.pending = m.pending \ {compaction.out}]
      /\ edit.del = {} => m' = a
  <2>1. edit.del # {} => m' = [a EXCEPT !.pending = a.pending \ {compaction.out}]
    BY <1>1, <1>2 DEF CleanupCompaction
  <2> QED
    BY <1>1, <1>2, <1>19, <2>1
<1>6. m' \in Memory
  <2>1. PICK ps \in SUBSET Nat : ps = m.pending \ {compaction.out}
    BY <1>3
  <2>2. [a EXCEPT !.pending = ps] \in Memory
    BY <1>4, MemoryUpdates
  <2> QED
    BY <1>4, <1>5, <2>1, <2>2
<1>7. /\ m'.version = m.version /\ m'.lognumber = m.lognumber /\ m'.mem = m.mem /\ m'.logfile = m.logfile
      /\ m'.nextfile = m.nextfile /\ m'.manifest = m.manifest /\ m'.lastseq = m.lastseq
      /\ m'.imm = m.imm /\ m'.hasimm = m.hasimm
      /\ edit.del # {} => m'.pending = m.pending \ {compaction.out}
      /\ edit.del = {} => m'.pending = m.pending
  BY <1>2, <1>3, <1>5 DEF Memory
<1>8. /\ current = m.manifest /\ current # 0 /\ CurrentEdits # << >> /\ SyncedEdits = CurrentEdits
      /\ VersionOf(CurrentEdits) = m.version /\ LastEdit(CurrentEdits).log = m.lognumber
      /\ (\A n \in m.version : n \in DOMAIN tables) /\ current \in DOMAIN manifests
      /\ manifests[current].synced = Len(manifests[current].edits)
  BY <1>1, OpenEdits DEF OpenPart, OpenInv, EditInv
<1>9. /\ m.logfile \in DOMAIN logs /\ logs[m.logfile].recs = m.mem /\ m.lognumber <= m.logfile
      /\ (\A n \in DOMAIN logs : n <= m.logfile) /\ Kept = Served /\ Within(Served, m.lastseq) /\ todo = {}
      /\ LogRecs(m.lognumber) = m.mem \cup m.imm
  BY <1>1 DEF OpenPart, OpenInv, OpeningPart, ClosedInv
<1>10. PICK s, v, l : s = m' /\ v = m.version /\ l = m.lognumber
  OBVIOUS
<1>11. /\ FilesKept
       /\ logs' \in [DOMAIN logs' -> LogFile] /\ DOMAIN logs' \subseteq Nat
       /\ tables' \in [DOMAIN tables' -> SUBSET Writes] /\ DOMAIN tables' \subseteq Nat /\ unlinked' \subseteq Nat
       /\ manifests' \in [DOMAIN manifests' -> Manifest] /\ DOMAIN manifests' \subseteq Nat
       /\ DOMAIN logs' \subseteq DOMAIN logs
       /\ (\A n \in DOMAIN logs : n >= l => n \in DOMAIN logs' /\ logs'[n] = logs[n])
       /\ LogRecs(l)' = LogRecs(l) /\ Stored(v)' = Stored(v)
  <2>1. CASE edit.del # {}
    <3>1. s \in Memory /\ DeleteObsoleteFiles(s) /\ s.manifest = current /\ VersionOf(CurrentEdits) \subseteq s.version
          /\ s.lognumber <= LastEdit(CurrentEdits).log /\ s.version = v /\ s.lognumber = l
      BY <1>1, <1>3, <1>6, <1>7, <1>8, <1>10, <2>1
    <3> QED
      BY <1>1, <1>8, <1>10, <3>1, ObsoleteFilesStep
  <2>2. CASE edit.del = {}
    <3>1. UNCHANGED <<logs, manifests, tables, unlinked>>
      BY <1>1, <2>2
    <3>2. FilesKept
      BY <1>1, <1>8, <3>1 DEF FilesKept, DiskPart, DiskInv, NumbersInv
    <3> QED
      BY <3>1, <3>2 DEF TypeOK, LogRecs, LogsFrom, Stored
  <2> QED
    BY <2>1, <2>2
<1>12. TypeOK'
  <2>1. bgpc' \in {"idle", "compact"} /\ compaction' \in [inputs : SUBSET Nat, out : Nat]
    BY <1>1, <1>3 DEF TypeOK
  <2> QED
    BY <1>1, <1>3, <1>6, <1>11, <2>1 DEF TypeOK
<1>13. DiskPart' /\ SameStore /\ Kept' = Kept /\ CurrentEdits' = CurrentEdits /\ SyncedEdits' = SyncedEdits
  BY <1>11, <1>12, FilesKeptStep
<1>14. Served' = Served
  BY <1>7, <1>10, <1>11 DEF Served, Stored
<1>15. \A n \in v : n \in DOMAIN tables'
  BY <1>8, <1>10, <1>11 DEF FilesKept
<1>16. OpenInv'
  <2>1. m.logfile \in DOMAIN logs' /\ logs'[m.logfile] = logs[m.logfile]
    BY <1>3, <1>9, <1>10, <1>11
  <2>2. LogRecs(m.lognumber)' = m'.mem \cup m'.imm
    <3>1. LogRecs(l)' = m'.mem \cup m'.imm
      BY <1>7, <1>9, <1>10, <1>11
    <3> QED
      BY <1>7, <1>10, <3>1 DEF LogRecs, LogsFrom
  <2>3. Within(Served, m.lastseq)'
    BY <1>1, <1>7, <1>9, <1>14 DEF Within
  <2>4. \A n \in DOMAIN logs' : n <= m.logfile
    BY <1>9, <1>11
  <2> QED
    BY <1>1, <1>7, <1>9, <1>10, <1>13, <1>14, <1>15, <2>1, <2>2, <2>3, <2>4 DEF OpenPart, OpenInv
<1>17. CompactionInv'
  <2>1. /\ m.pending = (IF compaction.out = 0 THEN {} ELSE {compaction.out})
        /\ compaction.inputs \subseteq m.version /\ (compaction # NoCompaction => compaction.inputs # {})
        /\ compaction.out # 0 => /\ compaction.inputs # {} /\ compaction.out \in DOMAIN tables
                                 /\ compaction.out < m.nextfile /\ compaction.out \notin m.version
    BY <1>1 DEF OpenPart, CompactionInv
  <2>2. CASE edit.del # {}
    <3>1. m'.pending = {}
      BY <1>7, <2>1, <2>2
    <3> QED
      BY <1>1, <2>2, <3>1 DEF CompactionInv, NoCompaction
  <2>3. CASE edit.del = {}
    BY <1>1, <1>7, <2>1, <2>3 DEF CompactionInv
  <2> QED
    BY <2>2, <2>3
<1>18. EditInv'
  <2>1. bgpc' \in {"idle", "compact"} /\ edit'.del = {}
    BY <1>1 DEF NoEdit
  <2>2. manifests'[current] = manifests[current]
    BY <1>11 DEF FilesKept
  <2>3. /\ VersionOf(CurrentEdits)' = m'.version /\ LastEdit(CurrentEdits)'.log = m'.lognumber
        /\ manifests'[current'].synced = Len(manifests'[current'].edits)
    BY <1>1, <1>7, <1>8, <1>13, <2>2
  <2> QED
    BY <1>1, <2>1, <2>3 DEF EditInv
<1> QED
  BY <1>1, <1>9, <1>12, <1>13, <1>16, <1>17, <1>18, WhileOpen DEF OpenPart

-----------------------------------------------------------------------------
(* Crashes                                                                 *)

LEMMA WhileDown ==
  ASSUME up' \in {"down", "new", "corrupt"}, todo' = {}, bgpc' = "idle", compaction' = NoCompaction, edit' = NoEdit,
         up' = "corrupt" => CurrentEdits' = << >>
  PROVE  OpeningPart' /\ OpenPart'
BY WhileClosed DEF OpeningPart, ClosedInv, RecoverInv, ReplayInv, SnapshotInv, Quiet

\* The process dies: no file changes.
LEMMA ProcessCrashStep ==
  ASSUME TypeOK, StoreInv, Crash(FALSE)
  PROVE  TypeOK' /\ StoreInv' /\ SameStore
<1> USE DEF StoreInv
<1>1. /\ up # "down" /\ up' = "down" /\ m' = NoMemory /\ todo' = {} /\ bgpc' = "idle" /\ compaction' = NoCompaction
      /\ edit' = NoEdit /\ unlinked' = {} /\ crashes' = crashes + 1
      /\ UNCHANGED <<logs, manifests, tables, current, seq, acked, synced, faults>>
  BY DEF Crash
<1>2. TypeOK'
  BY <1>1, MemoryTypes DEF TypeOK
<1>3. FilesKept
  <2>1. current # 0 /\ current \in DOMAIN manifests
    BY <1>1 DEF DiskPart, DiskInv
  <2>2. VersionOf(CurrentEdits) \subseteq DOMAIN tables
    <3>1. CASE CurrentEdits = << >>
      BY <3>1, DiskTypes DEF DiskPart
    <3>2. CASE CurrentEdits # << >>
      BY <3>2 DEF DiskPart, DiskInv, EditsOK
    <3> QED
      BY <3>1, <3>2
  <2>3. VersionOf(SyncedEdits) \subseteq DOMAIN tables
    <3>1. CASE SyncedEdits = << >>
      BY <3>1, DiskTypes DEF DiskPart
    <3>2. CASE SyncedEdits # << >>
      BY <3>2 DEF DiskPart, DiskInv, EditsOK
    <3> QED
      BY <3>1, <3>2
  <2> QED
    BY <1>1, <2>1, <2>2, <2>3 DEF FilesKept, DiskPart, NumbersInv
<1>4. DiskPart' /\ SameStore
  BY <1>2, <1>3, FilesKeptStep
<1> QED
  BY <1>1, <1>2, <1>4, WhileDown

\* The machine dies: what was synced is left, and that is what a recovery needs.
LEMMA PowerCrashStep ==
  ASSUME TypeOK, StoreInv, SafeEntries, Crash(TRUE)
  PROVE  TypeOK' /\ StoreInv' /\ CommittedStep /\ Kept' \subseteq Kept /\ synced \subseteq Kept'
<1> USE DEF StoreInv
<1>1. /\ up # "down" /\ up' = "down" /\ m' = NoMemory /\ todo' = {} /\ bgpc' = "idle" /\ compaction' = NoCompaction
      /\ edit' = NoEdit /\ unlinked' = {} /\ crashes' = crashes + 1 /\ acked' = synced
      /\ UNCHANGED <<current, seq, synced, faults>>
      /\ logs' = [n \in DOMAIN logs |-> [logs[n] EXCEPT !.recs = logs[n].synced]]
      /\ manifests' = [n \in DOMAIN manifests |->
                         [manifests[n] EXCEPT !.edits = SubSeq(manifests[n].edits, 1, manifests[n].synced)]]
  BY DEF Crash
<1>2. PICK lost \in SUBSET unlinked : tables' = Keep(tables, DOMAIN tables \ lost)
  BY DEF Crash
<1>3. /\ DOMAIN logs' = DOMAIN logs
      /\ \A n \in DOMAIN logs : /\ logs[n].recs \subseteq Writes /\ logs[n].synced \subseteq Writes
                                /\ logs'[n].recs = logs[n].synced /\ logs'[n].synced = logs[n].synced
                                /\ logs'[n] \in LogFile
  <2>1. \A n \in DOMAIN logs : logs[n] \in LogFile
    BY DEF TypeOK
  <2> QED
    BY <1>1, <2>1 DEF LogFile
<1>4. /\ DOMAIN tables' = DOMAIN tables \ lost /\ \A n \in DOMAIN tables' : tables'[n] = tables[n]
  BY <1>2 DEF Keep
<1>5. current # 0 /\ current \in DOMAIN manifests /\ manifests[current].synced <= Len(manifests[current].edits)
  BY <1>1 DEF DiskPart, DiskInv
<1>6. TypeOK'
  <2>1. logs' \in [DOMAIN logs' -> LogFile] /\ DOMAIN logs' \subseteq Nat
    BY <1>1, <1>3 DEF TypeOK
  <2>2. tables' \in [DOMAIN tables' -> SUBSET Writes] /\ DOMAIN tables' \subseteq Nat
    <3>1. tables' = [n \in DOMAIN tables \cap (DOMAIN tables \ lost) |-> tables[n]]
      BY <1>2 DEF Keep
    <3> QED
      BY <3>1 DEF TypeOK
  <2>3. manifests' \in [DOMAIN manifests' -> Manifest] /\ DOMAIN manifests' \subseteq Nat
    <3>1. ASSUME NEW n \in DOMAIN manifests
          PROVE  [manifests[n] EXCEPT !.edits = SubSeq(manifests[n].edits, 1, manifests[n].synced)] \in Manifest
      <4>1. PICK f : f = manifests[n] /\ f \in Manifest
        BY DEF TypeOK
      <4>2. PICK es, k : es = f.edits /\ k = f.synced /\ es \in Seq(Edit) /\ k \in 0..Len(es)
        BY <4>1 DEF Manifest
      <4>3. SubSeq(es, 1, k) \in Seq(Edit) /\ Len(SubSeq(es, 1, k)) = k
        BY <4>2, VersionType
      <4>4. PICK fs : fs = SubSeq(es, 1, k) /\ fs \in Seq(Edit) /\ Len(fs) = k
        BY <4>3
      <4>5. [f EXCEPT !.edits = fs] \in Manifest
        <5>1. f.synced <= Len(fs)
          BY <4>2, <4>4
        <5> QED
          BY <4>1, <4>4, <5>1, ManifestUpdates
      <4>6. SubSeq(manifests[n].edits, 1, manifests[n].synced) = fs
        BY <4>1, <4>2, <4>4
      <4> QED
        BY <4>1, <4>5, <4>6, Zenon
    <3> QED
      BY <1>1, <3>1 DEF TypeOK
  <2> QED
    <3>1. m' \in Memory /\ compaction' \in [inputs : SUBSET Nat, out : Nat] /\ edit' \in Edit
      BY <1>1, MemoryTypes
    <3> QED
      BY <1>1, <2>1, <2>2, <2>3, <3>1 DEF TypeOK
<1>7. PICK es, k, fs : es = manifests[current].edits /\ k = manifests[current].synced /\ fs = SyncedEdits
  OBVIOUS
<1>8. /\ es \in Seq(Edit) /\ k \in Nat /\ k <= Len(es) /\ CurrentEdits = es /\ fs = SubSeq(es, 1, k)
      /\ fs \in Seq(Edit) /\ Len(fs) = k /\ SubSeq(fs, 1, k) = fs
  <2>1. es \in Seq(Edit) /\ k \in Nat /\ k <= Len(es)
    BY <1>5, <1>7 DEF TypeOK, Manifest
  <2>2. CurrentEdits = es /\ fs = SubSeq(es, 1, k)
    BY <1>5, <1>7 DEF CurrentEdits, SyncedEdits
  <2>3. fs \in Seq(Edit) /\ Len(fs) = k
    BY <2>1, <2>2, VersionType
  <2> QED
    BY <2>1, <2>2, <2>3, VersionType
<1>9. manifests'[current].edits = fs /\ manifests'[current].synced = k /\ current \in DOMAIN manifests'
  BY <1>1, <1>5, <1>7, <1>8 DEF TypeOK, Manifest
<1>10. CurrentEdits' = fs /\ SyncedEdits' = fs
  BY <1>1, <1>8, <1>9 DEF CurrentEdits, SyncedEdits
<1>11. synced \subseteq acked /\ acked \subseteq Kept
  BY DEF DiskPart, NumbersInv, ProcessSafe
<1>12. NumbersInv'
  <2>1. \A n \in DOMAIN logs : \A x \in logs'[n].recs : seq[x] # 0
    BY <1>3 DEF DiskPart, NumbersInv, LogsInv
  <2>2. \A n \in DOMAIN tables' : \A x \in tables'[n] : seq[x] # 0
    BY <1>4 DEF DiskPart, NumbersInv
  <2> QED
    BY <1>1, <1>3, <2>1, <2>2 DEF DiskPart, NumbersInv
<1>13. LogsInv'
  BY <1>1, <1>3 DEF DiskPart, LogsInv
<1>14. ProcessSafe' /\ Kept' \subseteq Kept /\ (fs # << >> => EditsOK(CurrentEdits)')
  <2>1. CASE fs = << >>
    <3>1. Kept' = {}
      BY <1>10, <2>1 DEF Kept
    <3>2. acked = {}
      BY <1>7, <2>1 DEF DiskPart, DiskInv
    <3> QED
      BY <1>1, <1>11, <2>1, <3>1, <3>2 DEF ProcessSafe
  <2>2. CASE fs # << >>
    <3>1. PICK sv, se : sv = VersionOf(fs) /\ se = LastEdit(fs)
      OBVIOUS
    <3>2. /\ EditsOK(fs) /\ Content(fs) = Kept /\ sv \cap unlinked = {}
      BY <1>7, <2>2, <3>1 DEF DiskPart, DiskInv
    <3>3. \A n \in sv : n \in DOMAIN tables /\ n \in DOMAIN tables' /\ tables'[n] = tables[n]
      BY <1>2, <1>4, <3>1, <3>2 DEF EditsOK
    <3>4. Stored(sv)' = Stored(sv)
      BY <3>3, StoredSame
    <3>5. Kept = Stored(sv) \cup UNION {logs[n].recs : n \in {l \in DOMAIN logs : l >= se.log}}
      BY <3>1, <3>2 DEF Content, LogRecs, LogsFrom
    <3>6. Kept' = Stored(sv)' \cup UNION {logs'[n].recs : n \in {l \in DOMAIN logs' : l >= se.log}}
      BY <1>10, <2>2, <3>1 DEF Kept, Stored, LogsFrom
    <3>7. ASSUME NEW x \in Kept' PROVE x \in Kept
      <4>1. CASE x \in Stored(sv)'
        BY <3>4, <3>5, <4>1
      <4>2. CASE x \notin Stored(sv)'
        <5>1. PICK n \in DOMAIN logs : n >= se.log /\ x \in logs'[n].recs
          BY <1>3, <3>6, <3>7, <4>2
        <5>2. x \in logs[n].recs
          BY <1>3, <5>1 DEF DiskPart, LogsInv
        <5> QED
          BY <3>5, <5>1, <5>2
      <4> QED
        BY <4>1, <4>2
    <3>8. ASSUME NEW x \in synced PROVE x \in Kept'
      <4>1. CASE x \in Stored(sv)
        BY <3>4, <3>6, <4>1
      <4>2. CASE x \notin Stored(sv)
        <5>1. PICK n \in DOMAIN logs : n >= se.log /\ x \in logs[n].recs
          BY <1>11, <3>5, <3>8, <4>2
        <5>2. x \in logs'[n].recs
          BY <1>3, <3>8, <5>1 DEF DiskPart, LogsInv
        <5> QED
          BY <1>3, <3>6, <5>1, <5>2
      <4> QED
        BY <4>1, <4>2
    <3>9. EditsOK(CurrentEdits)'
      <4>1. PICK S : S = Stored(sv)
        OBVIOUS
      <4>2. Within(S, se.last)
        BY <3>1, <3>2, <4>1 DEF EditsOK
      <4>3. Stored(VersionOf(CurrentEdits))' = S
        BY <1>10, <3>1, <3>4, <4>1 DEF Stored
      <4>4. Within(Stored(VersionOf(CurrentEdits)), LastEdit(CurrentEdits).last)'
        BY <1>1, <1>10, <3>1, <4>2, <4>3 DEF Within
      <4> QED
        BY <1>1, <1>10, <3>1, <3>2, <3>3, <4>4 DEF EditsOK
    <3> QED
      BY <1>1, <3>7, <3>8, <3>9 DEF ProcessSafe
  <2> QED
    BY <2>1, <2>2
<1>15. SequencesOrdered'
  BY <1>1, <1>14 DEF DiskPart, SequencesOrdered
<1>16. DiskInv'
  <2>1. ASSUME fs # << >> PROVE (Content(SyncedEdits) = Kept)' /\ EditsOK(SyncedEdits)'
    <3>1. (Content(SyncedEdits) = Kept)'
      BY <1>10, <2>1 DEF Content, Kept, Stored, LogRecs, LogsFrom
    <3> QED
      BY <1>10, <1>14, <2>1, <3>1 DEF EditsOK, Within, Stored
  <2>2. fs # << >> => LastEdit(fs).next <= LastEdit(fs).next
    <3>1. fs # << >> => LastEdit(fs) \in Edit
      BY <1>8, VersionType
    <3> QED
      BY <3>1 DEF Edit
  <2>3. fs = << >> => acked' = {}
    BY <1>1, <1>7, <1>11 DEF DiskPart, DiskInv
  <2>4. k <= Len(fs)
    BY <1>8
  <2> QED
    BY <1>1, <1>5, <1>9, <1>10, <1>14, <2>1, <2>2, <2>3, <2>4 DEF DiskInv
<1>17. CommittedStep
  <2>1. ASSUME NEW n \in VersionOf(fs), n \in DOMAIN tables PROVE n \in DOMAIN tables' /\ tables'[n] = tables[n]
    <3>1. fs # << >>
      BY <1>7, <2>1, DiskTypes DEF DiskPart
    <3>2. n \notin lost
      BY <1>2, <1>7, <2>1, <3>1 DEF DiskPart, DiskInv
    <3> QED
      BY <1>4, <2>1, <3>2
  <2> QED
    BY <1>10, <2>1 DEF CommittedStep
<1> QED
  BY <1>1, <1>6, <1>12, <1>13, <1>14, <1>15, <1>16, <1>17, WhileDown DEF DiskPart, ProcessSafe

-----------------------------------------------------------------------------
(* DB::Open                                                                *)

LEMMA NamedTables ==
  ASSUME TypeOK, DiskPart
  PROVE  VersionOf(CurrentEdits) \cup VersionOf(SyncedEdits) \subseteq DOMAIN tables
<1>1. VersionOf(CurrentEdits) \subseteq DOMAIN tables
  <2>1. CASE CurrentEdits = << >>
    BY <2>1, DiskTypes DEF DiskPart
  <2>2. CASE CurrentEdits # << >>
    BY <2>2 DEF DiskPart, DiskInv, EditsOK
  <2> QED
    BY <2>1, <2>2
<1>2. VersionOf(SyncedEdits) \subseteq DOMAIN tables
  <2>1. CASE SyncedEdits = << >>
    BY <2>1, DiskTypes DEF DiskPart
  <2>2. CASE SyncedEdits # << >>
    BY <2>2 DEF DiskPart, DiskInv, EditsOK
  <2> QED
    BY <2>1, <2>2
<1> QED
  BY <1>1, <1>2

\* The manifest of a database being opened, and the number of the next one.
LEMMA RecoverEdits ==
  ASSUME TypeOK, DiskPart, OpeningPart, up \in {"logs", "manifest", "sync", "current"}
  PROVE  /\ CurrentEdits # << >> /\ current # 0 /\ current \in DOMAIN manifests
         /\ LastEdit(CurrentEdits) \in Edit /\ EditsOK(CurrentEdits)
         /\ m.manifest = LastEdit(CurrentEdits).next /\ m.manifest < m.nextfile /\ current < m.manifest
         /\ m.lognumber < m.manifest /\ m.manifest # current
         /\ \A n \in VersionOf(CurrentEdits) \cup VersionOf(SyncedEdits) : n < m.nextfile
         /\ m.version = VersionOf(CurrentEdits) /\ m.version \subseteq DOMAIN tables
         /\ \A n \in m.version : n < m.manifest
<1>1. /\ CurrentEdits # << >> /\ m.version = VersionOf(CurrentEdits) /\ m.lognumber = LastEdit(CurrentEdits).log
      /\ m.manifest = LastEdit(CurrentEdits).next /\ m.manifest < m.nextfile
  BY DEF OpeningPart, RecoverInv
<1>2. /\ current # 0 /\ current \in DOMAIN manifests /\ LastEdit(CurrentEdits) \in Edit /\ EditsOK(CurrentEdits)
      /\ VersionOf(CurrentEdits) \subseteq Nat /\ VersionOf(SyncedEdits) \subseteq Nat
  BY <1>1, DiskTypes DEF DiskPart, DiskInv
<1>3. /\ m.manifest \in Nat /\ m.nextfile \in Nat /\ m.lognumber \in Nat /\ current \in Nat
  BY MemoryTypes DEF TypeOK
<1>4. /\ current < m.manifest /\ m.lognumber < m.manifest /\ \A n \in VersionOf(CurrentEdits) : n < m.manifest
  BY <1>1, <1>2 DEF EditsOK
<1>5. \A n \in VersionOf(SyncedEdits) : n < m.nextfile
  <2>1. CASE SyncedEdits = << >>
    BY <2>1, DiskTypes DEF DiskPart
  <2>2. CASE SyncedEdits # << >>
    <3>1. /\ EditsOK(SyncedEdits) /\ LastEdit(SyncedEdits).next <= LastEdit(CurrentEdits).next
          /\ LastEdit(SyncedEdits).next \in Nat
      BY <2>2, DiskTypes DEF DiskPart, DiskInv, Edit
    <3> QED
      BY <1>1, <1>2, <1>3, <3>1 DEF EditsOK
  <2> QED
    BY <2>1, <2>2
<1>6. \A n \in VersionOf(CurrentEdits) : n < m.nextfile
  BY <1>1, <1>2, <1>3, <1>4
<1>7. m.version \subseteq DOMAIN tables
  BY <1>1, NamedTables
<1> QED
  BY <1>1, <1>2, <1>3, <1>4, <1>5, <1>6, <1>7

LEMMA NewDBStep ==
  ASSUME TypeOK, StoreInv, NewDB
  PROVE  TypeOK' /\ StoreInv' /\ SameStore
<1> USE DEF StoreInv
<1>1. PICK e : e = [NoEdit EXCEPT !.next = 2]
  OBVIOUS
<1>2. /\ up = "down" /\ current = 0 /\ current' = 1 /\ up' = "new"
      /\ manifests' = Put(manifests, 1, [edits |-> <<e>>, synced |-> 0])
      /\ UNCHANGED <<logs, tables, unlinked, m, todo, bgpc, compaction, edit, seq, acked, synced, crashes, faults>>
  BY <1>1 DEF NewDB, bg, hist
<1>3. e \in Edit /\ e.add = {} /\ e.del = {} /\ e.log = 0 /\ e.next = 2 /\ e.last = 0
  BY <1>1 DEF NoEdit, Edit
<1>4. PICK es : es = <<e>>
  OBVIOUS
<1>5. /\ VersionOf(es) = {} /\ LastEdit(es) = e /\ es # << >> /\ Len(es) = 1 /\ es \in Seq(Edit)
      /\ SubSeq(es, 1, 0) = << >>
  BY <1>3, <1>4, VersionOne
<1>6. PICK f : f = [edits |-> es, synced |-> 0] /\ f \in Manifest /\ f.edits = es /\ f.synced = 0
  <2>1. PICK f : f = [edits |-> es, synced |-> 0]
    OBVIOUS
  <2>2. f \in [edits : Seq(Edit), synced : Nat] /\ f.edits = es /\ f.synced = 0
    BY <1>5, <2>1
  <2>3. f \in Manifest
    BY <1>5, <2>2 DEF Manifest
  <2> QED
    BY <2>1, <2>2, <2>3
<1>7. /\ DOMAIN logs = {} /\ acked = {} /\ Kept = {} /\ todo = {} /\ edit = NoEdit /\ bgpc = "idle"
      /\ compaction = NoCompaction
  <2>1. SyncedEdits = << >> /\ CurrentEdits = << >>
    BY <1>2, DiskTypes DEF DiskPart
  <2> QED
    BY <1>2, <2>1 DEF DiskPart, DiskInv, Kept, OpeningPart, ClosedInv, Quiet
<1>8. manifests' = Put(manifests, 1, f) /\ manifests'[1] = f /\ 1 \in DOMAIN manifests'
  BY <1>2, <1>4, <1>6 DEF Put
<1>9. TypeOK'
  <2>1. manifests' \in [DOMAIN manifests' -> Manifest] /\ DOMAIN manifests' \subseteq Nat
    <3>1. manifests' = [x \in DOMAIN manifests \cup {1} |-> IF x = 1 THEN f ELSE manifests[x]]
      BY <1>8 DEF Put
    <3> QED
      BY <1>6, <3>1 DEF TypeOK
  <2> QED
    BY <1>2, <2>1 DEF TypeOK
<1>10. CurrentEdits' = es /\ SyncedEdits' = << >>
  BY <1>2, <1>5, <1>6, <1>8 DEF CurrentEdits, SyncedEdits
<1>11. Kept' = {}
  BY <1>2, <1>3, <1>5, <1>7, <1>10 DEF Kept, Stored, LogsFrom
<1>12. EditsOK(CurrentEdits)'
  <2>1. Stored(VersionOf(CurrentEdits))' = {}
    BY <1>5, <1>10 DEF Stored
  <2>2. \A x \in Writes : 0 < x
    BY ConstantsAssumption DEF Writes
  <2>3. Within(Stored(VersionOf(CurrentEdits)), LastEdit(CurrentEdits).last)'
    BY <1>3, <1>5, <1>10, <2>1, <2>2 DEF Within
  <2> QED
    BY <1>2, <1>3, <1>5, <1>10, <2>3 DEF EditsOK
<1>13. DiskInv'
  BY <1>2, <1>5, <1>6, <1>7, <1>8, <1>10, <1>12 DEF DiskPart, DiskInv
<1>14. NumbersInv' /\ LogsInv' /\ ProcessSafe' /\ SequencesOrdered'
  BY <1>2, <1>7, <1>11 DEF DiskPart, NumbersInv, LogsInv, ProcessSafe, SequencesOrdered
<1> QED
  BY <1>2, <1>7, <1>9, <1>11, <1>13, <1>14, WhileDown DEF DiskPart, SameStore, CommittedStep

LEMMA RecoverManifestStep ==
  ASSUME TypeOK, StoreInv, RecoverManifest
  PROVE  TypeOK' /\ StoreInv' /\ SameStore
<1> USE DEF StoreInv
<1>1. /\ up \in {"down", "new"} /\ current # 0
      /\ UNCHANGED <<logs, tables, unlinked, manifests, current, bgpc, compaction, edit, seq, acked, synced, crashes, faults>>
  BY DEF RecoverManifest, disk, bg, hist
<1>2. /\ CurrentEdits = manifests[current].edits /\ current \in DOMAIN manifests /\ CurrentEdits \in Seq(Edit)
  BY <1>1, DiskTypes DEF DiskPart, DiskInv
<1>3. bgpc = "idle" /\ compaction = NoCompaction /\ edit = NoEdit /\ todo = {}
  BY <1>1 DEF OpeningPart, ClosedInv, Quiet
<1>4. TypeOK' => DiskPart' /\ SameStore /\ Kept' = Kept /\ CurrentEdits' = CurrentEdits
  <2>1. FilesKept
    BY <1>1, <1>2, NamedTables DEF FilesKept, DiskPart, DiskInv, NumbersInv
  <2> QED
    BY <2>1, FilesKeptStep
<1>5. CASE CurrentEdits = << >>
  <2>1. up' = "corrupt" /\ UNCHANGED <<m, todo>>
    BY <1>2, <1>5 DEF RecoverManifest
  <2>2. TypeOK'
    BY <1>1, <2>1 DEF TypeOK
  <2> QED
    BY <1>1, <1>3, <1>4, <1>5, <2>1, <2>2, WhileDown
<1>6. CASE CurrentEdits # << >>
  <2>1. PICK es, e, v : es = CurrentEdits /\ e = LastEdit(es) /\ v = VersionOf(es)
    OBVIOUS
  <2>2. /\ up' = "logs" /\ todo' = LogsFrom(e.log)
        /\ m' = [NoMemory EXCEPT !.version = v, !.lognumber = e.log, !.manifest = e.next,
                                 !.nextfile = e.next + 1, !.lastseq = e.last]
    BY <1>2, <1>6, <2>1 DEF RecoverManifest
  <2>3. /\ e \in Edit /\ e.log \in Nat /\ e.next \in Nat /\ e.last \in Nat /\ v \in SUBSET Nat /\ e.next + 1 \in Nat
        /\ NoMemory \in Memory
    <3>1. e \in Edit /\ v \in SUBSET Nat
      BY <1>6, <2>1, DiskTypes DEF DiskPart
    <3> QED
      BY <3>1, MemoryTypes DEF Edit
  <2>4. /\ m'.version = v /\ m'.lognumber = e.log /\ m'.manifest = e.next /\ m'.nextfile = e.next + 1
        /\ m'.lastseq = e.last /\ m'.mem = {} /\ m'.imm = {} /\ ~m'.hasimm /\ m'.pending = {}
    BY <2>2 DEF NoMemory
  <2>5. TypeOK'
    <3>1. m' \in Memory
      <4>1. PICK i, j, k, l : i = e.log /\ j = e.next /\ k = e.next + 1 /\ l = e.last
        OBVIOUS
      <4>2. [NoMemory EXCEPT !.version = v, !.lognumber = i, !.manifest = j, !.nextfile = k, !.lastseq = l] \in Memory
        BY <2>3, <4>1, MemoryUpdates, ZenonT(40)
      <4> QED
        BY <2>2, <4>1, <4>2
    <3>2. todo' \subseteq Nat
      BY <2>2 DEF LogsFrom, TypeOK
    <3> QED
      BY <1>1, <2>2, <3>1, <3>2 DEF TypeOK
  <2>6. DiskPart' /\ SameStore /\ Kept' = Kept /\ CurrentEdits' = CurrentEdits
    BY <1>4, <2>5
  <2>7. RecoverInv'
    <3>1. Within(Stored(v), e.last)
      BY <1>6, <2>1 DEF DiskPart, DiskInv, EditsOK
    <3>2. Within(Stored(m.version), m.lastseq)'
      <4>1. Stored(m.version)' = Stored(v)
        BY <1>1, <2>4 DEF Stored
      <4> QED
        BY <1>1, <2>4, <3>1, <4>1 DEF Within
    <3>3. m'.manifest < m'.nextfile
      BY <2>3, <2>4
    <3> QED
      BY <1>1, <1>3, <1>6, <2>1, <2>4, <2>6, <3>2, <3>3 DEF RecoverInv, EmptyMemory, NoEdit
  <2>8. ReplayInv'
    <3>1. todo' = LogsFrom(m.lognumber)'
      BY <1>1, <2>2, <2>4 DEF LogsFrom
    <3>2. Stored(edit.add)' = {}
      BY <1>1, <1>3 DEF Stored, NoEdit
    <3>3. RecsOf(LogsFrom(m.lognumber) \ todo)' = {}
      BY <3>1 DEF RecsOf
    <3> QED
      BY <3>1, <3>2, <3>3 DEF ReplayInv
  <2>9. ClosedInv' /\ SnapshotInv'
    BY <1>1, <1>3, <2>2 DEF ClosedInv, SnapshotInv, Quiet
  <2> QED
    BY <2>2, <2>5, <2>6, <2>7, <2>8, <2>9, WhileClosed DEF OpeningPart
<1> QED
  BY <1>5, <1>6

\* The number recovered for lastsequence is one that was given out, and no later one was.
LEMMA SequenceRecovered ==
  ASSUME TypeOK, DiskPart, NEW last \in Nat, NEW recs \in SUBSET Writes, \A x \in recs : seq[x] # 0,
         \A x \in Writes : seq[x] = 0 => last < x
  PROVE  /\ MaxSequence(last, recs) \in Nat /\ last <= MaxSequence(last, recs)
         /\ \A x \in recs : seq[x] <= MaxSequence(last, recs)
         /\ \A x \in Writes : seq[x] = 0 => MaxSequence(last, recs) < x
<1>1. PICK S : S = {last} \cup {seq[x] : x \in recs}
  OBVIOUS
<1>2. \A x \in Writes : x \in Nat /\ x <= MaxWrites /\ seq[x] \in Nat /\ seq[x] <= x
  BY ConstantsAssumption DEF Writes, TypeOK, DiskPart, NumbersInv
<1>3. S \in SUBSET Nat /\ S # {} /\ last + MaxWrites \in Nat
  BY <1>1, <1>2, ConstantsAssumption
<1>4. \A y \in S : y <= last + MaxWrites
  <2> SUFFICES ASSUME NEW y \in S PROVE y <= last + MaxWrites
    OBVIOUS
  <2>1. CASE y = last
    BY <2>1, ConstantsAssumption
  <2>2. CASE y # last
    <3>1. PICK x \in recs : y = seq[x]
      BY <1>1, <2>2
    <3>2. y \in Nat /\ y <= x /\ x \in Nat /\ x <= MaxWrites
      BY <1>2, <3>1
    <3> QED
      BY <3>2, ConstantsAssumption
  <2> QED
    BY <2>1, <2>2
<1>5. PICK b \in Nat : b = last + MaxWrites
  BY <1>3
<1>6. PICK c : c = MaxOf(S) /\ c \in S /\ \A y \in S : y <= c
  BY <1>3, <1>4, <1>5, GreatestExists
<1>7. c = MaxSequence(last, recs) /\ c \in Nat
  BY <1>1, <1>3, <1>6 DEF MaxSequence
<1>8. last <= c /\ \A x \in recs : seq[x] <= c
  BY <1>1, <1>6
<1>9. ASSUME NEW x \in Writes, seq[x] = 0 PROVE c < x
  <2>1. CASE c = last
    BY <1>9, <2>1
  <2>2. CASE c # last
    <3>1. PICK y \in recs : c = seq[y]
      BY <1>1, <1>6, <2>2
    <3>2. y \in Writes /\ seq[y] # 0 /\ x # y
      BY <1>9
    <3>3. ~(x < y)
      BY <1>9, <3>2 DEF DiskPart, NumbersInv
    <3> QED
      BY <1>2, <3>1, <3>2, <3>3
  <2> QED
    BY <2>1, <2>2
<1> QED
  BY <1>7, <1>8, <1>9

LEMMA RecsAdd ==
  ASSUME NEW A, NEW n
  PROVE  RecsOf(A \cup {n}) = RecsOf(A) \cup logs[n].recs
<1>1. ASSUME NEW x \in RecsOf(A \cup {n}) PROVE x \in RecsOf(A) \cup logs[n].recs
  BY <1>1 DEF RecsOf
<1>2. ASSUME NEW x \in RecsOf(A) PROVE x \in RecsOf(A \cup {n})
  BY <1>2 DEF RecsOf
<1>3. ASSUME NEW x \in logs[n].recs PROVE x \in RecsOf(A \cup {n})
  BY <1>3 DEF RecsOf
<1> QED
  BY <1>1, <1>2, <1>3

LEMMA RecoverLogFileStep ==
  ASSUME TypeOK, StoreInv, SoundFaults, RecoverLogFile
  PROVE  TypeOK' /\ StoreInv' /\ SameStore
<1> USE DEF StoreInv
<1>1. PICK n, recs, nf, used, last :
        /\ n = MinOf(todo) /\ recs = logs[n].recs /\ nf = m.nextfile
        /\ used = IF recs = {} THEN m.nextfile ELSE m.nextfile + 1
        /\ last = MaxSequence(m.lastseq, recs)
  OBVIOUS
<1>2. /\ up = "logs" /\ up' = "logs" /\ todo # {} /\ todo' = todo \ {n}
      /\ m' = [m EXCEPT !.nextfile = MarkFileNumberUsed(used, n), !.lastseq = last]
      /\ UNCHANGED <<logs, manifests, current, bgpc, compaction, seq, acked, synced, crashes, faults>>
      /\ recs = {} => UNCHANGED <<tables, unlinked, edit>>
      /\ recs # {} => NewTable(nf, recs) /\ edit' = [edit EXCEPT !.add = edit.add \cup {nf}]
  BY <1>1 DEF RecoverLogFile, Fails, Succeeds, SoundFaults, hist
<1>3. /\ EmptyMemory /\ m.version = VersionOf(CurrentEdits) /\ m.lognumber = LastEdit(CurrentEdits).log
      /\ m.manifest = LastEdit(CurrentEdits).next /\ CurrentEdits # << >>
      /\ edit.del = {} /\ edit.add \subseteq DOMAIN tables /\ (\A k \in edit.add : m.manifest < k /\ k < nf)
      /\ Within(Stored(m.version), m.lastseq)
      /\ todo \subseteq LogsFrom(m.lognumber)
      /\ (\A k \in LogsFrom(m.lognumber) \ todo : k < nf /\ \A x \in logs[k].recs : seq[x] <= m.lastseq)
      /\ Stored(edit.add) = RecsOf(LogsFrom(m.lognumber) \ todo)
  BY <1>1, <1>2 DEF OpeningPart, RecoverInv, ReplayInv
<1>4. /\ current # 0 /\ m.manifest < nf /\ (\A k \in VersionOf(CurrentEdits) \cup VersionOf(SyncedEdits) : k < nf)
      /\ m.version \subseteq DOMAIN tables /\ (\A k \in m.version : k < m.manifest) /\ current \in DOMAIN manifests
  BY <1>1, <1>2, RecoverEdits
<1>5. /\ n \in todo /\ n \in DOMAIN logs /\ n \in Nat /\ recs \in SUBSET Writes /\ \A x \in recs : seq[x] # 0
  <2>1. n \in todo
    BY <1>1, <1>2, LeastExists DEF TypeOK
  <2>2. n \in DOMAIN logs
    BY <1>3, <2>1 DEF LogsFrom
  <2> QED
    BY <1>1, <2>1, <2>2 DEF TypeOK, LogFile, DiskPart, NumbersInv
<1>6. /\ m \in Memory /\ m.lastseq \in Nat /\ nf \in Nat /\ m.manifest \in Nat /\ edit \in Edit /\ edit.add \in SUBSET Nat
      /\ m.version \in SUBSET Nat /\ m.lognumber \in Nat
  BY <1>1, MemoryTypes
<1>7. PICK next : next = MarkFileNumberUsed(used, n)
  OBVIOUS
<1>8. next \in Nat /\ nf <= next /\ n < next /\ (recs # {} => nf < next)
  BY <1>1, <1>5, <1>6, <1>7 DEF MarkFileNumberUsed
<1>9. /\ last \in Nat /\ m.lastseq <= last /\ (\A x \in recs : seq[x] <= last)
      /\ \A x \in Writes : seq[x] = 0 => last < x
  <2>1. \A x \in Writes : seq[x] = 0 => m.lastseq < x
    BY <1>3 DEF Within
  <2> QED
    BY <1>1, <1>5, <1>6, <2>1, SequenceRecovered
<1>10. m' = [m EXCEPT !.nextfile = next, !.lastseq = last] /\ m' \in Memory
  <2>1. [m EXCEPT !.nextfile = next, !.lastseq = last] \in Memory
    BY <1>6, <1>8, <1>9, MemoryUpdates
  <2> QED
    BY <1>2, <1>7, <2>1
<1>11. /\ m'.version = m.version /\ m'.lognumber = m.lognumber /\ m'.manifest = m.manifest /\ m'.nextfile = next
       /\ m'.lastseq = last /\ m'.mem = m.mem /\ m'.imm = m.imm /\ m'.hasimm = m.hasimm /\ m'.pending = m.pending
  BY <1>6, <1>10 DEF Memory
<1>12. PICK v, l, add : v = m.version /\ l = m.lognumber /\ add = edit.add
  OBVIOUS
<1>13. /\ FilesKept
       /\ tables' \in [DOMAIN tables' -> SUBSET Writes] /\ DOMAIN tables' \subseteq Nat /\ unlinked' \subseteq Nat
       /\ Stored(v)' = Stored(v) /\ edit' \in Edit /\ edit'.del = {} /\ edit'.add \subseteq DOMAIN tables'
       /\ (\A k \in edit'.add : m.manifest < k /\ k < next)
       /\ Stored(edit.add)' = Stored(add) \cup recs
  <2>1. CASE recs = {}
    <3>1. UNCHANGED <<tables, unlinked, edit>>
      BY <1>2, <2>1
    <3>2. FilesKept
      BY <1>2, <1>4, <3>1, NamedTables DEF FilesKept, DiskPart, DiskInv, NumbersInv
    <3>3. Stored(v)' = Stored(v) /\ Stored(edit.add)' = Stored(add) \cup recs
      BY <1>12, <2>1, <3>1 DEF Stored
    <3>4. \A k \in edit'.add : m.manifest < k /\ k < next
      BY <1>3, <1>6, <1>8, <3>1
    <3> QED
      BY <1>3, <3>1, <3>2, <3>3, <3>4 DEF TypeOK
  <2>2. CASE recs # {}
    <3>1. NewTable(nf, recs) /\ edit' = [edit EXCEPT !.add = edit.add \cup {nf}]
      BY <1>2, <2>2
    <3>2. /\ FilesKept
          /\ tables' \in [DOMAIN tables' -> SUBSET Writes] /\ DOMAIN tables' \subseteq Nat /\ unlinked' \subseteq Nat
          /\ DOMAIN tables' = DOMAIN tables \cup {nf} /\ tables'[nf] = recs
          /\ (\A S : nf \notin S => Stored(S)' = Stored(S))
          /\ Stored({nf})' = recs
      BY <1>2, <1>4, <1>5, <1>6, <3>1, NewTableStep
    <3>3. edit'.add = add \cup {nf} /\ edit'.del = {} /\ edit' \in Edit
      <4>1. PICK ns \in SUBSET Nat : ns = add \cup {nf}
        BY <1>6, <1>12
      <4>2. edit' = [edit EXCEPT !.add = ns]
        BY <1>12, <3>1, <4>1
      <4> QED
        BY <1>3, <1>6, <4>1, <4>2 DEF Edit
    <3>4. nf \notin v /\ nf \notin add
      BY <1>3, <1>4, <1>6, <1>12
    <3>5. Stored(v)' = Stored(v) /\ Stored(add)' = Stored(add)
      BY <3>2, <3>4
    <3>6. Stored(edit.add)' = Stored(add)' \cup Stored({nf})'
      BY <3>3 DEF Stored
    <3>7. \A k \in edit'.add : m.manifest < k /\ k < next
      BY <1>3, <1>4, <1>6, <1>8, <1>12, <2>2, <3>3
    <3> QED
      BY <1>3, <1>12, <3>2, <3>3, <3>5, <3>6, <3>7
  <2> QED
    BY <2>1, <2>2
<1>14. TypeOK'
  BY <1>2, <1>10, <1>13 DEF TypeOK
<1>15. DiskPart' /\ SameStore /\ Kept' = Kept /\ CurrentEdits' = CurrentEdits
  BY <1>13, <1>14, FilesKeptStep
<1>16. RecoverInv'
  <2>1. Within(Stored(m.version), m.lastseq)'
    <3>1. Stored(m.version)' = Stored(v)
      BY <1>11, <1>12, <1>13 DEF Stored
    <3>2. \A x \in Stored(v) : seq[x] <= last
      <4> SUFFICES ASSUME NEW x \in Stored(v) PROVE seq[x] <= last
        OBVIOUS
      <4>1. seq[x] <= m.lastseq /\ seq[x] \in Nat
        BY <1>3, <1>12, KeptWritten DEF Within, TypeOK
      <4> QED
        BY <1>6, <1>9, <4>1
    <3> QED
      BY <1>2, <1>9, <1>11, <3>1, <3>2 DEF Within
  <2>2. m.manifest < next
    BY <1>4, <1>6, <1>8
  <2> QED
    BY <1>3, <1>11, <1>13, <1>15, <2>1, <2>2 DEF RecoverInv, EmptyMemory
<1>17. ReplayInv'
  <2>1. LogsFrom(m.lognumber)' = LogsFrom(l)
    BY <1>2, <1>11, <1>12 DEF LogsFrom
  <2>2. LogsFrom(l) \ todo' = (LogsFrom(l) \ todo) \cup {n}
    BY <1>2, <1>3, <1>5, <1>12
  <2>3. ASSUME NEW k \in LogsFrom(l) \ todo' PROVE k < next /\ \A x \in logs[k].recs : seq[x] <= last
    <3>1. CASE k = n
      BY <1>1, <1>8, <1>9, <3>1
    <3>2. CASE k # n
      <4>1. k \in LogsFrom(l) \ todo /\ k \in Nat /\ k \in DOMAIN logs
        BY <2>2, <2>3, <3>2 DEF LogsFrom, TypeOK
      <4>2. ASSUME NEW x \in logs[k].recs PROVE seq[x] <= last
        <5>1. seq[x] <= m.lastseq /\ seq[x] \in Nat
          <6>1. x \in Writes
            BY <4>1, <4>2 DEF TypeOK, LogFile
          <6> QED
            BY <1>3, <1>12, <4>1, <4>2, <6>1 DEF TypeOK
        <5> QED
          BY <1>6, <1>9, <5>1
      <4>3. k < nf
        BY <1>3, <1>12, <4>1
      <4> QED
        BY <1>6, <1>8, <4>1, <4>2, <4>3
    <3> QED
      BY <3>1, <3>2
  <2>4. (Stored(edit.add) = RecsOf(LogsFrom(m.lognumber) \ todo))'
    <3>1. PICK A, B : A = LogsFrom(l) \ todo /\ B = LogsFrom(l) \ todo' /\ B = A \cup {n}
      BY <2>2
    <3>2. Stored(edit.add)' = RecsOf(A) \cup logs[n].recs
      BY <1>1, <1>3, <1>12, <1>13, <3>1
    <3>3. RecsOf(B)' = RecsOf(B)
      BY <1>2 DEF RecsOf
    <3>4. RecsOf(LogsFrom(m.lognumber) \ todo)' = RecsOf(B)'
      BY <2>1, <3>1 DEF RecsOf
    <3> QED
      BY <3>1, <3>2, <3>3, <3>4, RecsAdd
  <2>5. todo' \subseteq LogsFrom(l)
    BY <1>2, <1>3, <1>12
  <2> QED
    BY <1>2, <1>11, <2>1, <2>3, <2>4, <2>5 DEF ReplayInv
<1>18. ClosedInv' /\ SnapshotInv'
  BY <1>2 DEF OpeningPart, ClosedInv, SnapshotInv, Quiet
<1> QED
  BY <1>2, <1>14, <1>15, <1>16, <1>17, <1>18, WhileClosed DEF OpeningPart

LEMMA NewLogStep ==
  ASSUME TypeOK, StoreInv, NewLog
  PROVE  TypeOK' /\ StoreInv' /\ SameStore
<1> USE DEF StoreInv
<1>1. PICK nf : nf = m.nextfile
  OBVIOUS
<1>2. /\ up = "logs" /\ up' = "manifest" /\ todo = {} /\ m' = [m EXCEPT !.logfile = nf, !.nextfile = nf + 1]
      /\ logs' = Put(logs, nf, [recs |-> {}, synced |-> {}]) /\ edit' = Complete(edit, nf, m')
      /\ UNCHANGED <<tables, unlinked, manifests, current, todo, bgpc, compaction, seq, acked, synced, crashes, faults>>
  BY <1>1 DEF NewLog, hist
<1>3. /\ EmptyMemory /\ m.version = VersionOf(CurrentEdits) /\ m.lognumber = LastEdit(CurrentEdits).log
      /\ m.manifest = LastEdit(CurrentEdits).next /\ CurrentEdits # << >>
      /\ edit.del = {} /\ edit.add \subseteq DOMAIN tables /\ (\A k \in edit.add : m.manifest < k /\ k < nf)
      /\ Within(Stored(m.version), m.lastseq)
      /\ (\A k \in LogsFrom(m.lognumber) : k < nf /\ \A x \in logs[k].recs : seq[x] <= m.lastseq)
      /\ Stored(edit.add) = LogRecs(m.lognumber)
  <2>1. LogsFrom(m.lognumber) \ todo = LogsFrom(m.lognumber)
    BY <1>2
  <2>2. RecsOf(LogsFrom(m.lognumber)) = LogRecs(m.lognumber)
    BY DEF RecsOf, LogRecs
  <2> QED
    BY <1>1, <1>2, <2>1, <2>2 DEF OpeningPart, RecoverInv, ReplayInv
<1>4. /\ current # 0 /\ m.manifest < nf /\ m.lognumber < m.manifest
      /\ m.version \subseteq DOMAIN tables /\ (\A k \in m.version : k < m.manifest) /\ current \in DOMAIN manifests
  BY <1>1, <1>2, RecoverEdits
<1>5. /\ m \in Memory /\ m.lastseq \in Nat /\ nf \in Nat /\ nf + 1 \in Nat /\ m.manifest \in Nat /\ edit \in Edit
      /\ edit.add \in SUBSET Nat /\ m.version \in SUBSET Nat /\ m.lognumber \in Nat
  BY <1>1, MemoryTypes
<1>6. m' \in Memory
  <2>1. PICK i \in Nat : i = nf + 1
    BY <1>5
  <2>2. [m EXCEPT !.logfile = nf, !.nextfile = i] \in Memory
    BY <1>5, MemoryUpdates
  <2> QED
    BY <1>2, <2>1, <2>2
<1>7. /\ m'.version = m.version /\ m'.lognumber = m.lognumber /\ m'.manifest = m.manifest /\ m'.nextfile = nf + 1
      /\ m'.logfile = nf /\ m'.lastseq = m.lastseq
      /\ m'.mem = m.mem /\ m'.imm = m.imm /\ m'.hasimm = m.hasimm /\ m'.pending = m.pending
  BY <1>2, <1>5 DEF Memory
<1>8. /\ edit'.add = edit.add /\ edit'.del = {} /\ edit'.log = nf /\ edit'.next = nf + 1 /\ edit'.last = m.lastseq
      /\ edit' \in Edit
  <2>1. PICK i, j : i = nf + 1 /\ j = m.lastseq /\ i \in Nat /\ j \in Nat
    BY <1>5
  <2>2. edit' = [edit EXCEPT !.log = nf, !.next = i, !.last = j]
    BY <1>2, <1>7, <2>1 DEF Complete
  <2>3. edit' \in Edit
    BY <1>5, <2>1, <2>2, Zenon DEF Edit
  <2> QED
    BY <1>3, <1>5, <2>1, <2>2, <2>3 DEF Edit
<1>9. \A n \in DOMAIN logs : n < nf /\ n \in Nat
  <2> SUFFICES ASSUME NEW n \in DOMAIN logs PROVE n < nf /\ n \in Nat
    OBVIOUS
  <2>1. n \in Nat
    BY DEF TypeOK
  <2>2. CASE n >= m.lognumber
    BY <1>3, <2>1, <2>2 DEF LogsFrom
  <2>3. CASE ~(n >= m.lognumber)
    BY <1>4, <1>5, <2>1, <2>3
  <2> QED
    BY <2>1, <2>2, <2>3
<1>10. /\ DOMAIN logs' = DOMAIN logs \cup {nf} /\ logs'[nf] = [recs |-> {}, synced |-> {}]
       /\ (\A n \in DOMAIN logs : logs'[n] = logs[n]) /\ nf \notin DOMAIN logs
  <2>1. nf \notin DOMAIN logs
    BY <1>5, <1>9
  <2> QED
    BY <1>2, <2>1 DEF Put
<1>11. TypeOK'
  <2>1. logs' \in [DOMAIN logs' -> LogFile] /\ DOMAIN logs' \subseteq Nat
    <3>1. [recs |-> {}, synced |-> {}] \in LogFile
      BY DEF LogFile
    <3> QED
      BY <1>2, <1>5, <3>1, FilesTyped DEF TypeOK
  <2> QED
    BY <1>2, <1>6, <1>8, <2>1 DEF TypeOK
<1>12. FilesKept
  <2>1. \A n \in DOMAIN logs' : \/ n \in DOMAIN logs /\ logs'[n] = logs[n]
                                \/ n \notin DOMAIN logs /\ logs'[n].recs = {} /\ logs'[n].synced = {}
    BY <1>10
  <2> QED
    BY <1>2, <1>4, <1>10, <2>1, NamedTables DEF FilesKept, DiskPart, DiskInv, NumbersInv
<1>13. DiskPart' /\ SameStore /\ Kept' = Kept /\ CurrentEdits' = CurrentEdits
  BY <1>11, <1>12, FilesKeptStep
<1>14. \A S : Stored(S)' = Stored(S)
  BY <1>2 DEF Stored
<1>15. RecoverInv'
  <2>1. Within(Stored(m.version), m.lastseq)'
    BY <1>2, <1>3, <1>7 DEF Within, Stored
  <2>2. \A k \in edit.add : k < nf + 1
    BY <1>3, <1>5
  <2>3. m.manifest < nf + 1
    BY <1>4, <1>5
  <2> QED
    BY <1>2, <1>3, <1>7, <1>8, <1>13, <2>1, <2>2, <2>3 DEF RecoverInv, EmptyMemory
<1>16. Stored(edit.add \cup m.version) = Kept
  <2>1. Kept = Stored(m.version) \cup LogRecs(m.lognumber)
    BY <1>3, KeptIs DEF Content
  <2> QED
    BY <1>3, <2>1, StoredUnion
<1>17. Within(Kept, m.lastseq)
  <2>1. ASSUME NEW x \in Kept PROVE seq[x] <= m.lastseq
    <3>1. CASE x \in Stored(m.version)
      BY <1>3, <3>1 DEF Within
    <3>2. CASE x \notin Stored(m.version)
      <4>1. PICK k \in LogsFrom(m.lognumber) : x \in logs[k].recs
        <5>1. x \in LogRecs(m.lognumber)
          BY <1>3, <2>1, <3>2, KeptIs DEF Content
        <5> QED
          BY <5>1 DEF LogRecs
      <4> QED
        BY <1>3, <4>1
    <3> QED
      BY <3>1, <3>2
  <2> QED
    BY <1>3, <2>1 DEF Within
<1>18. SnapshotInv'
  <2>1. /\ m'.logfile \in DOMAIN logs' /\ logs'[m'.logfile].recs = {} /\ m'.logfile < m'.nextfile /\ m'.manifest < m'.nextfile
        /\ \A n \in DOMAIN logs' : n <= m'.logfile
    BY <1>4, <1>5, <1>7, <1>9, <1>10
  <2>2. \A n \in edit.add \cup m.version : n < nf + 1
    BY <1>3, <1>4, <1>5
  <2>3. PICK S : S = edit.add \cup m.version
    OBVIOUS
  <2>4. Stored(edit.add \cup m.version)' = Kept'
    <3>1. Stored(S)' = Kept'
      BY <1>13, <1>14, <1>16, <2>3
    <3> QED
      BY <1>7, <1>8, <2>3, <3>1 DEF Stored
  <2>5. Within(Kept, m.lastseq)'
    BY <1>2, <1>7, <1>13, <1>17 DEF Within
  <2> QED
    BY <1>2, <1>3, <1>4, <1>7, <1>8, <2>1, <2>2, <2>4, <2>5 DEF SnapshotInv, EmptyMemory
<1>19. ClosedInv' /\ ReplayInv'
  BY <1>2 DEF OpeningPart, ClosedInv, ReplayInv, Quiet
<1> QED
  BY <1>2, <1>11, <1>13, <1>15, <1>18, <1>19, WhileClosed DEF OpeningPart

\* DB::Open returns an error and leaves the files as it found them, but for the new manifest.
LEMMA OpenFailsStep ==
  ASSUME TypeOK, StoreInv, up \in {"manifest", "sync", "current"}, OpenFails, faults' = faults + 1,
         UNCHANGED <<logs, tables, unlinked, current, todo, bgpc, compaction, seq, acked, synced, crashes>>
  PROVE  TypeOK' /\ StoreInv' /\ SameStore
<1> USE DEF StoreInv
<1>1. /\ manifests' = Keep(manifests, DOMAIN manifests \ {m.manifest}) /\ up' = "down" /\ m' = NoMemory /\ edit' = NoEdit
  BY DEF OpenFails
<1>2. current # 0 /\ current \in DOMAIN manifests /\ m.manifest # current
  BY RecoverEdits
<1>3. manifests' = [n \in DOMAIN manifests \cap (DOMAIN manifests \ {m.manifest}) |-> manifests[n]]
  BY <1>1 DEF Keep
<1>4. TypeOK'
  <2>1. manifests' \in [DOMAIN manifests' -> Manifest] /\ DOMAIN manifests' \subseteq Nat
    BY <1>3 DEF TypeOK
  <2>2. m' \in Memory /\ edit' \in Edit
    BY <1>1, MemoryTypes
  <2>3. faults' \in Nat
    BY DEF TypeOK
  <2> QED
    BY <1>1, <2>1, <2>2, <2>3 DEF TypeOK
<1>5. FilesKept
  BY <1>2, <1>3, NamedTables DEF FilesKept, DiskPart, DiskInv, NumbersInv
<1>6. DiskPart' /\ SameStore /\ Kept' = Kept
  BY <1>4, <1>5, FilesKeptStep
<1>7. todo = {} /\ bgpc = "idle" /\ compaction = NoCompaction
  BY DEF OpeningPart, ClosedInv, Quiet
<1> QED
  BY <1>1, <1>4, <1>6, <1>7, WhileDown

\* What SnapshotInv says is kept while the files and the memory are.
LEMMA SnapshotSame ==
  ASSUME TypeOK, StoreInv, up \in {"manifest", "sync", "current"}, up' \in {"sync", "current"},
         UNCHANGED <<logs, tables, m, edit, seq>>, Kept' = Kept, CurrentEdits' = CurrentEdits,
         todo' = todo, UNCHANGED <<bgpc, compaction>>,
         m.manifest \in DOMAIN manifests', manifests'[m.manifest].edits = <<Snapshot>>,
         up' = "sync" => manifests'[m.manifest].synced = 0,
         up' = "current" => manifests'[m.manifest].synced = 1,
         up' = "current" /\ SafeEntries => unlinked' = {}
  PROVE  OpeningPart' /\ OpenPart'
<1> USE DEF StoreInv
<1>1. Snapshot' = Snapshot
  BY DEF Snapshot
<1>2. \A S : Stored(S)' = Stored(S)
  BY DEF Stored
<1>3. RecoverInv'
  BY DEF OpeningPart, RecoverInv, EmptyMemory, Within, Stored
<1>4. SnapshotInv'
  <2>1. Stored(edit.add \cup m.version)' = Stored(edit.add \cup m.version)
    BY DEF Stored
  <2>2. Within(Kept, m.lastseq)' <=> Within(Kept, m.lastseq)
    BY DEF Within
  <2> QED
    BY <1>1, <2>1, <2>2 DEF OpeningPart, SnapshotInv, EmptyMemory
<1>5. ClosedInv' /\ ReplayInv'
  BY DEF OpeningPart, ClosedInv, ReplayInv, Quiet
<1> QED
  BY <1>3, <1>4, <1>5, WhileClosed DEF OpeningPart

LEMMA SnapshotType ==
  ASSUME TypeOK
  PROVE  Snapshot \in Edit /\ Snapshot.add = edit.add \cup m.version /\ Snapshot.del = edit.del
         /\ Snapshot.log = edit.log /\ Snapshot.next = edit.next /\ Snapshot.last = edit.last
<1>1. PICK S \in SUBSET Nat : S = edit.add \cup m.version
  BY MemoryTypes
<1>2. Snapshot = [edit EXCEPT !.add = S] /\ edit \in Edit
  BY <1>1, MemoryTypes DEF Snapshot
<1>3. Snapshot \in Edit
  BY <1>2 DEF Edit
<1> QED
  BY <1>1, <1>2, <1>3 DEF Edit

LEMMA WriteSnapshotStep ==
  ASSUME TypeOK, StoreInv, WriteSnapshot
  PROVE  TypeOK' /\ StoreInv' /\ SameStore
<1> USE DEF StoreInv
<1>1. /\ up = "manifest"
      /\ UNCHANGED <<logs, tables, unlinked, current, todo, bgpc, compaction, seq, acked, synced, crashes>>
      /\ \/ /\ UNCHANGED <<faults, m, edit>> /\ up' = "sync"
            /\ manifests' = Put(manifests, m.manifest, [edits |-> <<Snapshot>>, synced |-> 0])
         \/ faults' = faults + 1 /\ OpenFails
  BY DEF WriteSnapshot, Fails, Succeeds, Snapshot, hist
<1>2. CASE faults' = faults + 1 /\ OpenFails
  BY <1>1, <1>2, OpenFailsStep
<1>3. CASE /\ UNCHANGED <<faults, m, edit>> /\ up' = "sync"
           /\ manifests' = Put(manifests, m.manifest, [edits |-> <<Snapshot>>, synced |-> 0])
  <2>1. PICK es, k : es = <<Snapshot>> /\ k = m.manifest
    OBVIOUS
  <2>2. es \in Seq(Edit) /\ Len(es) = 1 /\ k \in Nat
    <3>1. PICK e : e = Snapshot /\ e \in Edit
      BY SnapshotType
    <3> QED
      BY <2>1, <3>1, VersionOne, MemoryTypes
  <2>3. PICK f : f = [edits |-> es, synced |-> 0] /\ f \in Manifest /\ f.edits = es /\ f.synced = 0
    <3>1. PICK f : f = [edits |-> es, synced |-> 0]
      OBVIOUS
    <3>2. f \in [edits : Seq(Edit), synced : Nat] /\ f.edits = es /\ f.synced = 0
      BY <2>2, <3>1
    <3>3. f \in Manifest
      BY <2>2, <3>2 DEF Manifest
    <3> QED
      BY <3>1, <3>2, <3>3
  <2>4. manifests' = [x \in DOMAIN manifests \cup {k} |-> IF x = k THEN f ELSE manifests[x]]
    BY <1>3, <2>1, <2>3 DEF Put
  <2>5. TypeOK'
    <3>1. manifests' \in [DOMAIN manifests' -> Manifest] /\ DOMAIN manifests' \subseteq Nat
      BY <2>2, <2>3, <2>4 DEF TypeOK
    <3> QED
      BY <1>1, <1>3, <3>1 DEF TypeOK
  <2>6. current # 0 /\ current \in DOMAIN manifests /\ k # current
    BY <1>1, <2>1, RecoverEdits
  <2>7. FilesKept
    BY <1>1, <2>4, <2>6, NamedTables DEF FilesKept, DiskPart, DiskInv, NumbersInv
  <2>8. DiskPart' /\ SameStore /\ Kept' = Kept /\ CurrentEdits' = CurrentEdits
    BY <2>5, <2>7, FilesKeptStep
  <2>9. m.manifest \in DOMAIN manifests' /\ manifests'[m.manifest].edits = <<Snapshot>> /\ manifests'[m.manifest].synced = 0
    BY <2>1, <2>3, <2>4
  <2> QED
    BY <1>1, <1>3, <2>5, <2>8, <2>9, SnapshotSame
<1> QED
  BY <1>1, <1>2, <1>3

LEMMA SyncSnapshotStep ==
  ASSUME TypeOK, StoreInv, SoundFaults, SyncSnapshot
  PROVE  TypeOK' /\ StoreInv' /\ SameStore
<1> USE DEF StoreInv
<1>1. /\ up = "sync" /\ up' = "current" /\ manifests' = [manifests EXCEPT ![m.manifest].synced = 1]
      /\ unlinked' = IF DirSynced THEN {} ELSE unlinked
      /\ UNCHANGED <<logs, tables, current, todo, m, edit, bgpc, compaction, seq, acked, synced, crashes, faults>>
  BY DEF SyncSnapshot, Fails, Succeeds, hist, SoundFaults, SyncedSnapshot, SyncDirIfManifest
<1>2. PICK es, k : es = <<Snapshot>> /\ k = m.manifest
  OBVIOUS
<1>3. es \in Seq(Edit) /\ Len(es) = 1 /\ k \in Nat
  BY <1>2, SnapshotType, VersionOne, MemoryTypes
<1>4. k \in DOMAIN manifests /\ manifests[k].edits = es /\ manifests[k] \in Manifest
  BY <1>1, <1>2 DEF OpeningPart, SnapshotInv, TypeOK
<1>5. PICK f : f = [manifests[k] EXCEPT !.synced = 1] /\ f \in Manifest /\ f.edits = es /\ f.synced = 1
  <2>1. PICK f : f = [manifests[k] EXCEPT !.synced = 1]
    OBVIOUS
  <2>2. manifests[k] \in [edits : Seq(Edit), synced : Nat]
    BY <1>4 DEF Manifest
  <2>3. f \in [edits : Seq(Edit), synced : Nat] /\ f.edits = es /\ f.synced = 1
    BY <1>4, <2>1, <2>2
  <2>6. Len(f.edits) = 1 /\ f.synced = 1
    BY <1>3, <2>3
  <2>5. f.synced <= Len(f.edits)
    BY <2>6
  <2>4. f \in Manifest
    BY <2>3, <2>5 DEF Manifest
  <2> QED
    BY <2>1, <2>3, <2>4
<1>6. manifests' = [x \in DOMAIN manifests |-> IF x = k THEN f ELSE manifests[x]]
  BY <1>1, <1>2, <1>4, <1>5 DEF TypeOK
<1>7. TypeOK'
  <2>1. manifests' \in [DOMAIN manifests' -> Manifest] /\ DOMAIN manifests' \subseteq Nat
    BY <1>3, <1>5, <1>6 DEF TypeOK
  <2>2. unlinked' \subseteq Nat
    BY <1>1 DEF TypeOK
  <2> QED
    BY <1>1, <2>1, <2>2 DEF TypeOK
<1>8. current # 0 /\ current \in DOMAIN manifests /\ k # current
  BY <1>1, <1>2, RecoverEdits
<1>9. (~EntriesVolatile => unlinked' = {}) /\ (SafeEntries => unlinked' = {})
  BY <1>1 DEF DiskPart, DiskInv, SafeEntries
<1>10. FilesKept
  BY <1>1, <1>6, <1>8, <1>9, NamedTables DEF FilesKept, DiskPart, NumbersInv
<1>11. DiskPart' /\ SameStore /\ Kept' = Kept /\ CurrentEdits' = CurrentEdits
  BY <1>7, <1>10, FilesKeptStep
<1>12. m.manifest \in DOMAIN manifests' /\ manifests'[m.manifest].edits = <<Snapshot>> /\ manifests'[m.manifest].synced = 1
  BY <1>2, <1>4, <1>5, <1>6
<1> QED
  BY <1>1, <1>7, <1>9, <1>11, <1>12, SnapshotSame

LEMMA SetCurrentFileStep ==
  ASSUME TypeOK, StoreInv, SetCurrentFile
  PROVE  TypeOK' /\ StoreInv' /\ SameStore
<1> USE DEF StoreInv
<1>1. /\ up = "current" /\ UNCHANGED <<logs, tables, unlinked, todo, bgpc, compaction, seq, acked, synced, crashes>>
      /\ \/ /\ UNCHANGED <<manifests, faults, m, edit>> /\ up' = "install" /\ current' = m.manifest
         \/ faults' = faults + 1 /\ OpenFails /\ UNCHANGED current
  BY DEF SetCurrentFile, Fails, Succeeds, hist
<1>2. CASE faults' = faults + 1 /\ OpenFails /\ UNCHANGED current
  BY <1>1, <1>2, OpenFailsStep
<1>3. CASE UNCHANGED <<manifests, faults, m, edit>> /\ up' = "install" /\ current' = m.manifest
  <2>1. PICK e, es, k, v : e = Snapshot /\ es = <<e>> /\ k = m.manifest /\ v = edit.add \cup m.version
    OBVIOUS
  <2>2. e \in Edit /\ e.add = v /\ e.log = edit.log /\ e.next = edit.next /\ e.last = edit.last
    BY <2>1, SnapshotType
  <2>3. /\ VersionOf(es) = v /\ LastEdit(es) = e /\ es # << >> /\ Len(es) = 1 /\ es \in Seq(Edit)
        /\ SubSeq(es, 1, 1) = es
    BY <2>1, <2>2, VersionOne
  <2>4. /\ k \in DOMAIN manifests /\ manifests[k].edits = es /\ manifests[k].synced = 1
        /\ edit.log = m.logfile /\ edit.next = m.nextfile /\ edit.last = m.lastseq
        /\ m.logfile \in DOMAIN logs /\ logs[m.logfile].recs = {} /\ m.logfile < m.nextfile /\ m.manifest < m.nextfile
        /\ (\A n \in DOMAIN logs : n <= m.logfile) /\ v \subseteq DOMAIN tables /\ (\A n \in v : n < m.nextfile)
        /\ Stored(v) = Kept /\ Within(Kept, m.lastseq) /\ (SafeEntries => unlinked = {})
    BY <1>1, <2>1 DEF OpeningPart, SnapshotInv
  <2>5. /\ k \in Nat /\ m.logfile \in Nat /\ m.nextfile \in Nat /\ current < k /\ current \in Nat
    BY <1>1, <2>1, MemoryTypes, RecoverEdits DEF TypeOK
  <2>6. k # 0
    BY <2>5
  <2>7. TypeOK'
    BY <1>1, <1>3, <2>1, <2>5 DEF TypeOK
  <2>8. CurrentEdits' = es /\ SyncedEdits' = es
    BY <1>3, <2>1, <2>3, <2>4 DEF CurrentEdits, SyncedEdits
  <2>9. \A x : x \notin LogRecs(m.logfile)
    <3>1. \A n \in DOMAIN logs : n >= m.logfile => n = m.logfile
      BY <2>4, <2>5 DEF TypeOK
    <3> QED
      BY <2>4, <3>1 DEF LogRecs, LogsFrom
  <2>10. PICK l : l = m.logfile
    OBVIOUS
  <2>11. Content(es)' = Kept /\ Stored(v)' = Kept
    <3>1. Content(es)' = Stored(v)' \cup LogRecs(l)'
      BY <2>2, <2>3, <2>4, <2>10 DEF Content, Stored, LogRecs, LogsFrom
    <3>2. Stored(v)' = Stored(v) /\ LogRecs(l)' = LogRecs(l)
      BY <1>1 DEF Stored, LogRecs, LogsFrom
    <3> QED
      BY <2>4, <2>9, <2>10, <3>1, <3>2
  <2>12. Kept' = Kept
    <3>1. Kept' = Content(es)'
      BY <2>3, <2>8 DEF Kept, Content, Stored, LogRecs, LogsFrom
    <3> QED
      BY <2>11, <3>1
  <2>13. SameStore
    BY <1>1, <2>12 DEF SameStore, CommittedStep
  <2>14. EditsOK(CurrentEdits)' /\ EditsOK(SyncedEdits)'
    <3>1. Stored(VersionOf(CurrentEdits))' = Kept
      BY <2>3, <2>8, <2>11 DEF Stored
    <3>2. Within(Stored(VersionOf(CurrentEdits)), LastEdit(CurrentEdits).last)'
      BY <1>1, <2>2, <2>3, <2>4, <2>8, <3>1 DEF Within
    <3>3. EditsOK(CurrentEdits)'
      BY <1>1, <1>3, <2>2, <2>3, <2>4, <2>8, <3>2 DEF EditsOK
    <3> QED
      BY <2>8, <3>3 DEF EditsOK, Within, Stored
  <2>15. DiskInv'
    <3>1. (Content(SyncedEdits) = Kept)'
      BY <2>8, <2>11, <2>12 DEF Content, Stored, LogRecs, LogsFrom
    <3>2. LastEdit(es).next <= LastEdit(es).next
      BY <2>2, <2>3 DEF Edit
    <3>3. ~EntriesVolatile => unlinked = {}
      BY DEF DiskPart, DiskInv
    <3> QED
      BY <1>1, <1>3, <2>1, <2>3, <2>4, <2>6, <2>8, <2>14, <3>1, <3>2, <3>3 DEF DiskInv
  <2>16. NumbersInv' /\ LogsInv' /\ ProcessSafe' /\ SequencesOrdered'
    BY <1>1, <2>12 DEF DiskPart, NumbersInv, LogsInv, ProcessSafe, SequencesOrdered
  <2>17. SnapshotInv'
    <3>1. (Snapshot = e)'
      BY <1>3, <2>1 DEF Snapshot
    <3>2. Stored(edit.add \cup m.version)' = Kept'
      BY <1>3, <2>1, <2>11, <2>12 DEF Stored
    <3>3. Within(Kept, m.lastseq)'
      BY <1>1, <1>3, <2>4, <2>12 DEF Within
    <3> QED
      BY <1>1, <1>3, <2>1, <2>4, <2>12, <3>1, <3>2, <3>3 DEF OpeningPart, SnapshotInv, EmptyMemory
  <2>18. ClosedInv' /\ ReplayInv' /\ RecoverInv'
    BY <1>1, <1>3 DEF OpeningPart, ClosedInv, ReplayInv, RecoverInv, Quiet
  <2> QED
    BY <1>3, <2>7, <2>13, <2>15, <2>16, <2>17, <2>18, WhileClosed DEF DiskPart, OpeningPart
<1> QED
  BY <1>1, <1>2, <1>3

LEMMA OpenDoneStep ==
  ASSUME TypeOK, StoreInv, OpenDone
  PROVE  TypeOK' /\ StoreInv' /\ SameStore /\ up # "open" /\ up' = "open" /\ UNCHANGED synced
<1> USE DEF StoreInv
<1>1. /\ up = "install" /\ up' = "open" /\ m' = Applied /\ DeleteObsoleteFiles(m') /\ edit' = NoEdit
      /\ UNCHANGED <<current, todo, bgpc, compaction, seq, acked, synced, crashes, faults>>
  BY DEF OpenDone, hist
<1>2. PICK e, es, k, v, l : /\ e = Snapshot /\ es = <<e>> /\ k = m.manifest /\ v = edit.add \cup m.version
                            /\ l = m.logfile
  OBVIOUS
<1>3. e \in Edit /\ e.add = v /\ e.log = edit.log /\ e.next = edit.next /\ e.last = edit.last
  BY <1>2, SnapshotType
<1>4. /\ VersionOf(es) = v /\ LastEdit(es) = e /\ es # << >> /\ Len(es) = 1 /\ es \in Seq(Edit)
      /\ SubSeq(es, 1, 1) = es
  BY <1>2, <1>3, VersionOne
<1>5. /\ k \in DOMAIN manifests /\ manifests[k].edits = es /\ manifests[k].synced = 1 /\ current = k
      /\ edit.log = l /\ edit.next = m.nextfile /\ edit.last = m.lastseq /\ edit.del = {} /\ EmptyMemory
      /\ l \in DOMAIN logs /\ logs[l].recs = {} /\ l < m.nextfile /\ m.manifest < m.nextfile
      /\ (\A n \in DOMAIN logs : n <= l) /\ v \subseteq DOMAIN tables /\ (\A n \in v : n < m.nextfile)
      /\ Stored(v) = Kept /\ Within(Kept, m.lastseq)
  BY <1>1, <1>2 DEF OpeningPart, SnapshotInv
<1>6. /\ k \in Nat /\ l \in Nat /\ m.nextfile \in Nat /\ v \in SUBSET Nat /\ m \in Memory /\ NoEdit \in Edit
      /\ m.lastseq \in Nat
  BY <1>2, MemoryTypes
<1>7. m' = [m EXCEPT !.version = v, !.lognumber = l] /\ m' \in Memory
  <2>1. (m.version \ edit.del) \cup edit.add = v
    BY <1>2, <1>5
  <2>2. [m EXCEPT !.version = v, !.lognumber = l] \in Memory
    BY <1>6, MemoryUpdates
  <2>3. m' = [m EXCEPT !.version = v, !.lognumber = l]
    BY <1>1, <1>5, <2>1 DEF Applied
  <2> QED
    BY <2>2, <2>3
<1>8. /\ m'.version = v /\ m'.lognumber = l /\ m'.logfile = l /\ m'.nextfile = m.nextfile /\ m'.manifest = k
      /\ m'.lastseq = m.lastseq /\ m'.mem = {} /\ m'.imm = {} /\ ~m'.hasimm /\ m'.pending = {}
  BY <1>2, <1>5, <1>6, <1>7 DEF Memory, EmptyMemory
<1>9. current # 0 /\ CurrentEdits = es /\ SyncedEdits = es
  BY <1>1, <1>4, <1>5 DEF DiskPart, DiskInv, CurrentEdits, SyncedEdits
<1>10. PICK s : s = m'
  OBVIOUS
<1>11. /\ FilesKept
       /\ logs' \in [DOMAIN logs' -> LogFile] /\ DOMAIN logs' \subseteq Nat
       /\ tables' \in [DOMAIN tables' -> SUBSET Writes] /\ DOMAIN tables' \subseteq Nat /\ unlinked' \subseteq Nat
       /\ manifests' \in [DOMAIN manifests' -> Manifest] /\ DOMAIN manifests' \subseteq Nat
       /\ (\A n \in DOMAIN tables : n \in s.version \cup s.pending => n \in DOMAIN tables' /\ tables'[n] = tables[n])
       /\ DOMAIN logs' \subseteq DOMAIN logs
       /\ (\A n \in DOMAIN logs : n >= s.lognumber => n \in DOMAIN logs' /\ logs'[n] = logs[n])
       /\ LogRecs(s.lognumber)' = LogRecs(s.lognumber)
       /\ (s.version \subseteq DOMAIN tables => Stored(s.version)' = Stored(s.version))
  <2>1. s.lognumber <= LastEdit(CurrentEdits).log
    BY <1>3, <1>4, <1>5, <1>6, <1>8, <1>9, <1>10
  <2>2. s \in Memory /\ DeleteObsoleteFiles(s) /\ s.manifest = current /\ VersionOf(CurrentEdits) \subseteq s.version
    BY <1>1, <1>4, <1>5, <1>7, <1>8, <1>9, <1>10
  <2> QED
    BY <1>1, <1>4, <1>9, <2>1, <2>2, ObsoleteFilesStep
<1>12. TypeOK'
  BY <1>1, <1>6, <1>7, <1>11 DEF TypeOK
<1>13. DiskPart' /\ SameStore /\ Kept' = Kept /\ CurrentEdits' = CurrentEdits /\ SyncedEdits' = SyncedEdits
  BY <1>11, <1>12, FilesKeptStep
<1>14. Stored(v)' = Stored(v) /\ LogRecs(l)' = LogRecs(l) /\ v \subseteq DOMAIN tables'
  BY <1>5, <1>8, <1>10, <1>11
<1>15. LogRecs(l) = {}
  <2>1. \A n \in DOMAIN logs : n >= l => n = l
    BY <1>5, <1>6 DEF TypeOK
  <2> QED
    BY <1>5, <2>1 DEF LogRecs, LogsFrom
<1>16. Served' = Kept'
  <2>1. Served' = Stored(v)'
    BY <1>8 DEF Served, Stored
  <2> QED
    BY <1>5, <1>13, <1>14, <2>1
<1>17. manifests'[current] = manifests[current]
  BY <1>11 DEF FilesKept
<1>18. OpenInv'
  <2>1. l \in DOMAIN logs' /\ logs'[l].recs = {} /\ l <= l /\ \A n \in DOMAIN logs' : n <= l
    BY <1>5, <1>6, <1>8, <1>10, <1>11
  <2>2. LogRecs(m.lognumber)' = {}
    BY <1>8, <1>14, <1>15 DEF LogRecs, LogsFrom
  <2>3. Within(Served, m.lastseq)'
    BY <1>1, <1>5, <1>8, <1>13, <1>16 DEF Within
  <2>4. LastEdit(CurrentEdits').next <= m'.nextfile
    BY <1>3, <1>4, <1>5, <1>6, <1>8, <1>9, <1>13
  <2> QED
    BY <1>1, <1>4, <1>5, <1>8, <1>9, <1>13, <1>14, <1>16, <2>1, <2>2, <2>3, <2>4 DEF OpenInv
<1>19. bgpc = "idle" /\ compaction = NoCompaction /\ todo = {}
  BY <1>1 DEF OpeningPart, ClosedInv, Quiet
<1>20. CompactionInv'
  BY <1>1, <1>8, <1>19 DEF CompactionInv, NoCompaction
<1>21. EditInv'
  <2>1. /\ VersionOf(CurrentEdits)' = m'.version /\ LastEdit(CurrentEdits)'.log = m'.lognumber
        /\ manifests'[current'].synced = Len(manifests'[current'].edits)
    BY <1>1, <1>3, <1>4, <1>5, <1>8, <1>9, <1>13, <1>17
  <2> QED
    BY <1>1, <1>19, <2>1 DEF EditInv, NoEdit
<1> QED
  BY <1>1, <1>12, <1>13, <1>18, <1>19, <1>20, <1>21, WhileOpen DEF OpenPart

-----------------------------------------------------------------------------
(* The theorems                                                            *)

LEMMA StoreInit ==
  ASSUME Init
  PROVE  TypeOK /\ StoreInv /\ Kept = {}
<1>1. /\ logs = << >> /\ tables = << >> /\ unlinked = {} /\ manifests = << >> /\ current = 0 /\ up = "down"
      /\ m = NoMemory /\ todo = {} /\ bgpc = "idle" /\ compaction = NoCompaction /\ edit = NoEdit
      /\ seq = [x \in Writes |-> 0] /\ acked = {} /\ synced = {} /\ crashes = 0 /\ faults = 0
  BY DEF Init
<1>2. DOMAIN logs = {} /\ DOMAIN tables = {} /\ DOMAIN manifests = {}
  BY <1>1
<1>3. logs \in [DOMAIN logs -> LogFile] /\ tables \in [DOMAIN tables -> SUBSET Writes]
      /\ manifests \in [DOMAIN manifests -> Manifest]
  <2>1. logs = [n \in {} |-> 0] /\ tables = [n \in {} |-> 0] /\ manifests = [n \in {} |-> 0]
    BY <1>1
  <2> QED
    BY <1>2, <2>1
<1>4. m \in Memory /\ compaction \in [inputs : SUBSET Nat, out : Nat] /\ edit \in Edit
  BY <1>1 DEF NoMemory, Memory, NoCompaction, NoEdit, Edit
<1>5. TypeOK
  BY <1>1, <1>2, <1>3, <1>4 DEF TypeOK
<1>6. CurrentEdits = << >> /\ SyncedEdits = << >> /\ Kept = {}
  BY <1>1, <1>2 DEF CurrentEdits, SyncedEdits, Kept
<1>7. NumbersInv
  <2>1. \A x \in Writes : seq[x] = 0 /\ 0 <= x
    BY <1>1, ConstantsAssumption DEF Writes
  <2> QED
    BY <1>1, <1>2, <2>1 DEF NumbersInv
<1>8. LogsInv /\ DiskInv /\ ProcessSafe /\ SequencesOrdered
  BY <1>1, <1>2, <1>6 DEF LogsInv, DiskInv, ProcessSafe, SequencesOrdered
<1>9. OpeningPart /\ OpenPart
  BY <1>1 DEF OpeningPart, ClosedInv, RecoverInv, ReplayInv, SnapshotInv, Quiet, OpenPart, OpenInv, CompactionInv, EditInv
<1> QED
  BY <1>5, <1>6, <1>7, <1>8, <1>9 DEF StoreInv, DiskPart

\* What a step does to the store, apart from keeping the invariant.
OpenKept == (up' = "open" <=> up = "open") /\ UNCHANGED synced
StepKind ==
  \/ SameStore /\ OpenKept
  \/ SameStore /\ up # "open" /\ up' = "open" /\ UNCHANGED synced
  \/ /\ CommittedStep /\ up = "open" /\ up' = "open"
     /\ \E sync \in BOOLEAN : \E x \in Writes : /\ x \notin Kept /\ Kept' = Kept \cup {x}
                                                /\ synced' = IF sync THEN synced \cup {x} ELSE synced
  \/ CommittedStep /\ up' = "down" /\ UNCHANGED synced /\ (Kept' = Kept \/ (Kept' \subseteq Kept /\ synced \subseteq Kept'))

LEMMA StoreStep ==
  ASSUME SoundFaults, PowerFailures => SafeEntries, TypeOK, StoreInv, [Next]_vars
  PROVE  TypeOK' /\ StoreInv' /\ StepKind
<1>1. CASE UNCHANGED vars
  <2>1. /\ UNCHANGED <<logs, tables, unlinked, manifests, current, up, m, todo, bgpc>>
        /\ UNCHANGED <<compaction, edit, seq, acked, synced, crashes, faults>>
    BY <1>1 DEF vars
  <2>2. TypeOK'
    BY <2>1 DEF TypeOK
  <2>3. Kept' = Kept /\ CurrentEdits' = CurrentEdits /\ SyncedEdits' = SyncedEdits /\ Served' = Served
    BY <2>1 DEF Kept, CurrentEdits, SyncedEdits, Served, Stored, LogsFrom
  <2>4. NumbersInv' /\ LogsInv' /\ ProcessSafe' /\ SequencesOrdered'
    BY <2>1, <2>3 DEF StoreInv, DiskPart, NumbersInv, LogsInv, ProcessSafe, SequencesOrdered
  <2>5. DiskInv'
    BY <2>1, <2>3 DEF StoreInv, DiskPart, DiskInv, EditsOK, Content, Within, Stored, LogRecs, LogsFrom
  <2>6. OpeningPart'
    BY <2>1, <2>3 DEF StoreInv, OpeningPart, ClosedInv, RecoverInv, ReplayInv, SnapshotInv, Quiet, EmptyMemory, Within,
                      Stored, RecsOf, LogsFrom, Snapshot
  <2>7. OpenPart'
    BY <2>1, <2>3 DEF StoreInv, OpenPart, OpenInv, CompactionInv, EditInv, Within, Stored, LogRecs, LogsFrom
  <2> QED
    BY <2>1, <2>2, <2>3, <2>4, <2>5, <2>6, <2>7 DEF StoreInv, DiskPart, StepKind, SameStore, CommittedStep, OpenKept
<1>2. CASE \E sync \in BOOLEAN : Write(sync)
  BY <1>2, WriteStep DEF StepKind
<1>3. CASE SwitchMem
  BY <1>3, SwitchMemStep DEF StepKind, OpenKept, SwitchMem, hist
<1>4. CASE CompactMemTable
  BY <1>4, CompactMemTableStep DEF StepKind, OpenKept, CompactMemTable, hist
<1>5. CASE AppendEdit
  BY <1>5, AppendEditStep DEF StepKind, OpenKept, AppendEdit, hist
<1>6. CASE SyncManifest
  BY <1>6, SyncManifestStep DEF StepKind, OpenKept, SyncManifest, hist
<1>7. CASE Install
  BY <1>7, InstallStep DEF StepKind, OpenKept, Install, hist
<1>8. CASE GiveUp
  BY <1>8, GiveUpStep DEF StepKind, OpenKept, GiveUp, hist
<1>9. CASE PickCompaction
  BY <1>9, PickCompactionStep DEF StepKind, OpenKept, PickCompaction, hist
<1>10. CASE OpenCompactionOutputFile
  BY <1>10, OpenCompactionOutputFileStep DEF StepKind, OpenKept, OpenCompactionOutputFile, hist
<1>11. CASE FinishCompaction
  BY <1>11, FinishCompactionStep DEF StepKind, OpenKept, FinishCompaction, hist
<1>12. CASE NewDB
  BY <1>12, NewDBStep DEF StepKind, OpenKept, NewDB, hist
<1>13. CASE RecoverManifest
  <2>1. up # "open" /\ up' # "open" /\ UNCHANGED synced
    BY <1>13 DEF RecoverManifest, hist
  <2> QED
    BY <1>13, <2>1, RecoverManifestStep DEF StepKind, OpenKept
<1>14. CASE RecoverLogFile
  BY <1>14, RecoverLogFileStep DEF StepKind, OpenKept, RecoverLogFile, hist
<1>15. CASE NewLog
  BY <1>15, NewLogStep DEF StepKind, OpenKept, NewLog, hist
<1>16. CASE WriteSnapshot
  BY <1>16, WriteSnapshotStep DEF StepKind, OpenKept, WriteSnapshot, OpenFails, hist
<1>17. CASE SyncSnapshot
  BY <1>17, SyncSnapshotStep DEF StepKind, OpenKept, SyncSnapshot, OpenFails, hist
<1>18. CASE SetCurrentFile
  BY <1>18, SetCurrentFileStep DEF StepKind, OpenKept, SetCurrentFile, OpenFails, hist
<1>19. CASE OpenDone
  BY <1>19, OpenDoneStep DEF StepKind
<1>20. CASE \E power \in BOOLEAN : (power => PowerFailures) /\ Crash(power)
  <2>1. PICK power \in BOOLEAN : (power => PowerFailures) /\ Crash(power)
    BY <1>20
  <2>2. up' = "down" /\ UNCHANGED synced
    BY <2>1 DEF Crash
  <2>3. CASE power = TRUE
    BY <2>1, <2>2, <2>3, PowerCrashStep DEF StepKind
  <2>4. CASE power = FALSE
    BY <2>1, <2>2, <2>4, ProcessCrashStep DEF StepKind, SameStore
  <2> QED
    BY <2>3, <2>4
<1> QED
  BY <1>1, <1>2, <1>3, <1>4, <1>5, <1>6, <1>7, <1>8, <1>9, <1>10, <1>11, <1>12, <1>13, <1>14, <1>15, <1>16, <1>17,
     <1>18, <1>19, <1>20 DEF Next, BgStep, OpenStep

\* The files and the memory agree at every step of DB::Open, of the background thread
\* and of a crash (DB::Open, LogAndApply, CompactMemTable, DeleteObsoleteFiles): the
\* types and the invariant hold, for any number of writes, crashes and failed appends,
\* renames and compactions.  BuildTable and the sync of a manifest do not fail, and when
\* the machine may crash a synced file's directory entry is durable.
THEOREM StoreCorrect ==
  ASSUME SoundFaults, PowerFailures => SafeEntries
  PROVE  Spec => [](TypeOK /\ StoreInv)
<1>1. Init => TypeOK /\ StoreInv
  BY StoreInit
<1>2. TypeOK /\ StoreInv /\ [Next]_vars => (TypeOK /\ StoreInv)'
  BY StoreStep
<1> QED
  BY <1>1, <1>2, PTL DEF Spec

\* A crash of the process loses no acknowledged write, whatever it interrupts.
THEOREM ProcessSafeCorrect ==
  ASSUME SoundFaults, PowerFailures => SafeEntries
  PROVE  Spec => []ProcessSafe
<1>1. TypeOK /\ StoreInv => ProcessSafe
  BY DEF StoreInv, DiskPart
<1> QED
  BY <1>1, StoreCorrect, PTL

\* Recovery never hands out a sequence number again: what DB::Open finds is ordered as written.
THEOREM SequencesOrderedCorrect ==
  ASSUME SoundFaults, PowerFailures => SafeEntries
  PROVE  Spec => []SequencesOrdered
<1>1. TypeOK /\ StoreInv => SequencesOrdered
  BY DEF StoreInv, DiskPart
<1> QED
  BY <1>1, StoreCorrect, PTL

\* A power failure at any moment loses no write acknowledged with options.sync.
THEOREM PowerSafeCorrect ==
  ASSUME SoundFaults, SafeEntries
  PROVE  Spec => []PowerSafe
<1>1. ASSUME TypeOK, StoreInv PROVE PowerSafe
  <2> SUFFICES ASSUME NEW x \in synced PROVE x \in SafelyKept
    BY DEF PowerSafe
  <2>1. x \in acked /\ x \in Kept
    BY <1>1 DEF StoreInv, DiskPart, NumbersInv, ProcessSafe
  <2>2. SyncedEdits # << >>
    BY <1>1, <2>1 DEF StoreInv, DiskPart, DiskInv
  <2>3. PICK v, l : v = VersionOf(SyncedEdits) /\ l = LastEdit(SyncedEdits).log
    OBVIOUS
  <2>4. v \cap unlinked = {} /\ Kept = Stored(v) \cup LogRecs(l)
    BY <1>1, <2>2, <2>3 DEF StoreInv, DiskPart, DiskInv, Content
  <2>5. v \ unlinked = v
    BY <2>4
  <2>6. SafelyKept = Stored(v) \cup UNION {logs[n].synced : n \in LogsFrom(l)}
    BY <2>2, <2>3, <2>5 DEF SafelyKept
  <2>7. CASE x \in Stored(v)
    BY <2>6, <2>7
  <2>8. CASE x \notin Stored(v)
    <3>1. PICK n \in LogsFrom(l) : x \in logs[n].recs
      BY <2>1, <2>4, <2>8 DEF LogRecs
    <3>2. x \in logs[n].synced
      BY <1>1, <3>1 DEF StoreInv, DiskPart, LogsInv, LogsFrom
    <3> QED
      BY <2>6, <3>1, <3>2
  <2> QED
    BY <2>7, <2>8
<1> QED
  BY <1>1, StoreCorrect, PTL

\* Every table the manifest names is on disk, durably if the naming edit is: neither
\* DeleteObsoleteFiles nor a crash removes a table in use, and CURRENT names a manifest.
THEOREM TablesExistCorrect ==
  ASSUME SoundFaults, SafeEntries
  PROVE  Spec => []TablesExist
<1>1. ASSUME TypeOK, StoreInv PROVE TablesExist
  <2>1. VersionOf(CurrentEdits) \cup VersionOf(SyncedEdits) \subseteq DOMAIN tables
    BY <1>1, NamedTables DEF StoreInv
  <2>2. VersionOf(SyncedEdits) \cap unlinked = {}
    <3>1. CASE SyncedEdits = << >>
      BY <1>1, <3>1, DiskTypes DEF StoreInv, DiskPart
    <3>2. CASE SyncedEdits # << >>
      BY <1>1, <3>2 DEF StoreInv, DiskPart, DiskInv
    <3> QED
      BY <3>1, <3>2
  <2>3. current # 0 => current \in DOMAIN manifests
    BY <1>1 DEF StoreInv, DiskPart, DiskInv
  <2> QED
    BY <2>1, <2>2, <2>3 DEF TablesExist
<1> QED
  BY <1>1, StoreCorrect, PTL

\* DB::Open ends in Corruption only for a database that never acknowledged a synced write.
THEOREM NeverBrickedCorrect ==
  ASSUME SoundFaults, PowerFailures => SafeEntries
  PROVE  Spec => []NeverBricked
<1>1. ASSUME TypeOK, StoreInv PROVE NeverBricked
  <2> SUFFICES ASSUME up = "corrupt" PROVE synced = {}
    BY DEF NeverBricked
  <2>1. CurrentEdits = << >>
    BY <1>1 DEF StoreInv, OpeningPart, ClosedInv
  <2>2. SyncedEdits = << >>
    BY <1>1, <2>1, DiskTypes DEF StoreInv, DiskPart
  <2> QED
    BY <1>1, <2>2 DEF StoreInv, DiskPart, DiskInv, NumbersInv
<1> QED
  BY <1>1, StoreCorrect, PTL

\* A table that the manifest names, and still names after the step, is never rewritten:
\* no file number is used twice across crashes while the table is in use.
THEOREM CommittedTablesKeptCorrect ==
  ASSUME SoundFaults, PowerFailures => SafeEntries
  PROVE  Spec => CommittedTablesKept
<1>1. TypeOK /\ StoreInv /\ [Next]_vars => CommittedStep
  BY StoreStep DEF StepKind, SameStore
<1>2. TypeOK /\ StoreInv /\ [Next]_vars =>
        [\A n \in VersionOf(CurrentEdits) \cap VersionOf(CurrentEdits)' :
           n \in DOMAIN tables => n \in DOMAIN tables' /\ tables'[n] = tables[n]]_vars
  BY <1>1 DEF CommittedStep
<1> QED
  BY <1>2, StoreCorrect, PTL DEF Spec, CommittedTablesKept

LEMMA StoreRefined ==
  ASSUME StepKind, StoreInv, StoreInv'
  PROVE  [Store!Next]_(Store!vars)
<1>1. PICK k, l, v, w : k = Kept /\ l = Kept' /\ v = (IF up = "open" THEN Served ELSE {})
                        /\ w = (IF up = "open" THEN Served ELSE {})'
  OBVIOUS
<1>2. v = IF up = "open" THEN k ELSE {}
  BY <1>1 DEF StoreInv, OpenPart, OpenInv
<1>3. w = IF up' = "open" THEN l ELSE {}
  BY <1>1 DEF StoreInv, OpenPart, OpenInv
<1>4. CASE SameStore /\ OpenKept
  <2>1. UNCHANGED Store!vars
    BY <1>1, <1>2, <1>3, <1>4 DEF Store!vars, SameStore, OpenKept
  <2> QED
    BY <2>1
<1>5. CASE SameStore /\ up # "open" /\ up' = "open" /\ UNCHANGED synced
  <2>1. Store!Open
    BY <1>1, <1>2, <1>3, <1>5 DEF Store!Open, SameStore
  <2> QED
    BY <2>1 DEF Store!Next
<1>6. CASE /\ CommittedStep /\ up = "open" /\ up' = "open"
           /\ \E sync \in BOOLEAN : \E x \in Writes : /\ x \notin Kept /\ Kept' = Kept \cup {x}
                                                      /\ synced' = IF sync THEN synced \cup {x} ELSE synced
  <2>1. PICK sync \in BOOLEAN, x \in Writes : /\ x \notin Kept /\ Kept' = Kept \cup {x}
                                              /\ synced' = IF sync THEN synced \cup {x} ELSE synced
    BY <1>6
  <2>2. Store!Write(x, sync)
    BY <1>1, <1>2, <1>3, <1>6, <2>1 DEF Store!Write
  <2> QED
    BY <2>2 DEF Store!Next, Writes
<1>7. CASE CommittedStep /\ up' = "down" /\ UNCHANGED synced /\ (Kept' = Kept \/ (Kept' \subseteq Kept /\ synced \subseteq Kept'))
  <2>1. CASE Kept' = Kept
    <3>1. Store!Crash(FALSE)
      BY <1>1, <1>3, <1>7, <2>1 DEF Store!Crash
    <3> QED
      BY <3>1 DEF Store!Next
  <2>2. CASE Kept' \subseteq Kept /\ synced \subseteq Kept'
    <3>1. Store!Crash(TRUE)
      BY <1>1, <1>3, <1>7, <2>2 DEF Store!Crash
    <3> QED
      BY <3>1 DEF Store!Next
  <2> QED
    BY <1>7, <2>1, <2>2
<1> QED
  BY <1>4, <1>5, <1>6, <1>7 DEF StepKind

\* The database implements DurableStore: no flush, compaction, recovery or deletion of
\* files changes what is kept, a crash loses at most writes that were not synced, and an
\* open database serves exactly what is kept.
THEOREM ImplementsStoreCorrect ==
  ASSUME SoundFaults, PowerFailures => SafeEntries
  PROVE  Spec => ImplementsStore
<1>1. Init => Store!Init
  <2> SUFFICES ASSUME Init PROVE Store!Init
    OBVIOUS
  <2>1. Kept = {} /\ synced = {} /\ up = "down"
    BY StoreInit DEF Init
  <2> QED
    BY <2>1 DEF Store!Init
<1>2. TypeOK /\ StoreInv /\ [Next]_vars => [Store!Next]_(Store!vars)
  BY StoreStep, StoreRefined
<1> QED
  BY <1>1, <1>2, StoreCorrect, PTL DEF Spec, ImplementsStore, Store!Spec
=============================================================================
