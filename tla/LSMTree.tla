------------------------------ MODULE LSMTree ------------------------------
(***************************************************************************)
(* Where the entries of the database are and how reads find them: the      *)
(* memtables and the levels of class Version, the choice of compaction     *)
(* inputs by class VersionSet, the entries a compaction drops, the level a *)
(* flushed memtable goes to, and DB::Get, which works on all of them       *)
(* without DB::mutex (redisdb/db/db.cc, redisdb/db/versionset.cc).         *)
(*                                                                         *)
(* An entry stands for an internal key and its value; the sequence number  *)
(* tells values apart.  A file is the set of its entries.  Sizes are       *)
(* counted in entries.  Writers, logs and manifests are in DBWrite and     *)
(* DBRecovery: a write is one step here, and so is the installation of a   *)
(* version, which the code does under DB::mutex.                           *)
(***************************************************************************)
EXTENDS Naturals, FiniteSets, FiniteSetsExt

CONSTANTS
  Key,              \* user keys, a range of numbers
  Types,            \* the types of entries written: deletion or value
  MaxSequence,      \* bound on the number of writes
  Top,              \* kNumLevels - 1
  MaxMemLevel,      \* kMaxMemCompactLevel
  MaxFileEntries,   \* the largest file a compaction writes
  GrandparentLimit, \* MaxGrandParentOverlapBytes
  ExpandLimit,      \* ExpandedCompactionByteSizeLimit
  ManualRanges,     \* the ranges TESTCompactRange may be called with
  Reader,           \* the threads that call DB::Get
  MaxGets,          \* bound on the number of calls
  MaxGetSequence,   \* bound on the number of writes before a call
  SnapshotAge       \* bound on the number of writes since the snapshot of a call

ASSUME ConstantsAssumption ==
  /\ Key \subseteq Nat /\ IsFiniteSet(Key) /\ Key # {} /\ 0 \notin Key
  /\ Types \subseteq BOOLEAN
  /\ MaxSequence \in Nat /\ MaxGets \in Nat /\ MaxGetSequence \in Nat /\ SnapshotAge \in Nat
  /\ Top \in Nat /\ MaxMemLevel \in Nat /\ MaxMemLevel < Top /\ MaxFileEntries \in Nat \ {0}
  /\ ManualRanges \subseteq Key \X Key

VARIABLES
  mem, imm, hasimm,  \* the memtables; hasimm says whether imm is non-null
  levels,            \* the files of the current version, per level
  lastsequence, nextfile,
  compaction,        \* the compaction being worked on
  get,               \* the call of DB::Get of each reader, with its history: it
                     \* reads an old snapshot, a flush or a compaction was
                     \* installed since it began, its result is wrong
  ngets,
  hist               \* history: every entry ever written

vars == <<mem, imm, hasimm, levels, lastsequence, nextfile, compaction,
          get, ngets, hist>>
readVars == <<get, ngets>>

Level == 0..Top
None == [key |-> 0, seq |-> 0, del |-> TRUE]   \* no entry: not found
NoCompaction == [level |-> Top, inputs |-> {}, parents |-> {}, below |-> {},
                 smallest |-> 0]
NoGet == [pc |-> "idle", key |-> 0, snap |-> 0, version |-> << >>,
          old |-> FALSE, disturbed |-> FALSE, wrong |-> FALSE]

Init ==
  /\ mem = {} /\ imm = {} /\ hasimm = FALSE
  /\ levels = [l \in Level |-> {}]
  /\ lastsequence = 0 /\ nextfile = 1
  /\ compaction = NoCompaction
  /\ get = [r \in Reader |-> NoGet] /\ ngets = 0
  /\ hist = {}
-----------------------------------------------------------------------------
(* Internal keys and files                                                 *)

(* InternalKeyComparator: by user key, then newest first.                  *)
Before(d, e) == d.key < e.key \/ (d.key = e.key /\ d.seq > e.seq)
First(entries) == CHOOSE e \in entries : \A d \in entries : ~Before(d, e)
Last(entries) == CHOOSE e \in entries : \A d \in entries : ~Before(e, d)

Smallest(f) == First(f.entries)
Largest(f) == Last(f.entries)
Entries(files) == UNION {f.entries : f \in files}
Size(files) == Cardinality(Entries(files))

(* A file has entries on both sides of, or in, a range of user keys.       *)
OverlapsBeyond(f, lo, hi) == Largest(f).key > lo /\ Smallest(f).key <= hi
Overlaps(f, lo, hi) == Largest(f).key >= lo /\ Smallest(f).key <= hi
Overlapping(files, lo, hi) == {f \in files : Overlaps(f, lo, hi)}
LowKey(files) == First(Entries(files)).key
HighKey(files) == Last(Entries(files)).key

(* GetOverlappingInputs.  In level 0 a file that overlaps widens the range *)
(* until no further file does.                                             *)
GetOverlappingInputsNarrow(level, lo, hi) == Overlapping(levels[level], lo, hi)
GetOverlappingInputs(level, lo, hi) ==
  LET closed == {r \in (1..Max(Key \cup {hi})) \X (1..Max(Key \cup {hi})) :
                   /\ r[1] <= lo /\ hi <= r[2]
                   /\ \A f \in Overlapping(levels[0], r[1], r[2]) :
                        r[1] <= Smallest(f).key /\ Largest(f).key <= r[2]}
      range == CHOOSE r \in closed : \A q \in closed : q[1] <= r[1] /\ r[2] <= q[2]
  IN IF level = 0
     THEN Overlapping(levels[0], range[1], range[2])
     ELSE Overlapping(levels[level], lo, hi)

(* addBoundaryInputs: a file of the level that goes on with the user key   *)
(* at which the inputs end, with older entries, has to come along.         *)
Boundary(level, files) ==
  {f \in levels[level] : /\ Before(Last(Entries(files)), Smallest(f))
                         /\ Smallest(f).key = HighKey(files)}
addBoundaryInputs(level, files) ==
  LET extended[n \in Nat] ==
        IF n = 0 THEN files
        ELSE LET s == extended[n - 1]
                 b == Boundary(level, s)
             IN IF s = {} \/ b = {} THEN s
                ELSE s \cup {CHOOSE f \in b : \A g \in b : ~Before(Smallest(g), Smallest(f))}
  IN extended[Cardinality(levels[level])]
-----------------------------------------------------------------------------
(* Choosing a compaction                                                   *)

Parents(level, files) == GetOverlappingInputs(level + 1, LowKey(files), HighKey(files))

(* SetupOtherInputs: the files of the next level that the inputs overlap,  *)
(* and more inputs if that draws in no further file of the next level.     *)
SetupOtherInputs(level, files) ==
  LET in0 == addBoundaryInputs(level, files)
      in1 == Parents(level, in0)
      more0 == addBoundaryInputs(level,
                 GetOverlappingInputs(level, LowKey(in0 \cup in1), HighKey(in0 \cup in1)))
      more1 == Parents(level, more0)
      grow == /\ in1 # {} /\ Cardinality(more0) > Cardinality(in0)
              /\ Size(in1) + Size(more0) < ExpandLimit
              /\ Cardinality(more1) = Cardinality(in1)
  IN [in0 |-> IF grow THEN more0 ELSE in0, in1 |-> IF grow THEN more1 ELSE in1]

Grandparents(level, files) ==
  IF level + 2 > Top THEN {} ELSE GetOverlappingInputs(level + 2, LowKey(files), HighKey(files))

isTrivialMove(level, in0, in1) ==
  /\ Cardinality(in0) = 1 /\ in1 = {}
  /\ Size(Grandparents(level, in0)) <= GrandparentLimit

(* PickCompaction takes one file of a level and, in level 0, the ones that *)
(* overlap it.  Which file comes next depends on sizes, compactPointer and *)
(* the seeks charged to files: any may.                                    *)
PickInputs(level, f) ==
  IF level = 0 THEN GetOverlappingInputs(0, Smallest(f).key, Largest(f).key) ELSE {f}

(* CompactRange: the files in a range; above level 0 only as many, from    *)
(* the first, as fill one output file.                                     *)
RangeInputs(level, lo, hi) ==
  LET files == GetOverlappingInputs(level, lo, hi)
      upto(f) == {g \in files : ~Before(Smallest(f), Smallest(g))}
  IN IF level = 0 THEN files
     ELSE {f \in files : Size(upto(f) \ {f}) < MaxFileEntries}

(* The files that isBaseLevelForKey looks at, in the version compacted.    *)
Below(level) == UNION {levels[l] : l \in (level + 2)..Top}

StartCompaction(level, inputs, manual) ==
  LET c == SetupOtherInputs(level, inputs)
  IN IF ~manual /\ isTrivialMove(level, c.in0, c.in1)
     THEN /\ levels' = [levels EXCEPT ![level] = @ \ c.in0, ![level + 1] = @ \cup c.in0]
          /\ UNCHANGED compaction
     ELSE /\ compaction' = [level |-> level, inputs |-> c.in0, parents |-> c.in1,
                            below |-> Below(level),
                            smallest |-> lastsequence]
          /\ UNCHANGED levels

(* BackgroundCompaction, when no memtable waits: a file moves down as it   *)
(* is, or DoCompactionWork begins and releases the mutex.                  *)
PickCompaction ==
  /\ compaction = NoCompaction /\ ~hasimm
  /\ \E level \in 0..(Top - 1) : \E f \in levels[level] :
       StartCompaction(level, PickInputs(level, f), FALSE)
  /\ UNCHANGED <<mem, imm, hasimm, lastsequence, nextfile, readVars, hist>>

CompactRange ==
  /\ compaction = NoCompaction /\ ~hasimm
  /\ \E level \in 0..(Top - 1), range \in ManualRanges :
       /\ RangeInputs(level, range[1], range[2]) # {}
       /\ StartCompaction(level, RangeInputs(level, range[1], range[2]), TRUE)
  /\ UNCHANGED <<mem, imm, hasimm, lastsequence, nextfile, readVars, hist>>
-----------------------------------------------------------------------------
(* Doing it                                                                *)

isBaseLevelUnchecked(c, key) == TRUE
isBaseLevelForKey(c, key) == \A f \in c.below : ~Overlaps(f, key, key)

(* The rule of DoCompactionWork: an entry is dropped if a newer one hides  *)
(* it from every snapshot, or if it is a deletion with nothing to delete.  *)
Dropped(c, e) ==
  \/ \E d \in Entries(c.inputs \cup c.parents) :
       d.key = e.key /\ d.seq > e.seq /\ d.seq <= c.smallest
  \/ e.del /\ e.seq <= c.smallest /\ isBaseLevelForKey(c, e.key)
Kept(c) == {e \in Entries(c.inputs \cup c.parents) : ~Dropped(c, e)}

(* The ways to cut the output into files: consecutive, none too large.     *)
(* ends are the last entries of the files.                                 *)
Cuts(kept) ==
  {ends \in SUBSET kept :
     /\ kept # {} => Last(kept) \in ends
     /\ \A e \in ends :
          Cardinality({d \in kept : /\ ~Before(e, d)
                                    /\ \A x \in ends : Before(x, e) => Before(x, d)})
            <= MaxFileEntries}
Output(kept, ends) ==
  {[number |-> nextfile + Cardinality({x \in ends : Before(x, e)}),
    entries |-> {d \in kept : /\ ~Before(e, d)
                              /\ \A x \in ends : Before(x, e) => Before(x, d)}] : e \in ends}

(* The tables change while a Get reads the version it found.               *)
Disturb == [r \in Reader |-> [get[r] EXCEPT !.disturbed = @ \/ get[r].pc \notin {"idle", "done"}]]

(* DoCompactionWork is through: its outputs replace its inputs, and the    *)
(* files of the inputs are deleted.                                        *)
InstallCompactionResults ==
  /\ compaction # NoCompaction
  /\ LET c == compaction
     IN \E ends \in Cuts(Kept(c)) :
          /\ levels' = [levels EXCEPT
               ![c.level] = @ \ c.inputs,
               ![c.level + 1] = (@ \ c.parents) \cup Output(Kept(c), ends)]
          /\ nextfile' = nextfile + Cardinality(ends)
  /\ compaction' = NoCompaction
  /\ get' = Disturb
  /\ UNCHANGED <<mem, imm, hasimm, lastsequence, ngets, hist>>

(* PickLevelForMemTableOutput: as deep as nothing overlaps on the way and  *)
(* not too much lies below.                                                *)
FreeLevel(l, lo, hi) ==
  /\ Overlapping(levels[l], lo, hi) = {}
  /\ l + 1 <= Top => Size(Overlapping(levels[l + 1], lo, hi)) <= GrandparentLimit
PickDeepest(lo, hi) == Max({l \in 0..MaxMemLevel : l = 0 \/ FreeLevel(l, lo, hi)})
PickLevelForMemTableOutput(lo, hi) ==
  IF Overlapping(levels[0], lo, hi) # {} THEN 0
  ELSE Max({l \in 0..MaxMemLevel : \A k \in 1..l : FreeLevel(k, lo, hi)})

(* WriteLevel0Table: an empty memtable makes no file.                      *)
WriteLevel0Table ==
  IF imm = {} THEN UNCHANGED <<levels, nextfile>>
  ELSE /\ levels' = [levels EXCEPT
            ![PickLevelForMemTableOutput(First(imm).key, Last(imm).key)] =
               @ \cup {[number |-> nextfile, entries |-> imm]}]
       /\ nextfile' = nextfile + 1

(* CompactMemTable: by BackgroundCompaction, or from within a compaction.  *)
CompactMemTable ==
  /\ hasimm
  /\ WriteLevel0Table
  /\ imm' = {} /\ hasimm' = FALSE
  /\ get' = Disturb
  /\ UNCHANGED <<mem, lastsequence, compaction, ngets, hist>>
-----------------------------------------------------------------------------
(* Writes                                                                  *)

Write ==
  /\ lastsequence < MaxSequence
  /\ \E k \in Key, del \in Types :
       LET e == [key |-> k, seq |-> lastsequence + 1, del |-> del]
       IN mem' = mem \cup {e} /\ hist' = hist \cup {e}
  /\ lastsequence' = lastsequence + 1
  /\ UNCHANGED <<imm, hasimm, levels, nextfile, compaction, readVars>>

(* MakeRoomForWrite: mem is full, or a manual compaction wants it flushed. *)
SwitchMem ==
  /\ ~hasimm
  /\ imm' = mem /\ hasimm' = TRUE /\ mem' = {}
  /\ UNCHANGED <<levels, lastsequence, nextfile, compaction, readVars, hist>>
-----------------------------------------------------------------------------
(* Reading                                                                 *)

(* Seek in sorted entries: the first not before (key, snap) and, as        *)
(* MemTable::Get and SaveValue check, only if it has the key.              *)
Find(entries, key, snap) ==
  LET from == {e \in entries : ~Before(e, [key |-> key, seq |-> snap])}
  IN IF from # {} /\ First(from).key = key THEN First(from) ELSE None

(* Version::Get, the files of a level: in level 0 those whose range has    *)
(* the key, newest first; below it the one FindFile returns.               *)
OldestFile(files) == CHOOSE f \in files : \A g \in files : f.number <= g.number
NewestFile(files) == CHOOSE f \in files : \A g \in files : g.number <= f.number
FindFile(files, key, snap) ==
  LET behind == {f \in files : ~Before(Largest(f), [key |-> key, seq |-> snap])}
  IN {f \in behind : /\ \A g \in behind : ~Before(Smallest(g), Smallest(f))
                     /\ Smallest(f).key <= key}
Searched(version, l, key, snap) ==
  IF l = 0 THEN Overlapping(version[0], key, key) ELSE FindFile(version[l], key, snap)
Hits(version, l, key, snap) ==
  {f \in Searched(version, l, key, snap) : Find(f.entries, key, snap) # None}

VersionGet(version, key, snap) ==
  LET hit == {l \in Level : Hits(version, l, key, snap) # {}}
  IN IF hit = {} THEN None
     ELSE Find(NewestFile(Hits(version, Min(hit), key, snap)).entries, key, snap)

(* The files it opens; one that is gone makes it fail.                     *)
Opened(version, key, snap) ==
  LET hit == {l \in Level : Hits(version, l, key, snap) # {}}
      last == IF hit = {} THEN Top ELSE Min(hit)
      all == UNION {Searched(version, l, key, snap) : l \in 0..last}
      newest == NewestFile(Hits(version, last, key, snap)).number
  IN {f.number : f \in {f \in all : hit # {} /\ last = 0 => f.number >= newest}}
OnDisk == {f.number : f \in UNION {levels[l] : l \in Level}}

(* What a read of key at sequence number s should find.                    *)
Newest(entries, key, s) ==
  LET old == {e \in entries : e.key = key /\ e.seq <= s}
  IN IF old = {} THEN None ELSE First(old)
Value(e) == IF e.del THEN 0 ELSE e.seq

Running(r, pc) == get[r].pc = pc
Finish(r, e) ==
  LET g == get[r]
  IN get' = [get EXCEPT ![r] = [NoGet EXCEPT
               !.pc = "done", !.old = g.old, !.disturbed = g.disturbed,
               !.wrong = Value(e) # Value(Newest(hist, g.key, g.snap))]]
Step(r, pc) == get' = [get EXCEPT ![r].pc = pc]
OnlyGet == UNCHANGED <<mem, imm, hasimm, levels, lastsequence, nextfile,
                       compaction, ngets, hist>>

(* DB::Get under the mutex: the sequence number, the last or that of a     *)
(* snapshot, and the version.  A snapshot is no more than the number:      *)
(* NewSnapshot does not enter it in the list that compactions look at.     *)
GetStart(r) ==
  /\ get[r].pc \in {"idle", "done"} /\ ngets < MaxGets /\ lastsequence <= MaxGetSequence
  /\ ngets' = ngets + 1
  /\ \E k \in Key, s \in {s \in 0..lastsequence : lastsequence - s <= SnapshotAge} :
       get' = [get EXCEPT ![r] = [NoGet EXCEPT !.pc = "mem", !.key = k, !.snap = s,
                                !.version = levels, !.old = s < lastsequence]]
  /\ UNCHANGED <<mem, imm, hasimm, levels, lastsequence, nextfile,
                 compaction, hist>>

(* Without it: mem, then imm if it is there, and still there when used,    *)
(* then the version.                                                       *)
GetMemThenVersion(r) ==
  /\ Running(r, "mem")
  /\ LET e == Find(mem, get[r].key, get[r].snap)
     IN IF e # None THEN Finish(r, e) ELSE Step(r, "version")
  /\ OnlyGet
GetMem(r) ==
  /\ Running(r, "mem")
  /\ LET e == Find(mem, get[r].key, get[r].snap)
     IN IF e # None THEN Finish(r, e) ELSE Step(r, "imm")
  /\ OnlyGet

GetImm(r) ==
  /\ Running(r, "imm")
  /\ Step(r, IF hasimm THEN "immget" ELSE "version")
  /\ OnlyGet

GetImmUse(r) ==
  /\ Running(r, "immget")
  /\ LET e == Find(imm, get[r].key, get[r].snap)
     IN CASE ~hasimm -> Step(r, "crashed")
          [] hasimm /\ e # None -> Finish(r, e)
          [] OTHER -> Step(r, "version")
  /\ OnlyGet

GetVersion(r) ==
  /\ Running(r, "version")
  /\ LET g == get[r]
     IN IF Opened(g.version, g.key, g.snap) \subseteq OnDisk
        THEN Finish(r, VersionGet(g.version, g.key, g.snap))
        ELSE Step(r, "failed")
  /\ OnlyGet
-----------------------------------------------------------------------------
GetStep(r) == GetStart(r) \/ GetMem(r) \/ GetImm(r) \/ GetImmUse(r) \/ GetVersion(r)
Next == \/ Write \/ SwitchMem
        \/ PickCompaction \/ CompactRange \/ InstallCompactionResults \/ CompactMemTable
        \/ \E r \in Reader : GetStep(r)
Spec == Init /\ [][Next]_vars
-----------------------------------------------------------------------------
(* Properties                                                              *)

(* MaybeAddFile asserts it: the files of a level other than 0 do not       *)
(* overlap in internal keys, although memtables are flushed into levels    *)
(* that a compaction is about to write to.                                 *)
LevelsDisjoint ==
  \A l \in 1..Top : \A f, g \in levels[l] :
    f # g => Before(Largest(f), Smallest(g)) \/ Before(Largest(g), Smallest(f))

(* Version::Get relies on it: "We can search level-by-level since entries  *)
(* never hop across levels."  Of two entries of a key the newer one is     *)
(* nearer: memtable, immutable memtable, level 0 by file number, levels.   *)
NearerIsNewer ==
  LET newer(S, T) == \A d \in S, e \in T : d.key = e.key => d.seq > e.seq
      under(l) == Entries(UNION {levels[k] : k \in (l + 1)..Top})
  IN /\ newer(mem, imm \cup Entries(levels[0]) \cup under(0))
     /\ newer(imm, Entries(levels[0]) \cup under(0))
     /\ \A f, g \in levels[0] : f.number > g.number => newer(f.entries, g.entries)
     /\ \A l \in Level : newer(Entries(levels[l]), under(l))

(* Flushes and compactions never change what can be read: both the search  *)
(* of Get and the merge of an iterator find the newest value.              *)
ReadsNewest ==
  \A k \in Key :
    LET s == lastsequence
        truth == Value(Newest(hist, k, s))
        tables == Entries(UNION {levels[l] : l \in Level})
        found == {e \in {Find(mem, k, s), Find(imm, k, s), VersionGet(levels, k, s)} : e # None}
    IN /\ Value(Newest(mem \cup imm \cup tables, k, s)) = truth
       /\ (IF found = {} THEN 0 ELSE Value(First(found))) = truth

(* A Get during which no flush and no compaction was installed returns the *)
(* newest value, though mem and imm may be exchanged and files moved down  *)
(* a level under it.                                                       *)
QuietGet ==
  \A r \in Reader :
    get[r].pc \in {"crashed", "failed"} \/ (get[r].wrong /\ ~get[r].old) => get[r].disturbed

(* db.h: "If the database Contains an entry for "key" store the            *)
(* corresponding value in *value and return OK."                           *)
GetFinds == \A r \in Reader : get[r].pc \notin {"crashed", "failed"} /\ ~get[r].wrong
=============================================================================
