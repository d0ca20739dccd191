--------------------------- MODULE DBWriteProofs ---------------------------
(***************************************************************************)
(* Proofs about DBWrite for any number of writers, calls, group sizes and  *)
(* failures: the writer queue and the background thread; then what calls   *)
(* log, insert and report (sequence numbers, acknowledged writes, sync     *)
(* writes and failed writes).                                              *)
(***************************************************************************)
EXTENDS DBWrite, FiniteSetTheorems, SequenceTheorems, TLAPS

(* The number of batches among the first n writers is a natural number.    *)
LEMMA HasBatchCardinality ==
  ASSUME NEW n \in Nat
  PROVE  Cardinality(HasBatch(n)) \in Nat
<1>1. IsFiniteSet(1..n)
  BY FS_Interval
<1>2. IsFiniteSet(HasBatch(n))
  BY <1>1, FS_Subset DEF HasBatch
<1> QED
  BY <1>2, FS_CardinalityType

(* What pop_front leaves of a queue after n calls: its suffix.             *)
LEMMA SuffixProperties ==
  ASSUME NEW S, NEW q \in Seq(S), NEW n \in Nat, n <= Len(q)
  PROVE  /\ SubSeq(q, n + 1, Len(q)) \in Seq(S)
         /\ Len(SubSeq(q, n + 1, Len(q))) = Len(q) - n
         /\ \A i \in 1..(Len(q) - n) :
              SubSeq(q, n + 1, Len(q))[i] = q[n + i] /\ n + i \in 1..Len(q)
<1>1. PICK k \in Nat : k = Len(q)
  BY LenProperties
<1>2. n <= k
  BY <1>1
<1>3. n + 1 \in Int /\ k \in Int /\ k - (n + 1) + 1 = k - n
  BY <1>1
<1>4. ~(n + 1 <= k) => k - n = 0
  BY <1>2
<1>5. \A i \in 1..(k - n) : (n + 1) + i - 1 = n + i /\ n + i \in 1..k
  BY <1>2
<1>6. \A i \in (n + 1)..k : q[i] \in S
  BY <1>1, ElementOfSeq
<1>7. /\ SubSeq(q, n + 1, k) \in Seq(S)
      /\ Len(SubSeq(q, n + 1, k)) = IF n + 1 <= k THEN k - (n + 1) + 1 ELSE 0
      /\ \A i \in 1..(k - (n + 1) + 1) : SubSeq(q, n + 1, k)[i] = q[(n + 1) + i - 1]
  BY <1>3, <1>6, SubSeqProperties
<1> QED
  BY <1>1, <1>3, <1>4, <1>5, <1>7

(* notify_all moves waiting threads, each to a step of its own kind.       *)
LEMMA NotifyAllType ==
  ASSUME NEW p, PcOK(p)
  PROVE  PcOK(NotifyAll(p))
BY DEF PcOK, NotifyAll, Thread, WriterPC, MainPC, BgPC

(* A writer, the owner and the background thread move among their own      *)
(* program counters.                                                       *)
LEMMA MoveWriter ==
  ASSUME NEW p, PcOK(p), NEW t \in Writer, NEW v \in WriterPC
  PROVE  PcOK([p EXCEPT ![t] = v])
BY ConstantsAssumption DEF PcOK, Thread

LEMMA MoveMain ==
  ASSUME NEW p, PcOK(p), NEW v \in MainPC
  PROVE  PcOK([p EXCEPT ![Main] = v])
BY ConstantsAssumption DEF PcOK, Thread

LEMMA MoveBG ==
  ASSUME NEW p, PcOK(p), NEW v \in BgPC
  PROVE  PcOK([p EXCEPT ![BG] = v])
BY ConstantsAssumption DEF PcOK, Thread

LEMMA IdleWriterType == IdleWriter \in WriterRecord
BY DEF IdleWriter, WriterRecord, Entry, Batch

(* The assignments Write makes to its locals keep their types.             *)
LEMMA AssignType ==
  ASSUME NEW r \in WriterRecord
  PROVE  /\ [r EXCEPT !.status = "error"] \in WriterRecord
         /\ [r EXCEPT !.status = "error", !.syncerror = TRUE] \in WriterRecord
         /\ [r EXCEPT !.force = FALSE] \in WriterRecord
         /\ [r EXCEPT !.allowdelay = FALSE] \in WriterRecord
BY DEF WriterRecord

LEMMA AssignStatusType ==
  ASSUME NEW r \in WriterRecord, NEW q \in WriterRecord
  PROVE  [r EXCEPT !.done = TRUE, !.status = q.status] \in WriterRecord
BY DEF WriterRecord

LEMMA AssignGroupType ==
  ASSUME NEW r \in WriterRecord, NEW u \in SUBSET Entry, NEW c \in Nat, NEW n \in Nat
  PROVE  [r EXCEPT !.updates = u, !.count = c, !.last = n] \in WriterRecord
BY DEF WriterRecord

(* The merged batch of a group of writers is a set of entries.             *)
LEMMA UpdatesType ==
  ASSUME TypeOK, NEW n \in 1..Len(writers)
  PROVE  Updates(n) \subseteq Entry
<1> SUFFICES ASSUME NEW i \in HasBatch(n)
             PROVE  [seq |-> lastsequence + Cardinality(HasBatch(i)),
                     batch |-> w[writers[i]].batch] \in Entry
  BY DEF Updates
<1>1. i \in 1..Len(writers) /\ i \in Nat /\ w[writers[i]].batch # Nil
  BY DEF HasBatch, TypeOK, ThreadsOK
<1>2. writers[i] \in Writer
  BY <1>1 DEF TypeOK, ThreadsOK
<1>3. w[writers[i]].batch \in Batch
  BY <1>1, <1>2 DEF TypeOK, LocalsOK, WriterRecord
<1>4. lastsequence + Cardinality(HasBatch(i)) \in Nat
  <2>1. Cardinality(HasBatch(i)) \in Nat
    BY <1>1, HasBatchCardinality
  <2> QED
    BY <2>1 DEF TypeOK, DataOK
<1> QED
  BY <1>3, <1>4 DEF Entry

(* The fault counter stays within its bound.                               *)
LEMMA FaultsType ==
  ASSUME HistoryOK, NEW op, Succeeds \/ Fails(op)
  PROVE  faults' \in 0..MaxFaults
BY ConstantsAssumption DEF HistoryOK, Succeeds, Fails

(* The state DB::Open leaves has the declared types.                       *)
LEMMA InitType == Init => TypeOK
<1> SUFFICES ASSUME Init PROVE TypeOK
  OBVIOUS
<1>1. ThreadsOK
  BY ConstantsAssumption DEF Init, ThreadsOK, PcOK, Thread, WriterPC, MainPC, BgPC
<1>2. LocalsOK
  BY IdleWriterType DEF Init, LocalsOK
<1>3. DataOK
  BY ConstantsAssumption DEF Init, DataOK
<1>4. FlagsOK
  <2>1. bgscheduled = TRUE \/ bgscheduled = FALSE
    <3>1. CASE level0 >= CompactionTrigger
      BY <3>1 DEF Init
    <3>2. CASE ~(level0 >= CompactionTrigger)
      BY <3>2 DEF Init
    <3> QED
      BY <3>1, <3>2
  <2>2. bgqueue = <<"callback">> \/ bgqueue = << >>
    BY <2>1 DEF Init
  <2>3. <<"callback">> \in Seq({"callback", "empty"}) /\ << >> \in Seq({"callback", "empty"})
    OBVIOUS
  <2> QED
    BY <2>1, <2>2, <2>3 DEF Init, FlagsOK
<1>5. HistoryOK
  BY ConstantsAssumption DEF Init, HistoryOK, Batch
<1> QED
  BY <1>1, <1>2, <1>3, <1>4, <1>5 DEF TypeOK

(* Every step of every thread preserves the types.                         *)
LEMMA StepType == TypeOK /\ [Next]_vars => TypeOK'
<1> SUFFICES ASSUME TypeOK, [Next]_vars PROVE TypeOK'
  OBVIOUS
<1> USE DEF TypeOK
<1>1. ASSUME NEW t \in Writer, NEW b \in Batch \cup {Nil}, NEW sync \in BOOLEAN,
             Enqueue(t, b, sync)
      PROVE  TypeOK'
  <2>1. ThreadsOK'
    <3>1. PICK v \in WriterPC : pc' = [pc EXCEPT ![t] = v]
      BY <1>1 DEF Enqueue, WriterPC
    <3>2. PcOK(pc')
      BY <3>1, MoveWriter DEF ThreadsOK
    <3> QED
      BY <1>1, <3>2 DEF Enqueue, ThreadsOK, Thread, queueVars, bgVars
  <2>2. LocalsOK'
    BY <1>1 DEF Enqueue, LocalsOK, WriterRecord, IdleWriter, Entry
  <2>3. HistoryOK'
    BY <1>1, ConstantsAssumption DEF Enqueue, HistoryOK, Batch
  <2>4. DataOK' /\ FlagsOK'
    BY <1>1 DEF Enqueue, DataOK, FlagsOK, queueVars, dataVars, bgVars, histVars
  <2> QED
    BY <2>1, <2>2, <2>3, <2>4
<1>2. ASSUME NEW t \in Writer, Wake(t) PROVE TypeOK'
  <2>1. ThreadsOK'
    <3>1. PICK v \in WriterPC : pc' = [pc EXCEPT ![t] = v]
      BY <1>2 DEF Wake, WriterPC, AfterWrite
    <3>2. PcOK(pc')
      BY <3>1, MoveWriter DEF ThreadsOK
    <3> QED
      BY <1>2, <3>2 DEF Wake, ThreadsOK, Thread, queueVars, bgVars
  <2>2. LocalsOK'
    BY <1>2, IdleWriterType DEF Wake, LocalsOK, LocalsAfterWrite
  <2>3. HistoryOK'
    BY <1>2 DEF Wake, HistoryOK, LocalsOK, WriterRecord, Returned
  <2>4. DataOK' /\ FlagsOK'
    BY <1>2 DEF Wake, DataOK, FlagsOK, queueVars, dataVars, bgVars, histVars
  <2> QED
    BY <2>1, <2>2, <2>3, <2>4
<1>3. ASSUME NEW t \in Writer, RoomError(t) PROVE TypeOK'
  <2>1. ThreadsOK'
    BY <1>3, MoveWriter DEF RoomError, ThreadsOK, Thread, bgVars, WriterPC
  <2>2. LocalsOK'
    BY <1>3, AssignType DEF RoomError, LocalsOK
  <2>3. DataOK' /\ FlagsOK' /\ HistoryOK'
    BY <1>3 DEF RoomError, DataOK, FlagsOK, HistoryOK, queueVars, dataVars, bgVars, histVars
  <2> QED
    BY <2>1, <2>2, <2>3
<1>4. ASSUME NEW t \in Writer, RoomDelay(t) PROVE TypeOK'
  <2>1. ThreadsOK'
    BY <1>4, MoveWriter DEF RoomDelay, ThreadsOK, Thread, bgVars, WriterPC
  <2>2. LocalsOK'
    BY <1>4, AssignType DEF RoomDelay, LocalsOK
  <2>3. DataOK' /\ FlagsOK' /\ HistoryOK'
    BY <1>4 DEF RoomDelay, DataOK, FlagsOK, HistoryOK, queueVars, dataVars, bgVars, histVars
  <2> QED
    BY <2>1, <2>2, <2>3
<1>5. ASSUME NEW t \in Writer, RoomFound(t) PROVE TypeOK'
  <2>1. ThreadsOK'
    BY <1>5, MoveWriter DEF RoomFound, ThreadsOK, Thread, bgVars, queueVars, WriterPC
  <2>2. LocalsOK' /\ DataOK' /\ FlagsOK' /\ HistoryOK'
    BY <1>5 DEF RoomFound, LocalsOK, DataOK, FlagsOK, HistoryOK, queueVars, dataVars, bgVars, histVars
  <2> QED
    BY <2>1, <2>2
<1>6. ASSUME NEW t \in Writer, RoomWait(t) PROVE TypeOK'
  <2>1. ThreadsOK'
    BY <1>6, MoveWriter DEF RoomWait, ThreadsOK, Thread, bgVars, queueVars, WriterPC
  <2>2. LocalsOK' /\ DataOK' /\ FlagsOK' /\ HistoryOK'
    BY <1>6 DEF RoomWait, LocalsOK, DataOK, FlagsOK, HistoryOK, queueVars, dataVars, bgVars, histVars
  <2> QED
    BY <2>1, <2>2
<1>7. ASSUME NEW t \in Writer, RoomSwitch(t) PROVE TypeOK'
  <2>1. ThreadsOK'
    <3>1. pc' = pc \/ \E v \in WriterPC : pc' = [pc EXCEPT ![t] = v]
      BY <1>7 DEF RoomSwitch, WriterPC
    <3>2. PcOK(pc')
      BY <3>1, MoveWriter DEF ThreadsOK
    <3> QED
      BY <1>7, <3>2 DEF RoomSwitch, ThreadsOK, Thread, queueVars, bgVars
  <2>2. LocalsOK'
    BY <1>7, AssignType, ZenonT(40) DEF RoomSwitch, LocalsOK
  <2>3. DataOK'
    <3>1. hasimm' \in BOOLEAN
      BY <1>7 DEF RoomSwitch, DataOK
    <3>2. mem' \subseteq Entry /\ imm' \subseteq Entry
      BY <1>7 DEF RoomSwitch, DataOK
    <3>3. logfilenumber' \in Nat
      <4>1. logfilenumber' \in {logfilenumber, logfilenumber + 1}
        BY <1>7 DEF RoomSwitch
      <4> QED
        BY <4>1 DEF DataOK
    <3> QED
      BY <1>7, <3>1, <3>2, <3>3 DEF RoomSwitch, DataOK
  <2>4. FlagsOK'
    BY <1>7 DEF RoomSwitch, FlagsOK
  <2>5. HistoryOK'
    <3>1. Succeeds \/ Fails("newlog")
      BY <1>7 DEF RoomSwitch
    <3>2. faults' \in 0..MaxFaults
      BY <3>1, FaultsType
    <3> QED
      BY <1>7, <3>2 DEF RoomSwitch, HistoryOK, histVars
  <2> QED
    BY <2>1, <2>2, <2>3, <2>4, <2>5
<1>8. ASSUME NEW t \in Writer, RoomAgain(t) PROVE TypeOK'
  <2>1. ThreadsOK'
    BY <1>8, MoveWriter DEF RoomAgain, ThreadsOK, Thread, bgVars, queueVars, WriterPC
  <2>2. LocalsOK' /\ DataOK' /\ FlagsOK' /\ HistoryOK'
    BY <1>8 DEF RoomAgain, LocalsOK, DataOK, FlagsOK, HistoryOK, queueVars, dataVars, bgVars, histVars
  <2> QED
    BY <2>1, <2>2
<1>9. ASSUME NEW t \in Writer, BuildBatchGroup(t) PROVE TypeOK'
  <2>1. ThreadsOK'
    <3>1. pc' = pc \/ \E v \in WriterPC : pc' = [pc EXCEPT ![t] = v]
      BY <1>9 DEF BuildBatchGroup, WriterPC
    <3>2. PcOK(pc')
      BY <3>1, MoveWriter DEF ThreadsOK
    <3> QED
      BY <1>9, <3>2 DEF BuildBatchGroup, ThreadsOK, Thread, queueVars, bgVars
  <2>2. LocalsOK'
    <3>1. CASE w' = w
      BY <3>1 DEF LocalsOK
    <3>2. CASE w' # w
      <4>1. PICK n \in 1..Len(writers) :
              w' = [w EXCEPT ![t].updates = Updates(n),
                             ![t].count = Cardinality(HasBatch(n)),
                             ![t].last = n]
        BY <1>9, <3>2 DEF BuildBatchGroup
      <4>2. n \in Nat
        BY DEF ThreadsOK
      <4>3. Cardinality(HasBatch(n)) \in Nat /\ Updates(n) \in SUBSET Entry
        BY <4>2, HasBatchCardinality, UpdatesType
      <4>4. [w[t] EXCEPT !.updates = Updates(n), !.count = Cardinality(HasBatch(n)),
                         !.last = n] \in WriterRecord
        BY <4>2, <4>3, AssignGroupType DEF LocalsOK
      <4> QED
        BY <4>1, <4>4 DEF LocalsOK
    <3> QED
      BY <3>1, <3>2
  <2>3. FlagsOK'
    BY <1>9 DEF BuildBatchGroup, FlagsOK, bgVars
  <2>4. DataOK' /\ HistoryOK'
    BY <1>9 DEF BuildBatchGroup, DataOK, HistoryOK, queueVars, dataVars, bgVars, histVars
  <2> QED
    BY <2>1, <2>2, <2>3, <2>4
<1>10. ASSUME NEW t \in Writer, AddRecord(t) PROVE TypeOK'
  <2>1. ThreadsOK'
    <3>1. PICK v \in WriterPC : pc' = [pc EXCEPT ![t] = v]
      BY <1>10 DEF AddRecord, WriterPC, AfterLog
    <3>2. PcOK(pc')
      BY <3>1, MoveWriter DEF ThreadsOK
    <3> QED
      BY <1>10, <3>2 DEF AddRecord, ThreadsOK, Thread, queueVars, bgVars
  <2>2. LocalsOK'
    BY <1>10, AssignType DEF AddRecord, LocalsOK
  <2>3. DataOK'
    <3>1. \A e \in w[t].updates : e.seq \in Nat /\ e.batch \in Batch
      BY DEF LocalsOK, WriterRecord, Entry
    <3>2. \A e \in w[t].updates : [seq |-> e.seq, batch |-> e.batch,
             file |-> logfilenumber, synced |-> FALSE] \in LogEntry
      BY <3>1 DEF LogEntry, DataOK
    <3>3. log' \subseteq LogEntry
      <4>1. log' = log \/ log' = log \cup
              {[seq |-> e.seq, batch |-> e.batch, file |-> logfilenumber,
                synced |-> FALSE] : e \in w[t].updates}
        BY <1>10 DEF AddRecord
      <4> QED
        BY <4>1, <3>2 DEF DataOK
    <3> QED
      BY <1>10, <3>3 DEF AddRecord, DataOK
  <2>4. HistoryOK'
    <3>1. Succeeds \/ Fails("append")
      BY <1>10 DEF AddRecord
    <3>2. faults' \in 0..MaxFaults
      BY <3>1, FaultsType
    <3> QED
      BY <1>10, <3>2 DEF AddRecord, HistoryOK, histVars
  <2>5. FlagsOK'
    BY <1>10 DEF AddRecord, FlagsOK, queueVars, dataVars, bgVars, histVars
  <2> QED
    BY <2>1, <2>2, <2>3, <2>4, <2>5
<1>11. ASSUME NEW t \in Writer, SyncLog(t) PROVE TypeOK'
  <2>1. ThreadsOK'
    <3>1. PICK v \in WriterPC : pc' = [pc EXCEPT ![t] = v]
      BY <1>11 DEF SyncLog, WriterPC, AfterSync
    <3>2. PcOK(pc')
      BY <3>1, MoveWriter DEF ThreadsOK
    <3> QED
      BY <1>11, <3>2 DEF SyncLog, ThreadsOK, Thread, queueVars, bgVars
  <2>2. LocalsOK'
    BY <1>11, AssignType, ZenonT(40) DEF SyncLog, LocalsOK
  <2>3. DataOK'
    BY <1>11 DEF SyncLog, DataOK, LogEntry
  <2>4. HistoryOK'
    <3>1. Succeeds \/ Fails("sync")
      BY <1>11 DEF SyncLog
    <3>2. faults' \in 0..MaxFaults
      BY <3>1, FaultsType
    <3> QED
      BY <1>11, <3>2 DEF SyncLog, HistoryOK, histVars
  <2>5. FlagsOK'
    BY <1>11 DEF SyncLog, FlagsOK, queueVars, dataVars, bgVars, histVars
  <2> QED
    BY <2>1, <2>2, <2>3, <2>4, <2>5
<1>12. ASSUME NEW t \in Writer, InsertInto(t) PROVE TypeOK'
  <2>1. ThreadsOK'
    BY <1>12, MoveWriter DEF InsertInto, ThreadsOK, Thread, bgVars, queueVars, WriterPC
  <2>2. DataOK'
    BY <1>12 DEF InsertInto, DataOK, LocalsOK, WriterRecord
  <2>3. LocalsOK' /\ FlagsOK' /\ HistoryOK'
    BY <1>12 DEF InsertInto, LocalsOK, FlagsOK, HistoryOK, queueVars, dataVars, bgVars, histVars
  <2> QED
    BY <2>1, <2>2, <2>3
<1>13. ASSUME NEW t \in Writer, Relock(t) PROVE TypeOK'
  <2>1. ThreadsOK'
    BY <1>13, MoveWriter, NotifyAllType DEF Relock, ThreadsOK, Thread, AfterError, bgVars, queueVars, WriterPC
  <2>2. DataOK'
    BY <1>13 DEF Relock, DataOK, LocalsOK, WriterRecord, SequenceAfter
  <2>3. FlagsOK'
    BY <1>13 DEF Relock, FlagsOK, LocalsOK, WriterRecord, bgVars
  <2>4. LocalsOK' /\ HistoryOK'
    BY <1>13 DEF Relock, LocalsOK, HistoryOK, queueVars, dataVars, bgVars, histVars
  <2> QED
    BY <2>1, <2>2, <2>3, <2>4
<1>14. ASSUME NEW t \in Writer, Finish(t) PROVE TypeOK'
  <2>1. ThreadsOK'
    <3>1. w[t].last \in Nat /\ AfterWrite(t, w[t].status) \in WriterPC
      BY DEF LocalsOK, WriterRecord, AfterWrite, WriterPC
    <3>2. \A i \in DOMAIN writers : writers[i] \in Writer
      BY DEF ThreadsOK
    <3>3. NextHead(w[t].last) \subseteq Writer
      BY <3>1, <3>2 DEF NextHead, ThreadsOK
    <3>4. PcOK(pc')
      <4>1. \A x \in Thread : \/ x \in Writer /\ pc'[x] \in WriterPC
                              \/ pc'[x] = pc[x]
        BY <1>14, <3>1, <3>2, <3>3 DEF Finish, WriterPC
      <4>2. pc' = [x \in Thread |-> pc'[x]]
        BY <1>14 DEF Finish
      <4> QED
        BY <4>1, <4>2, ConstantsAssumption DEF ThreadsOK, PcOK, Thread
    <3>5. writers' \in Seq(Writer)
      <4>1. writers' = SubSeq(writers, w[t].last + 1, Len(writers))
        BY <1>14 DEF Finish
      <4> QED
        BY <4>1, <3>1 DEF ThreadsOK
    <3> QED
      BY <1>14, <3>4, <3>5 DEF Finish, ThreadsOK, Thread, bgVars
  <2>2. LocalsOK'
    BY <1>14, IdleWriterType, AssignStatusType DEF Finish, LocalsOK, LocalsAfterWrite
  <2>3. HistoryOK'
    BY <1>14 DEF Finish, HistoryOK, LocalsOK, WriterRecord, Returned
  <2>4. DataOK' /\ FlagsOK'
    BY <1>14 DEF Finish, DataOK, FlagsOK, queueVars, dataVars, bgVars, histVars
  <2> QED
    BY <2>1, <2>2, <2>3, <2>4
<1>15. ASSUME NEW t \in Writer, ImmCheck(t) PROVE TypeOK'
  <2>1. ThreadsOK'
    <3>1. PICK v \in WriterPC : pc' = [pc EXCEPT ![t] = v]
      BY <1>15 DEF ImmCheck, WriterPC
    <3>2. PcOK(pc')
      BY <3>1, MoveWriter DEF ThreadsOK
    <3> QED
      BY <1>15, <3>2 DEF ImmCheck, ThreadsOK, Thread, queueVars, bgVars
  <2>2. LocalsOK'
    BY <1>15, IdleWriterType DEF ImmCheck, LocalsOK
  <2>3. DataOK' /\ FlagsOK' /\ HistoryOK'
    BY <1>15 DEF ImmCheck, DataOK, FlagsOK, HistoryOK, queueVars, dataVars, bgVars, histVars
  <2> QED
    BY <2>1, <2>2, <2>3
<1>16. ASSUME NEW t \in Writer \cup {BG}, Schedule(t) PROVE TypeOK'
  <2>1. ThreadsOK'
    <3>1. CASE t = BG
      <4>1. PcOK(pc')
        BY <1>16, <3>1, NotifyAllType, MoveBG DEF Schedule, ThreadsOK, BgPC
      <4> QED
        BY <1>16, <3>1, <4>1 DEF Schedule, ThreadsOK, Thread, queueVars
    <3>2. CASE t # BG
      <4>1. PcOK([pc EXCEPT ![t] = "room"])
        BY <3>2, MoveWriter DEF ThreadsOK, WriterPC
      <4>2. PICK v \in BgPC : pc' = [[pc EXCEPT ![t] = "room"] EXCEPT ![BG] = v]
        BY <1>16, <3>2 DEF Schedule, ThreadsOK, PcOK, BgPC
      <4>3. PcOK(pc')
        BY <4>1, <4>2, MoveBG
      <4> QED
        BY <1>16, <3>2, <4>3 DEF Schedule, ThreadsOK, Thread, queueVars
    <3> QED
      BY <3>1, <3>2
  <2>2. FlagsOK'
    BY <1>16 DEF Schedule, FlagsOK
  <2>3. LocalsOK' /\ DataOK' /\ HistoryOK'
    BY <1>16 DEF Schedule, LocalsOK, DataOK, HistoryOK, queueVars, dataVars, bgVars, histVars
  <2> QED
    BY <2>1, <2>2, <2>3
<1>17. CASE CloseDB
  <2>1. ThreadsOK'
    BY <1>17, MoveMain DEF CloseDB, ThreadsOK, Thread, bgVars, queueVars, MainPC
  <2>2. LocalsOK' /\ DataOK' /\ FlagsOK' /\ HistoryOK'
    BY <1>17 DEF CloseDB, LocalsOK, DataOK, FlagsOK, HistoryOK, queueVars, dataVars, bgVars, histVars
  <2> QED
    BY <2>1, <2>2
<1>18. CASE ExitSchedule
  <2>1. ThreadsOK'
    BY <1>18, MoveMain DEF ExitSchedule, ThreadsOK, Thread, queueVars, MainPC
  <2>2. FlagsOK'
    BY <1>18 DEF ExitSchedule, FlagsOK
  <2>3. LocalsOK' /\ DataOK' /\ HistoryOK'
    BY <1>18 DEF ExitSchedule, LocalsOK, DataOK, HistoryOK, queueVars, dataVars, bgVars, histVars
  <2> QED
    BY <2>1, <2>2, <2>3
<1>19. CASE Join
  <2>1. ThreadsOK'
    BY <1>19, MoveMain DEF Join, ThreadsOK, Thread, bgVars, queueVars, MainPC
  <2>2. LocalsOK' /\ DataOK' /\ FlagsOK' /\ HistoryOK'
    BY <1>19 DEF Join, LocalsOK, DataOK, FlagsOK, HistoryOK, queueVars, dataVars, bgVars, histVars
  <2> QED
    BY <2>1, <2>2
<1>20. CASE BgTake
  <2>1. ThreadsOK'
    BY <1>20, MoveBG DEF BgTake, ThreadsOK, Thread, queueVars, BgPC
  <2>2. FlagsOK'
    BY <1>20 DEF BgTake, FlagsOK
  <2>3. LocalsOK' /\ DataOK' /\ HistoryOK'
    BY <1>20 DEF BgTake, LocalsOK, DataOK, HistoryOK, queueVars, dataVars, bgVars, histVars
  <2> QED
    BY <2>1, <2>2, <2>3
<1>21. CASE BackgroundCallback
  <2>1. ThreadsOK'
    BY <1>21, MoveBG DEF BackgroundCallback, ThreadsOK, Thread, bgVars, queueVars, BgPC
  <2>2. LocalsOK' /\ DataOK' /\ FlagsOK' /\ HistoryOK'
    BY <1>21 DEF BackgroundCallback, LocalsOK, DataOK, FlagsOK, HistoryOK, queueVars, dataVars, bgVars, histVars
  <2> QED
    BY <2>1, <2>2
<1>22. CASE BgFlush
  <2>1. ThreadsOK'
    BY <1>22, MoveBG, NotifyAllType DEF BgFlush, ThreadsOK, Thread, CompactMemTable, AfterError, bgVars, queueVars, BgPC
  <2>2. DataOK'
    <3>1. hasimm' \in BOOLEAN
      BY <1>22 DEF BgFlush, CompactMemTable, DataOK
    <3>2. level0' \in Nat
      <4>1. level0' \in {level0, level0 + 1}
        BY <1>22 DEF BgFlush, CompactMemTable
      <4> QED
        BY <4>1 DEF DataOK
    <3>3. imm' \subseteq Entry /\ flushed' \subseteq Entry
      BY <1>22 DEF BgFlush, CompactMemTable, DataOK
    <3> QED
      BY <1>22, <3>1, <3>2, <3>3 DEF BgFlush, CompactMemTable, DataOK
  <2>3. FlagsOK'
    BY <1>22 DEF BgFlush, FlagsOK, CompactMemTable, bgVars
  <2>4. HistoryOK'
    <3>1. Succeeds \/ Fails("build") \/ Fails("manifest")
      BY <1>22 DEF BgFlush, CompactMemTable
    <3>2. faults' \in 0..MaxFaults
      BY <3>1, FaultsType
    <3> QED
      BY <1>22, <3>2 DEF BgFlush, CompactMemTable, HistoryOK, histVars
  <2>5. LocalsOK'
    BY <1>22 DEF BgFlush, CompactMemTable, LocalsOK, queueVars, dataVars, bgVars, histVars
  <2> QED
    BY <2>1, <2>2, <2>3, <2>4, <2>5
<1>23. CASE BgCompactImm
  <2>1. ThreadsOK'
    BY <1>23, MoveBG, NotifyAllType DEF BgCompactImm, ThreadsOK, Thread, CompactMemTable, AfterError, bgVars, queueVars, BgPC
  <2>2. DataOK'
    <3>1. hasimm' \in BOOLEAN
      BY <1>23 DEF BgCompactImm, CompactMemTable, DataOK
    <3>2. level0' \in Nat
      <4>1. level0' \in {level0, level0 + 1}
        BY <1>23 DEF BgCompactImm, CompactMemTable
      <4> QED
        BY <4>1 DEF DataOK
    <3>3. imm' \subseteq Entry /\ flushed' \subseteq Entry
      BY <1>23 DEF BgCompactImm, CompactMemTable, DataOK
    <3> QED
      BY <1>23, <3>1, <3>2, <3>3 DEF BgCompactImm, CompactMemTable, DataOK
  <2>3. FlagsOK'
    BY <1>23 DEF BgCompactImm, FlagsOK, CompactMemTable, bgVars
  <2>4. HistoryOK'
    <3>1. Succeeds \/ Fails("build") \/ Fails("manifest")
      BY <1>23 DEF BgCompactImm, CompactMemTable
    <3>2. faults' \in 0..MaxFaults
      BY <3>1, FaultsType
    <3> QED
      BY <1>23, <3>2 DEF BgCompactImm, CompactMemTable, HistoryOK, histVars
  <2>5. LocalsOK'
    BY <1>23 DEF BgCompactImm, CompactMemTable, LocalsOK, queueVars, dataVars, bgVars, histVars
  <2> QED
    BY <2>1, <2>2, <2>3, <2>4, <2>5
<1>24. CASE BgCompactImmNotify
  <2>1. ThreadsOK'
    BY <1>24, MoveBG, NotifyAllType DEF BgCompactImmNotify, ThreadsOK, Thread, bgVars, queueVars, BgPC
  <2>2. LocalsOK' /\ DataOK' /\ FlagsOK' /\ HistoryOK'
    BY <1>24 DEF BgCompactImmNotify, LocalsOK, DataOK, FlagsOK, HistoryOK, queueVars, dataVars, bgVars, histVars
  <2> QED
    BY <2>1, <2>2
<1>25. CASE BgCompactDone
  <2>1. ThreadsOK'
    BY <1>25, MoveBG, NotifyAllType DEF BgCompactDone, ThreadsOK, Thread, AfterError, bgVars, queueVars, BgPC
  <2>2. DataOK'
    BY <1>25 DEF BgCompactDone, DataOK
  <2>3. FlagsOK'
    BY <1>25 DEF BgCompactDone, FlagsOK, bgVars
  <2>4. HistoryOK'
    <3>1. Succeeds \/ Fails("compact")
      BY <1>25 DEF BgCompactDone
    <3>2. faults' \in 0..MaxFaults
      BY <3>1, FaultsType
    <3> QED
      BY <1>25, <3>2 DEF BgCompactDone, HistoryOK, histVars
  <2>5. LocalsOK'
    BY <1>25 DEF BgCompactDone, LocalsOK, queueVars, dataVars, bgVars, histVars
  <2> QED
    BY <2>1, <2>2, <2>3, <2>4, <2>5
<1>26. CASE BgReschedule
  <2>1. ThreadsOK'
    BY <1>26, MoveBG, NotifyAllType DEF BgReschedule, ThreadsOK, Thread, queueVars, BgPC
  <2>2. FlagsOK'
    BY <1>26 DEF BgReschedule, FlagsOK
  <2>3. LocalsOK' /\ DataOK' /\ HistoryOK'
    BY <1>26 DEF BgReschedule, LocalsOK, DataOK, HistoryOK, queueVars, dataVars, bgVars, histVars
  <2> QED
    BY <2>1, <2>2, <2>3
<1>27. CASE BgExit
  <2>1. ThreadsOK'
    <3>1. PICK v \in BgPC : pc' = [pc EXCEPT ![BG] = v]
      BY <1>27 DEF BgExit, BgPC
    <3>2. PcOK(pc')
      BY <3>1, MoveBG DEF ThreadsOK
    <3> QED
      BY <1>27, <3>2 DEF BgExit, ThreadsOK, Thread, queueVars, bgVars
  <2>2. FlagsOK'
    BY <1>27 DEF BgExit, FlagsOK
  <2>3. LocalsOK' /\ DataOK' /\ HistoryOK'
    BY <1>27 DEF BgExit, LocalsOK, DataOK, HistoryOK, queueVars, dataVars, bgVars, histVars
  <2> QED
    BY <2>1, <2>2, <2>3
<1>28. CASE UNCHANGED vars
  BY <1>28 DEF vars, ThreadsOK, LocalsOK, DataOK, FlagsOK, HistoryOK, Thread
<1> QED
  BY <1>1, <1>2, <1>3, <1>4, <1>5, <1>6, <1>7, <1>8, <1>9, <1>10, <1>11, <1>12, <1>13, <1>14, <1>15, <1>16, <1>17, <1>18, <1>19, <1>20, <1>21, <1>22, <1>23, <1>24, <1>25, <1>26, <1>27, <1>28 DEF Next, Calls, WriterStep, CloseStep, BgStep

(* The type invariant holds in every behaviour of the write path.          *)
THEOREM TypeCorrect == Spec => []TypeOK
<1>1. Init => TypeOK
  BY InitType
<1>2. TypeOK /\ [Next]_vars => TypeOK'
  BY StepType
<1> QED
  BY <1>1, <1>2, PTL DEF Spec
-----------------------------------------------------------------------------
(* The queue of writers                                                    *)

(* A step is quiet for the queue if it leaves writers alone, no thread     *)
(* starts or stops to wait, to be woken or to lead, and the head's group   *)
(* still fits.                                                             *)
Role(p, t) == CASE p[t] \in LeaderPC -> "leader"
                [] p[t] = "wait" -> "wait"
                [] p[t] = "woken" -> "woken"
                [] OTHER -> "outside"
Quiet ==
  /\ writers' = writers
  /\ \A t \in Writer :
       /\ Role(pc', t) = Role(pc, t)
       /\ Role(pc, t) # "outside" =>
            /\ w'[t].done = w[t].done
            /\ \/ w'[t].last = w[t].last
               \/ pc[t] \in LeaderPC /\ w'[t].last \in 1..Len(writers)

(* notify_all changes nobody's role.                                       *)
LEMMA NotifyAllRole ==
  ASSUME NEW p, NEW t \in Writer
  PROVE  Role(NotifyAll(p), t) = Role(p, t)
BY DEF Role, NotifyAll, LeaderPC, Thread

(* Nor does a step of the background thread, with or without a notify_all. *)
LEMMA BgMoveRole ==
  ASSUME TypeOK, NEW t \in Writer, NEW v
  PROVE  /\ Role([pc EXCEPT ![BG] = v], t) = Role(pc, t)
         /\ Role([NotifyAll(pc) EXCEPT ![BG] = v], t) = Role(pc, t)
<1>1. t # BG /\ t \in DOMAIN pc /\ DOMAIN NotifyAll(pc) = Thread /\ t \in Thread
  BY ConstantsAssumption DEF TypeOK, ThreadsOK, PcOK, NotifyAll, Thread
<1>2. Role([pc EXCEPT ![BG] = v], t) = Role(pc, t)
  BY <1>1 DEF Role
<1>3. [NotifyAll(pc) EXCEPT ![BG] = v][t] = NotifyAll(pc)[t]
  BY <1>1
<1>4. Role([NotifyAll(pc) EXCEPT ![BG] = v], t) = Role(NotifyAll(pc), t)
  BY <1>3 DEF Role
<1> QED
  BY <1>2, <1>4, NotifyAllRole

(* Quiet steps preserve the shape of the queue.                            *)
LEMMA QuietStep ==
  ASSUME TypeOK, QueueInv, Quiet
  PROVE  QueueInv'
<1>1. \A t \in Writer : /\ pc'[t] \in LeaderPC <=> pc[t] \in LeaderPC
                        /\ pc'[t] = "wait" <=> pc[t] = "wait"
                        /\ pc'[t] = "woken" <=> pc[t] = "woken"
  BY DEF Quiet, Role, LeaderPC
<1>2. \A t \in Writer : pc[t] \in LeaderPC \cup {"wait", "woken"} => w'[t].done = w[t].done
  BY DEF Quiet, Role, LeaderPC
<1>3. writers' = writers /\ \A i \in DOMAIN writers : writers[i] \in Writer
  BY DEF Quiet, TypeOK, ThreadsOK
<1>4. \A t \in Writer : Queued(t)' <=> Queued(t)
  BY <1>1, <1>2 DEF Queued
<1>5. QueueDistinct'
  BY <1>3 DEF QueueInv, QueueDistinct
<1>6. QueueMembers'
  <2>1. ASSUME NEW i \in DOMAIN writers
        PROVE  Queued(writers[i])' /\ ~w'[writers[i]].done
    BY <1>2, <1>3, <1>4 DEF QueueInv, QueueMembers, Queued
  <2>2. ASSUME NEW t \in Writer, Queued(t)'
        PROVE  \E i \in DOMAIN writers : writers[i] = t
    BY <2>2, <1>4 DEF QueueInv, QueueMembers
  <2> QED
    BY <1>3, <2>1, <2>2 DEF QueueMembers
<1>7. LeaderIsHead'
  BY <1>1, <1>3 DEF QueueInv, LeaderIsHead
<1>8. HeadIsAwake'
  BY <1>1, <1>3 DEF QueueInv, HeadIsAwake, TypeOK, ThreadsOK
<1>9. GroupFits'
  <2> SUFFICES ASSUME NEW i \in DOMAIN writers
               PROVE  w'[writers[i]].last = 1 \/ (i = 1 /\ w'[writers[i]].last \in 1..Len(writers))
    BY <1>3 DEF GroupFits
  <2>1. writers[i] \in Writer /\ Role(pc, writers[i]) # "outside"
    BY <1>3 DEF QueueInv, QueueMembers, Queued, Role
  <2>2. CASE w'[writers[i]].last = w[writers[i]].last
    BY <2>2 DEF QueueInv, GroupFits
  <2>3. CASE pc[writers[i]] \in LeaderPC /\ w'[writers[i]].last \in 1..Len(writers)
    <3>1. 1 \in DOMAIN writers /\ writers[1] = writers[i]
      BY <2>1, <2>3 DEF QueueInv, LeaderIsHead, TypeOK, ThreadsOK
    <3> QED
      BY <2>3, <3>1 DEF QueueInv, QueueDistinct
  <2> QED
    BY <2>1, <2>2, <2>3 DEF Quiet
<1> QED
  BY <1>5, <1>6, <1>7, <1>8, <1>9 DEF QueueInv

LEMMA InitQueue == Init => QueueInv
BY ConstantsAssumption DEF Init, QueueInv, QueueDistinct, QueueMembers, LeaderIsHead,
       GroupFits, HeadIsAwake, Queued, LeaderPC, Thread

(* The steps that are quiet for the queue.                                 *)
LEMMA QuietActions ==
  ASSUME TypeOK, QueueInv,
         \/ \E t \in Writer :
              \/ RoomError(t) \/ RoomDelay(t) \/ RoomFound(t) \/ RoomWait(t)
              \/ RoomSwitch(t) \/ RoomAgain(t) \/ BuildBatchGroup(t)
              \/ AddRecord(t) \/ SyncLog(t) \/ InsertInto(t) \/ Relock(t)
              \/ ImmCheck(t)
         \/ \E t \in Writer \cup {BG} : Schedule(t)
         \/ CloseStep \/ BgStep \/ UNCHANGED vars
  PROVE  Quiet
<1> USE DEF TypeOK
<1>1. ASSUME NEW t \in Writer, RoomError(t) PROVE Quiet
  BY <1>1 DEF RoomError, Quiet, Role, LeaderPC, ThreadsOK, PcOK, LocalsOK, WriterRecord, Thread, queueVars
<1>2. ASSUME NEW t \in Writer, RoomDelay(t) PROVE Quiet
  BY <1>2 DEF RoomDelay, Quiet, Role, LeaderPC, ThreadsOK, PcOK, LocalsOK, WriterRecord, Thread, queueVars
<1>3. ASSUME NEW t \in Writer, RoomFound(t) PROVE Quiet
  BY <1>3 DEF RoomFound, Quiet, Role, LeaderPC, ThreadsOK, PcOK, LocalsOK, WriterRecord, Thread, queueVars
<1>4. ASSUME NEW t \in Writer, RoomWait(t) PROVE Quiet
  BY <1>4 DEF RoomWait, Quiet, Role, LeaderPC, ThreadsOK, PcOK, LocalsOK, WriterRecord, Thread, queueVars
<1>5. ASSUME NEW t \in Writer, RoomSwitch(t) PROVE Quiet
  <2>1. pc[t] = "room" /\ (pc' = pc \/ \E v \in {"sched", "finish"} : pc' = [pc EXCEPT ![t] = v])
    BY <1>5 DEF RoomSwitch
  <2>2. \A x \in Writer : Role(pc', x) = Role(pc, x)
    BY <2>1 DEF Role, LeaderPC, ThreadsOK, PcOK, Thread
  <2>3. writers' = writers
    BY <1>5 DEF RoomSwitch
  <2>4. w' = [w EXCEPT ![t].force = FALSE] \/ w' = [w EXCEPT ![t].status = "error"]
    BY <1>5 DEF RoomSwitch
  <2>5. \A x \in Writer : w'[x].done = w[x].done /\ w'[x].last = w[x].last
    BY <2>4 DEF LocalsOK, WriterRecord
  <2> QED
    BY <2>2, <2>3, <2>5 DEF Quiet
<1>6. ASSUME NEW t \in Writer, RoomAgain(t) PROVE Quiet
  BY <1>6 DEF RoomAgain, Quiet, Role, LeaderPC, ThreadsOK, PcOK, LocalsOK, WriterRecord, Thread, queueVars
<1>7. ASSUME NEW t \in Writer, BuildBatchGroup(t) PROVE Quiet
  <2>1. pc[t] = "build" /\ (pc' = pc \/ \E v \in {"log", "finish"} : pc' = [pc EXCEPT ![t] = v])
    BY <1>7 DEF BuildBatchGroup
  <2>2. \A x \in Writer : Role(pc', x) = Role(pc, x)
    BY <2>1 DEF Role, LeaderPC, ThreadsOK, PcOK, Thread
  <2>3. w' = w \/ \E n \in 1..Len(writers) :
          w' = [w EXCEPT ![t].updates = Updates(n),
                         ![t].count = Cardinality(HasBatch(n)), ![t].last = n]
    BY <1>7 DEF BuildBatchGroup
  <2>4. \A x \in Writer :
          /\ w'[x].done = w[x].done
          /\ w'[x].last = w[x].last \/ (x = t /\ w'[x].last \in 1..Len(writers))
    <3>1. CASE w' = w
      BY <3>1
    <3>2. ASSUME NEW n \in 1..Len(writers),
                 w' = [w EXCEPT ![t].updates = Updates(n),
                                ![t].count = Cardinality(HasBatch(n)), ![t].last = n]
          PROVE  \A x \in Writer : /\ w'[x].done = w[x].done
                                   /\ w'[x].last = w[x].last \/ (x = t /\ w'[x].last = n)
      BY <3>2 DEF LocalsOK, WriterRecord
    <3> QED
      BY <2>3, <3>1, <3>2
  <2>5. writers' = writers
    BY <1>7 DEF BuildBatchGroup
  <2> QED
    BY <2>1, <2>2, <2>4, <2>5 DEF Quiet, LeaderPC
<1>8. ASSUME NEW t \in Writer, AddRecord(t) PROVE Quiet
  BY <1>8 DEF AddRecord, Quiet, Role, LeaderPC, ThreadsOK, PcOK, LocalsOK, WriterRecord, Thread, queueVars, AfterLog
<1>9. ASSUME NEW t \in Writer, SyncLog(t) PROVE Quiet
  BY <1>9 DEF SyncLog, Quiet, Role, LeaderPC, ThreadsOK, PcOK, LocalsOK, WriterRecord, Thread, queueVars, AfterSync
<1>10. ASSUME NEW t \in Writer, InsertInto(t) PROVE Quiet
  BY <1>10 DEF InsertInto, Quiet, Role, LeaderPC, ThreadsOK, PcOK, LocalsOK, WriterRecord, Thread, queueVars
<1>11. ASSUME NEW t \in Writer, Relock(t) PROVE Quiet
  BY <1>11, NotifyAllRole DEF Relock, Quiet, Role, LeaderPC, ThreadsOK, PcOK, LocalsOK, WriterRecord, Thread, queueVars, AfterError
<1>12. ASSUME NEW t \in Writer, ImmCheck(t) PROVE Quiet
  BY <1>12 DEF ImmCheck, Quiet, Role, LeaderPC, ThreadsOK, PcOK, LocalsOK, WriterRecord, Thread, queueVars
<1>13. ASSUME NEW t \in Writer \cup {BG}, Schedule(t) PROVE Quiet
  <2>1. writers' = writers /\ w' = w
    BY <1>13 DEF Schedule, queueVars
  <2>2. CASE t = BG
    BY <1>13, <2>1, <2>2, BgMoveRole DEF Schedule, Quiet
  <2>3. CASE t # BG
    <3>1. pc[t] = "sched" /\ \E v : pc' = [[pc EXCEPT ![t] = "room"] EXCEPT ![BG] = v]
      BY <1>13, <2>3 DEF Schedule
    <3>2. \A x \in Writer : pc'[x] = pc[x] \/ (pc[x] = "sched" /\ pc'[x] = "room")
      BY <3>1, ConstantsAssumption DEF ThreadsOK, PcOK, Thread
    <3> QED
      BY <2>1, <3>2 DEF Quiet, Role, LeaderPC
  <2> QED
    BY <2>2, <2>3
<1>14. CASE CloseDB
  BY <1>14, ConstantsAssumption DEF CloseDB, Quiet, Role, LeaderPC, ThreadsOK, PcOK, Thread, queueVars
<1>15. CASE ExitSchedule
  BY <1>15, ConstantsAssumption DEF ExitSchedule, Quiet, Role, LeaderPC, ThreadsOK, PcOK, Thread, queueVars
<1>16. CASE Join
  BY <1>16, ConstantsAssumption DEF Join, Quiet, Role, LeaderPC, ThreadsOK, PcOK, Thread, queueVars
<1>17. CASE BgTake
  BY <1>17, ConstantsAssumption DEF BgTake, Quiet, Role, LeaderPC, ThreadsOK, PcOK, Thread, queueVars
<1>18. CASE BackgroundCallback
  BY <1>18, ConstantsAssumption DEF BackgroundCallback, Quiet, Role, LeaderPC, ThreadsOK, PcOK, Thread, queueVars
<1>19. CASE BgFlush
  <2>1. \E v \in BgPC : pc' = [pc EXCEPT ![BG] = v] \/ pc' = [NotifyAll(pc) EXCEPT ![BG] = v]
    BY <1>19 DEF BgFlush, CompactMemTable, AfterError, BgPC
  <2>2. writers' = writers /\ w' = w
    BY <1>19 DEF BgFlush, CompactMemTable, queueVars
  <2> QED
    BY <2>1, <2>2, BgMoveRole DEF Quiet
<1>20. CASE BgCompactImm
  <2>1. \E v \in BgPC : pc' = [pc EXCEPT ![BG] = v] \/ pc' = [NotifyAll(pc) EXCEPT ![BG] = v]
    BY <1>20 DEF BgCompactImm, CompactMemTable, AfterError, BgPC
  <2>2. writers' = writers /\ w' = w
    BY <1>20 DEF BgCompactImm, CompactMemTable, queueVars
  <2> QED
    BY <2>1, <2>2, BgMoveRole DEF Quiet
<1>21. CASE BgCompactImmNotify
  BY <1>21, NotifyAllRole, ConstantsAssumption DEF BgCompactImmNotify, Quiet, Role, LeaderPC, ThreadsOK, PcOK, Thread, queueVars
<1>22. CASE BgCompactDone
  <2>1. \E v \in BgPC : pc' = [pc EXCEPT ![BG] = v] \/ pc' = [NotifyAll(pc) EXCEPT ![BG] = v]
    BY <1>22 DEF BgCompactDone, AfterError, BgPC
  <2>2. writers' = writers /\ w' = w
    BY <1>22 DEF BgCompactDone, queueVars
  <2> QED
    BY <2>1, <2>2, BgMoveRole DEF Quiet
<1>23. CASE BgReschedule
  <2>1. \E v \in BgPC : pc' = [pc EXCEPT ![BG] = v] \/ pc' = [NotifyAll(pc) EXCEPT ![BG] = v]
    BY <1>23 DEF BgReschedule, BgPC
  <2>2. writers' = writers /\ w' = w
    BY <1>23 DEF BgReschedule, queueVars
  <2> QED
    BY <2>1, <2>2, BgMoveRole DEF Quiet
<1>24. CASE BgExit
  BY <1>24, ConstantsAssumption DEF BgExit, Quiet, Role, LeaderPC, ThreadsOK, PcOK, Thread, queueVars
<1>25. CASE UNCHANGED vars
  BY <1>25 DEF vars, Quiet, Role
<1> QED
  BY <1>1, <1>2, <1>3, <1>4, <1>5, <1>6, <1>7, <1>8, <1>9, <1>10, <1>11, <1>12, <1>13, <1>14, <1>15, <1>16, <1>17, <1>18, <1>19, <1>20, <1>21, <1>22, <1>23, <1>24, <1>25 DEF CloseStep, BgStep

(* Write's push_back keeps the shape of the queue: the caller was not in   *)
(* it, and becomes head only of an empty queue.                            *)
LEMMA EnqueueStep ==
  ASSUME TypeOK, QueueInv, NEW t \in Writer, NEW b, NEW sync, Enqueue(t, b, sync)
  PROVE  QueueInv'
<1> USE DEF TypeOK, QueueInv
<1>1. pc[t] = "idle" /\ writers' = Append(writers, t) /\ writers \in Seq(Writer)
  BY DEF Enqueue, ThreadsOK
<1>2. \A i \in DOMAIN writers : writers[i] # t
  BY <1>1 DEF QueueMembers, Queued, LeaderPC
<1>3. /\ Len(writers') = Len(writers) + 1 /\ DOMAIN writers' = 1..(Len(writers) + 1)
      /\ writers'[Len(writers) + 1] = t
      /\ \A i \in DOMAIN writers : writers'[i] = writers[i] /\ i \in DOMAIN writers'
  BY <1>1
<1>4. Head(writers') = t <=> Len(writers) = 0
  BY <1>1, <1>2, <1>3
<1>5. /\ w'[t].done = FALSE /\ w'[t].last = 1
      /\ \A x \in Writer \ {t} : w'[x] = w[x]
  BY DEF Enqueue, LocalsOK, IdleWriter
<1>6. /\ pc'[t] = (IF Len(writers) = 0 THEN "room" ELSE "wait")
      /\ \A x \in Writer \ {t} : pc'[x] = pc[x]
  BY <1>4 DEF Enqueue, MayLead, ThreadsOK, PcOK, Thread
<1>7. Queued(t)' /\ \A x \in Writer \ {t} : Queued(x)' <=> Queued(x)
  BY <1>5, <1>6 DEF Queued, LeaderPC
<1>8. \A i \in DOMAIN writers : writers[i] \in Writer \ {t}
  BY <1>1, <1>2
<1>9. QueueDistinct'
  BY <1>2, <1>3 DEF QueueDistinct
<1>10. QueueMembers'
  <2>1. ASSUME NEW i \in DOMAIN writers'
        PROVE  (Queued(writers[i]) /\ ~w[writers[i]].done)'
    <3>1. CASE i \in DOMAIN writers
      <4>1. writers'[i] = writers[i] /\ writers[i] \in Writer \ {t}
        BY <3>1, <1>3, <1>8
      <4>2. Queued(writers[i]) /\ ~w[writers[i]].done
        BY <3>1 DEF QueueMembers
      <4> QED
        BY <4>1, <4>2, <1>5, <1>6 DEF Queued
    <3>2. CASE i = Len(writers) + 1
      BY <3>2, <1>3, <1>5, <1>7 DEF Queued
    <3> QED
      BY <3>1, <3>2, <1>1, <1>3
  <2>2. ASSUME NEW x \in Writer, Queued(x)'
        PROVE  \E i \in DOMAIN writers' : writers'[i] = x
    <3>1. CASE x = t
      BY <3>1, <1>1, <1>3
    <3>2. CASE x # t
      BY <2>2, <3>2, <1>3, <1>7 DEF QueueMembers
    <3> QED
      BY <3>1, <3>2
  <2> QED
    BY <2>1, <2>2 DEF QueueMembers
<1>11. LeaderIsHead'
  <2> SUFFICES ASSUME NEW x \in Writer, pc'[x] \in LeaderPC
               PROVE  Len(writers') > 0 /\ writers'[1] = x
    BY DEF LeaderIsHead
  <2>1. CASE x = t
    BY <2>1, <1>1, <1>3, <1>5, <1>6 DEF LeaderPC
  <2>2. CASE x # t
    BY <2>2, <1>1, <1>3, <1>5, <1>6 DEF LeaderIsHead
  <2> QED
    BY <2>1, <2>2
<1>12. HeadIsAwake'
  <2>1. CASE Len(writers) = 0
    BY <2>1, <1>3, <1>6 DEF HeadIsAwake
  <2>2. CASE Len(writers) # 0
    BY <2>2, <1>1, <1>3, <1>6, <1>8 DEF HeadIsAwake
  <2> QED
    BY <2>1, <2>2
<1>13. GroupFits'
  <2> SUFFICES ASSUME NEW i \in DOMAIN writers'
               PROVE  \/ w'[writers'[i]].last = 1
                      \/ i = 1 /\ w'[writers'[i]].last \in 1..Len(writers')
    BY DEF GroupFits
  <2>1. CASE i \in DOMAIN writers
    BY <2>1, <1>1, <1>3, <1>5, <1>8 DEF GroupFits
  <2>2. CASE i = Len(writers) + 1
    BY <2>2, <1>3, <1>5
  <2> QED
    BY <2>1, <2>2, <1>1, <1>3
<1> QED
  BY <1>9, <1>10, <1>11, <1>12, <1>13

(* A notified thread that is completed is no longer in the queue; one that *)
(* is not goes on only if it is at the front.                              *)
LEMMA WakeStep ==
  ASSUME TypeOK, QueueInv, NEW t \in Writer, Wake(t)
  PROVE  QueueInv'
<1> USE DEF TypeOK, QueueInv
<1>1. pc[t] = "woken" /\ writers' = writers /\ writers \in Seq(Writer)
  BY DEF Wake, ThreadsOK
<1>2. \A x \in Writer \ {t} : pc'[x] = pc[x] /\ w'[x] = w[x]
  BY DEF Wake, ThreadsOK, PcOK, Thread, LocalsOK
<1>3. \A x \in Writer \ {t} : Queued(x)' <=> Queued(x)
  BY <1>2 DEF Queued
<1>4. CASE w[t].done
  <2>1. pc'[t] \in {"idle", "immcheck"}
    BY <1>4 DEF Wake, AfterWrite, ThreadsOK, PcOK, Thread
  <2>2. \A i \in DOMAIN writers : writers[i] \in Writer \ {t}
    BY <1>1, <1>4 DEF QueueMembers
  <2>3. ~Queued(t)' /\ pc'[t] \notin LeaderPC
    BY <2>1 DEF Queued, LeaderPC
  <2>4. QueueDistinct'
    BY <1>1 DEF QueueDistinct
  <2>5. QueueMembers'
    BY <1>1, <1>2, <1>3, <2>2, <2>3 DEF QueueMembers
  <2>6. LeaderIsHead'
    BY <1>1, <1>2, <2>3 DEF LeaderIsHead
  <2>7. HeadIsAwake'
    BY <1>1, <1>2, <2>2 DEF HeadIsAwake
  <2>8. GroupFits'
    BY <1>1, <1>2, <2>2 DEF GroupFits
  <2> QED
    BY <2>4, <2>5, <2>6, <2>7, <2>8
<1>5. CASE ~w[t].done
  <2>1. \E i \in DOMAIN writers : writers[i] = t
    BY <1>1, <1>5 DEF QueueMembers, Queued
  <2>2. w' = w /\ pc'[t] = (IF t = writers[1] THEN "room" ELSE "wait")
    BY <1>1, <1>5, <2>1 DEF Wake, MayLead, ThreadsOK, PcOK, Thread
  <2>3. \A x \in Writer : pc[x] \in LeaderPC => x # t /\ writers[1] = x
    BY <1>1 DEF LeaderIsHead, LeaderPC
  <2>4. Queued(t) /\ Queued(t)'
    BY <1>1, <1>5, <2>2 DEF Queued, LeaderPC
  <2>5. QueueDistinct'
    BY <1>1 DEF QueueDistinct
  <2>6. QueueMembers'
    BY <1>1, <1>3, <2>2, <2>4 DEF QueueMembers
  <2>7. LeaderIsHead'
    <3> SUFFICES ASSUME NEW x \in Writer, pc'[x] \in LeaderPC
                 PROVE  Len(writers) > 0 /\ writers[1] = x
      BY <1>1, <2>2 DEF LeaderIsHead
    <3>1. CASE x = t
      BY <3>1, <1>1, <2>1, <2>2 DEF LeaderPC
    <3>2. CASE x # t
      BY <3>2, <1>2 DEF LeaderIsHead
    <3> QED
      BY <3>1, <3>2
  <2>8. HeadIsAwake'
    BY <1>1, <1>2, <2>2 DEF HeadIsAwake
  <2>9. GroupFits'
    BY <1>1, <2>2 DEF GroupFits
  <2> QED
    BY <2>5, <2>6, <2>7, <2>8, <2>9
<1> QED
  BY <1>4, <1>5

(* The head leaves with its group; whoever is then first was woken.        *)
LEMMA FinishStep ==
  ASSUME TypeOK, QueueInv, NEW t \in Writer, Finish(t)
  PROVE  QueueInv'
<1> USE DEF TypeOK, QueueInv
<1> DEFINE n == w[t].last
           members == {writers[i] : i \in (2..n) \cap DOMAIN writers}
<1>1. writers \in Seq(Writer) /\ \A i \in DOMAIN writers : writers[i] \in Writer
  BY DEF ThreadsOK
<1>2. pc[t] = "finish" /\ Len(writers) > 0 /\ writers[1] = t
  BY DEF Finish, LeaderIsHead, LeaderPC
<1>3. n \in 1..Len(writers)
  BY <1>1, <1>2 DEF GroupFits
<1>4. /\ writers' = SubSeq(writers, n + 1, Len(writers))
      /\ Len(writers') = Len(writers) - n /\ DOMAIN writers' = 1..(Len(writers) - n)
      /\ \A i \in DOMAIN writers' : writers'[i] = writers[n + i] /\ n + i \in DOMAIN writers
  <2>1. writers' = SubSeq(writers, n + 1, Len(writers))
    BY DEF Finish
  <2>2. n \in Nat /\ n <= Len(writers)
    BY <1>1, <1>3
  <2> HIDE DEF n
  <2>3. /\ writers' \in Seq(Writer) /\ Len(writers') = Len(writers) - n
        /\ \A i \in 1..(Len(writers) - n) :
              writers'[i] = writers[n + i] /\ n + i \in 1..Len(writers)
    BY <2>1, <2>2, <1>1, SuffixProperties
  <2>4. DOMAIN writers' = 1..Len(writers') /\ DOMAIN writers = 1..Len(writers)
    BY <2>3, <1>1, LenProperties
  <2> QED
    BY <2>1, <2>3, <2>4
<1>5. \A x \in Writer :
        /\ x = t => pc'[x] \in {"idle", "immcheck"}
        /\ x # t /\ x \in members => pc'[x] = "woken" /\ w'[x].done
        /\ x # t /\ x \notin members => w'[x] = w[x]
        /\ x # t /\ x \notin members /\ x \notin NextHead(n) => pc'[x] = pc[x]
        /\ x # t /\ x \in NextHead(n) => pc'[x] = "woken"
  <2>1. pc' = [x \in Thread |->
                 CASE x = t -> AfterWrite(t, w[t].status)
                   [] x # t /\ x \in members \cup NextHead(n) -> "woken"
                   [] OTHER -> pc[x]]
    BY DEF Finish
  <2>2. w' = [x \in Writer |->
                CASE x = t -> LocalsAfterWrite(t, w[t].status)
                  [] x # t /\ x \in members ->
                       [w[x] EXCEPT !.done = TRUE, !.status = w[t].status]
                  [] OTHER -> w[x]]
    BY DEF Finish
  <2>3. \A x \in Writer : x # t /\ x \in members => w'[x].done
    BY <2>2 DEF LocalsOK, WriterRecord
  <2>4. \A x \in Writer : x # t /\ x \notin members => w'[x] = w[x]
    BY <2>2
  <2> HIDE DEF members, n
  <2>5. \A x \in Writer :
          /\ x = t => pc'[x] \in {"idle", "immcheck"}
          /\ x # t /\ x \in members \cup NextHead(n) => pc'[x] = "woken"
          /\ x # t /\ x \notin members \cup NextHead(n) => pc'[x] = pc[x]
    BY <2>1 DEF AfterWrite, Thread
  <2> QED
    BY <2>3, <2>4, <2>5
<1>6. \A i \in DOMAIN writers :
        /\ i > n => writers[i] # t /\ writers[i] \notin members
        /\ i <= n => writers[i] = t \/ writers[i] \in members
        /\ i > n + 1 => writers[i] \notin NextHead(n)
        /\ i = n + 1 => writers[i] \in NextHead(n)
  BY <1>1, <1>2, <1>3 DEF QueueDistinct, NextHead
<1> HIDE DEF members, n
<1>7. \A x \in Writer : pc'[x] \notin LeaderPC
  <2> SUFFICES ASSUME NEW x \in Writer, pc'[x] \in LeaderPC PROVE FALSE
    OBVIOUS
  <2>1. x # t /\ pc'[x] = pc[x]
    BY <1>5 DEF LeaderPC
  <2> QED
    BY <2>1, <1>2 DEF LeaderIsHead
<1>8. \A i \in DOMAIN writers' :
        /\ w'[writers'[i]] = w[writers'[i]] /\ writers'[i] # t
        /\ pc'[writers'[i]] = (IF i = 1 THEN "woken" ELSE pc[writers'[i]])
  <2> SUFFICES ASSUME NEW i \in DOMAIN writers'
               PROVE  /\ w'[writers'[i]] = w[writers'[i]] /\ writers'[i] # t
                      /\ pc'[writers'[i]] = (IF i = 1 THEN "woken" ELSE pc[writers'[i]])
    OBVIOUS
  <2>1. i \in Nat \ {0} /\ n \in Nat
    BY <1>1, <1>3, <1>4
  <2>2. /\ writers'[i] = writers[n + i] /\ n + i \in DOMAIN writers
        /\ writers'[i] \in Writer
    BY <1>1, <1>4
  <2>3. n + i > n /\ (i = 1 => n + i = n + 1) /\ (i # 1 => n + i > n + 1)
    BY <2>1
  <2>4. writers'[i] # t /\ writers'[i] \notin members
    BY <1>6, <2>2, <2>3
  <2>5. i = 1 <=> writers'[i] \in NextHead(n)
    BY <1>6, <2>2, <2>3
  <2> QED
    BY <1>5, <2>2, <2>4, <2>5
<1>9. QueueDistinct'
  <2> SUFFICES ASSUME NEW i \in DOMAIN writers', NEW j \in DOMAIN writers',
                      writers'[i] = writers'[j]
               PROVE  i = j
    BY DEF QueueDistinct
  <2>1. n + i = n + j
    BY <1>4 DEF QueueDistinct
  <2> QED
    BY <2>1, <1>1, <1>3, <1>4
<1>10. QueueMembers'
  <2>1. ASSUME NEW i \in DOMAIN writers'
        PROVE  (Queued(writers[i]) /\ ~w[writers[i]].done)'
    <3>1. Queued(writers'[i]) /\ ~w[writers'[i]].done
      BY <1>4 DEF QueueMembers
    <3> QED
      BY <3>1, <1>8 DEF Queued
  <2>2. ASSUME NEW x \in Writer, Queued(x)'
        PROVE  \E i \in DOMAIN writers' : writers'[i] = x
    <3>1. x # t /\ x \notin members
      BY <2>2, <1>5, <1>7 DEF Queued, LeaderPC
    <3>2. PICK i \in DOMAIN writers : writers[i] = x
      <4>1. CASE x \in NextHead(n)
        BY <4>1, <1>1, <1>3 DEF NextHead
      <4>2. CASE x \notin NextHead(n)
        <5>1. Queued(x)
          BY <4>2, <3>1, <2>2, <1>5 DEF Queued
        <5> QED
          BY <5>1 DEF QueueMembers
      <4> QED
        BY <4>1, <4>2
    <3>3. i > n
      BY <3>1, <3>2, <1>1, <1>3, <1>6
    <3>4. i - n \in DOMAIN writers' /\ n + (i - n) = i
      BY <3>2, <3>3, <1>1, <1>3, <1>4
    <3>5. writers'[i - n] = x
      BY <3>2, <3>4, <1>4
    <3> QED
      BY <3>4, <3>5
  <2> QED
    BY <2>1, <2>2 DEF QueueMembers
<1>11. LeaderIsHead'
  BY <1>7 DEF LeaderIsHead
<1>12. GroupFits'
  <2> SUFFICES ASSUME NEW i \in DOMAIN writers' PROVE w'[writers'[i]].last = 1
    BY DEF GroupFits
  <2>1. n + i # 1
    BY <1>1, <1>3, <1>4
  <2>2. w[writers[n + i]].last = 1
    BY <2>1, <1>4 DEF GroupFits
  <2>3. w'[writers'[i]] = w[writers[n + i]]
    BY <1>4, <1>8
  <2> QED
    BY <2>2, <2>3
<1>13. HeadIsAwake'
  <2>1. Len(writers') > 0 => 1 \in DOMAIN writers'
    BY <1>1, <1>3, <1>4
  <2> QED
    BY <2>1, <1>8 DEF HeadIsAwake
<1> QED
  BY <1>9, <1>10, <1>11, <1>12, <1>13

(* The queue keeps its shape in every behaviour, for any number of writers *)
(* and calls.                                                              *)
THEOREM QueueCorrect == Spec => []QueueInv
<1>1. TypeOK /\ QueueInv /\ [Next]_vars => QueueInv'
  BY EnqueueStep, WakeStep, FinishStep, QuietActions, QuietStep
     DEF Next, Calls, WriterStep
<1> QED
  BY InitQueue, <1>1, TypeCorrect, PTL DEF Spec

(* The head of the queue alone logs and writes into the memtable: what the *)
(* comment in DB::Write relies on when it releases the mutex.              *)
THEOREM SingleLoggerCorrect == Spec => []SingleLogger
<1>1. QueueInv => SingleLogger
  BY DEF QueueInv, LeaderIsHead, SingleLogger, LoggingPC, LeaderPC
<1> QED
  BY <1>1, QueueCorrect, PTL

(* No wakeup of the queue is lost.                                         *)
THEOREM HeadIsAwakeCorrect == Spec => []HeadIsAwake
<1>1. QueueInv => HeadIsAwake
  BY DEF QueueInv
<1> QED
  BY <1>1, QueueCorrect, PTL
-----------------------------------------------------------------------------
(***************************************************************************)
(* The background thread: DB::bgcompactionscheduled and the functors of    *)
(* Env::bgqueue agree for any number of writers, so that a full memtable   *)
(* always has somebody coming to write it, no two callbacks run, and the   *)
(* destructor leaves no thread behind.                                     *)
(***************************************************************************)

(* Where BackgroundCallback has been entered and not yet left its flag.    *)
RunningPC == {"callback", "flush", "compact", "compactflush", "done"}
NobodySchedules == \A t \in Writer \cup {BG} : pc[t] # "sched"
OneSchedules ==
  \E s \in Writer \cup {BG} :
    pc[s] = "sched" /\ \A t \in Writer \cup {BG} : pc[t] = "sched" => t = s

(* The four places the one callback can be in: nowhere, in the queue,      *)
(* about to be queued by the thread that set the flag, or running.         *)
CallbackNowhere ==
  ~bgscheduled /\ bgqueue \in {<< >>, <<"empty">>} /\ NobodySchedules /\ pc[BG] \notin RunningPC
CallbackQueued ==
  bgscheduled /\ bgqueue = <<"callback">> /\ NobodySchedules /\ pc[BG] \notin RunningPC
CallbackComing ==
  bgscheduled /\ bgqueue = << >> /\ OneSchedules /\ pc[BG] \notin RunningPC
CallbackRunning ==
  bgscheduled /\ bgqueue = << >> /\ NobodySchedules /\ pc[BG] \in RunningPC
CallbackPlaced ==
  CallbackNowhere \/ CallbackQueued \/ CallbackComing \/ CallbackRunning

(* How far the destructor can be: past its wait nothing is scheduled, only *)
(* ExitSchedule queues the empty functor, and the thread it joins has      *)
(* started and only then stops.                                            *)
CloseOrder ==
  /\ pc[Main] \in {"exitschedule", "join", "closed"} => ~bgscheduled
  /\ pc[Main] \in {"open", "closing", "closewait", "exitschedule"} => bgqueue # <<"empty">>
  /\ pc[BG] = "unstarted" => bgqueue = << >>
  /\ pc[BG] = "stopped" => pc[Main] \in {"exitschedule", "join", "closed"}
  /\ pc[Main] = "closed" => pc[BG] \in {"unstarted", "stopped"}

(* The invariant is inductive together with the types.                     *)
BgInv == CallbackPlaced /\ CloseOrder /\ FlushScheduled

-----------------------------------------------------------------------------
(* The one callback counts as one wherever it is.                          *)
LEMMA PlacedIsCounted == TypeOK /\ BgInv => OneCallback
<1> SUFFICES ASSUME TypeOK, BgInv PROVE OneCallback
  OBVIOUS
<1> DEFINE Q == {i \in DOMAIN bgqueue : bgqueue[i] = "callback"}
           C == {t \in Writer \cup {BG} : pc[t] = "sched"}
           R == IF pc[BG] \in RunningPC THEN 1 ELSE 0
<1>1. NobodySchedules => C = {}
  BY DEF NobodySchedules
<1>2. OneSchedules => \E s : C = {s}
  BY DEF OneSchedules
<1>3. bgqueue \in {<< >>, <<"empty">>} => Q = {}
  OBVIOUS
<1>4. bgqueue = <<"callback">> => Q = {1}
  OBVIOUS
<1>5. Cardinality({}) = 0 /\ \A s : Cardinality({s}) = 1
  BY FS_EmptySet, FS_Singleton
<1>6. Cardinality(Q) + Cardinality(C) + R = (IF bgscheduled THEN 1 ELSE 0)
  <2>1. CASE CallbackNowhere
    <3>1. Cardinality(Q) = 0 /\ Cardinality(C) = 0
      BY <2>1, <1>1, <1>3, <1>5 DEF CallbackNowhere
    <3>2. R = 0 /\ ~bgscheduled
      BY <2>1 DEF CallbackNowhere
    <3> QED
      BY <3>1, <3>2
  <2>2. CASE CallbackQueued
    <3>1. Cardinality(Q) = 1 /\ Cardinality(C) = 0
      BY <2>2, <1>1, <1>4, <1>5 DEF CallbackQueued
    <3>2. R = 0 /\ bgscheduled
      BY <2>2 DEF CallbackQueued
    <3> QED
      BY <3>1, <3>2
  <2>3. CASE CallbackComing
    <3>1. Cardinality(Q) = 0 /\ Cardinality(C) = 1
      BY <2>3, <1>2, <1>3, <1>5 DEF CallbackComing
    <3>2. R = 0 /\ bgscheduled
      BY <2>3 DEF CallbackComing
    <3> QED
      BY <3>1, <3>2
  <2>4. CASE CallbackRunning
    <3>1. Cardinality(Q) = 0 /\ Cardinality(C) = 0
      BY <2>4, <1>1, <1>3, <1>5 DEF CallbackRunning
    <3>2. R = 1 /\ bgscheduled
      BY <2>4 DEF CallbackRunning
    <3> QED
      BY <3>1, <3>2
  <2> QED
    BY <2>1, <2>2, <2>3, <2>4 DEF BgInv, CallbackPlaced
<1>7. pc[Main] = "closed" => pc[BG] \in {"unstarted", "stopped"}
  BY DEF BgInv, CloseOrder
<1> QED
  BY <1>6, <1>7 DEF OneCallback, RunningPC

LEMMA InitBg == Init => BgInv
<1> SUFFICES ASSUME Init PROVE BgInv
  OBVIOUS
<1>1. \A t \in Writer : pc[t] = "idle"
  BY ConstantsAssumption DEF Init, Thread
<1>2. pc[Main] = "open" /\ pc[BG] = (IF bgscheduled THEN "idle" ELSE "unstarted")
  BY ConstantsAssumption DEF Init, Thread
<1>3. NobodySchedules /\ pc[BG] \notin RunningPC
  BY <1>1, <1>2 DEF NobodySchedules, RunningPC
<1>4. bgscheduled \in BOOLEAN /\ bgqueue = (IF bgscheduled THEN <<"callback">> ELSE << >>) /\ ~hasimm
  BY InitType DEF Init, TypeOK, FlagsOK
<1>5. <<"callback">> # <<"empty">> /\ << >> # <<"empty">>
  OBVIOUS
<1>6. CASE bgscheduled
  BY <1>2, <1>3, <1>4, <1>5, <1>6 DEF BgInv, CallbackPlaced, CallbackQueued, CloseOrder, FlushScheduled
<1>7. CASE ~bgscheduled
  BY <1>2, <1>3, <1>4, <1>5, <1>7 DEF BgInv, CallbackPlaced, CallbackNowhere, CloseOrder, FlushScheduled
<1> QED
  BY <1>4, <1>6, <1>7

(* Steps that neither schedule nor start nor end a callback, nor bring the *)
(* destructor past its wait.                                               *)
BgQuiet ==
  /\ UNCHANGED <<bgscheduled, bgqueue>>
  /\ \A t \in Writer : pc'[t] = "sched" <=> pc[t] = "sched"
  /\ \/ pc'[BG] = pc[BG]
     \/ pc[BG] \in RunningPC /\ pc'[BG] \in RunningPC
  /\ \/ pc'[Main] = pc[Main]
     \/ pc[Main] \in {"closing", "closewait"} /\ pc'[Main] \in {"closing", "closewait"}
  /\ hasimm' => hasimm
  /\ bgerror => bgerror'

LEMMA BgQuietStep ==
  ASSUME BgInv, BgQuiet
  PROVE  BgInv'
<1>1. pc'[BG] = "sched" <=> pc[BG] = "sched"
  BY DEF BgQuiet, RunningPC
<1>2. NobodySchedules' <=> NobodySchedules
  BY <1>1 DEF NobodySchedules, BgQuiet
<1>3. OneSchedules' <=> OneSchedules
  BY <1>1 DEF OneSchedules, BgQuiet
<1>4. CallbackPlaced'
  BY <1>2, <1>3 DEF BgInv, BgQuiet, CallbackPlaced, CallbackNowhere, CallbackQueued, CallbackComing, CallbackRunning
<1>5. CloseOrder'
  BY DEF BgInv, BgQuiet, CloseOrder, RunningPC
<1>6. FlushScheduled'
  BY DEF BgInv, BgQuiet, FlushScheduled, shuttingdown
<1> QED
  BY <1>4, <1>5, <1>6 DEF BgInv

(* notify_all neither schedules nor moves the background thread.           *)
LEMMA NotifyAllBg ==
  ASSUME TypeOK
  PROVE  /\ \A t \in Writer : NotifyAll(pc)[t] = "sched" <=> pc[t] = "sched"
         /\ NotifyAll(pc)[BG] = pc[BG]
         /\ NotifyAll(pc)[Main] = pc[Main] \/ (pc[Main] = "closewait" /\ NotifyAll(pc)[Main] = "closing")
         /\ DOMAIN NotifyAll(pc) = Thread
BY DEF TypeOK, ThreadsOK, PcOK, NotifyAll, Thread, WriterPC, MainPC, BgPC

(* What Write does is quiet, but for the switch of the memtable.           *)
LEMMA WriterBgQuiet ==
  ASSUME TypeOK, QueueInv, NEW t \in Writer,
         \/ Calls(t) \/ Wake(t) \/ RoomError(t) \/ RoomDelay(t) \/ RoomFound(t)
         \/ RoomWait(t) \/ RoomAgain(t) \/ BuildBatchGroup(t) \/ AddRecord(t)
         \/ SyncLog(t) \/ InsertInto(t) \/ Relock(t) \/ Finish(t) \/ ImmCheck(t)
  PROVE  BgQuiet
<1> DEFINE Moves(p, q) == /\ \A x \in Writer : q[x] = "sched" <=> p[x] = "sched"
                          /\ q[BG] = p[BG] /\ q[Main] = p[Main]
<1>1. /\ pc \in [Thread -> WriterPC \cup MainPC \cup BgPC] /\ t \in Thread
      /\ \A x \in Writer : x \in Thread
      /\ BG \in Thread /\ Main \in Thread /\ t # BG /\ t # Main
  BY ConstantsAssumption DEF TypeOK, ThreadsOK, PcOK, Thread
<1>2. ASSUME pc[t] # "sched", NEW v, v # "sched", pc' = [pc EXCEPT ![t] = v]
      PROVE  Moves(pc, pc')
  BY <1>1, <1>2
<1>3. CASE Calls(t)
  <2>1. PICK b \in Batch \cup {Nil}, sync \in BOOLEAN : Enqueue(t, b, sync)
    BY <1>3 DEF Calls
  <2>2. Moves(pc, pc')
    <3>1. pc[t] # "sched" /\ \E v \in {"room", "wait"} : pc' = [pc EXCEPT ![t] = v]
      BY <2>1 DEF Enqueue
    <3> QED
      BY <3>1, <1>2
  <2> QED
    BY <2>1, <2>2 DEF Enqueue, BgQuiet, dataVars, bgVars
<1>4. CASE Wake(t)
  <2>1. Moves(pc, pc')
    <3>1. pc[t] # "sched" /\ \E v \in {"idle", "immcheck", "room", "wait"} : pc' = [pc EXCEPT ![t] = v]
      BY <1>4 DEF Wake, AfterWrite
    <3> QED
      BY <3>1, <1>2
  <2> QED
    BY <1>4, <2>1 DEF Wake, BgQuiet, dataVars, bgVars
<1>5. CASE RoomError(t)
  BY <1>5, <1>2 DEF RoomError, BgQuiet, dataVars, bgVars
<1>6. CASE RoomDelay(t)
  BY <1>6, <1>2 DEF RoomDelay, BgQuiet, dataVars, bgVars
<1>7. CASE RoomFound(t)
  BY <1>7, <1>2 DEF RoomFound, BgQuiet, dataVars, bgVars
<1>8. CASE RoomWait(t)
  BY <1>8, <1>2 DEF RoomWait, BgQuiet, dataVars, bgVars
<1>9. CASE RoomAgain(t)
  BY <1>9, <1>2 DEF RoomAgain, BgQuiet, dataVars, bgVars
<1>10. CASE BuildBatchGroup(t)
  <2>1. Moves(pc, pc')
    <3>1. pc[t] = "build" /\ (pc' = pc \/ \E v \in {"finish", "log"} : pc' = [pc EXCEPT ![t] = v])
      BY <1>10 DEF BuildBatchGroup
    <3> QED
      BY <3>1, <1>2
  <2> QED
    BY <1>10, <2>1 DEF BuildBatchGroup, BgQuiet, dataVars, bgVars
<1>11. CASE AddRecord(t)
  <2>1. Moves(pc, pc')
    <3>1. pc[t] # "sched" /\ \E v \in {"sync", "insert", "relock"} : pc' = [pc EXCEPT ![t] = v]
      BY <1>11 DEF AddRecord, AfterLog
    <3> QED
      BY <3>1, <1>2
  <2> QED
    BY <1>11, <2>1 DEF AddRecord, BgQuiet, bgVars
<1>12. CASE SyncLog(t)
  <2>1. Moves(pc, pc')
    <3>1. pc[t] # "sched" /\ \E v \in {"insert", "relock"} : pc' = [pc EXCEPT ![t] = v]
      BY <1>12 DEF SyncLog, AfterSync
    <3> QED
      BY <3>1, <1>2
  <2> QED
    BY <1>12, <2>1 DEF SyncLog, BgQuiet, bgVars
<1>13. CASE InsertInto(t)
  BY <1>13, <1>2 DEF InsertInto, BgQuiet, bgVars
<1>14. CASE Relock(t)
  <2>1. pc[t] = "relock" /\ (\/ pc' = [pc EXCEPT ![t] = "finish"]
                            \/ pc' = [NotifyAll(pc) EXCEPT ![t] = "finish"])
    BY <1>14 DEF Relock, AfterError
  <2>2. /\ \A x \in Writer : pc'[x] = "sched" <=> pc[x] = "sched"
        /\ pc'[BG] = pc[BG]
        /\ pc'[Main] = pc[Main] \/ (pc[Main] = "closewait" /\ pc'[Main] = "closing")
    BY <2>1, <1>1, NotifyAllBg
  <2>3. bgerror => bgerror'
    BY <1>14 DEF Relock
  <2> QED
    BY <1>14, <2>2, <2>3 DEF Relock, BgQuiet, bgVars
<1>15. CASE Finish(t)
  <2> DEFINE n == w[t].last
             members == {writers[i] : i \in (2..n) \cap DOMAIN writers}
             S == members \cup NextHead(n)
  <2>1. pc[t] = "finish" /\ pc' = [x \in Thread |->
                    CASE x = t -> AfterWrite(t, w[t].status)
                      [] x # t /\ x \in S -> "woken"
                      [] OTHER -> pc[x]]
    BY <1>15 DEF Finish
  <2>2. S \subseteq Writer
    BY DEF NextHead, TypeOK, ThreadsOK, LocalsOK, WriterRecord
  <2>3. \A x \in Writer : pc[x] # "sched"
    BY <2>1 DEF QueueInv, LeaderIsHead, LeaderPC
  <2> HIDE DEF S
  <2>4. Moves(pc, pc')
    <3>1. \A x \in Writer : pc'[x] # "sched"
      BY <2>1, <2>3, <1>1 DEF AfterWrite
    <3>2. BG \notin S /\ Main \notin S
      BY <2>2, ConstantsAssumption
    <3>3. pc'[BG] = pc[BG] /\ pc'[Main] = pc[Main]
      BY <2>1, <3>2, <1>1
    <3> QED
      BY <2>3, <3>1, <3>3
  <2> QED
    BY <1>15, <2>4 DEF Finish, BgQuiet, dataVars, bgVars
<1>16. CASE ImmCheck(t)
  <2>1. Moves(pc, pc')
    <3>1. pc[t] # "sched" /\ \E v \in {"immwait", "idle"} : pc' = [pc EXCEPT ![t] = v]
      BY <1>16 DEF ImmCheck
    <3> QED
      BY <3>1, <1>2
  <2> QED
    BY <1>16, <2>1 DEF ImmCheck, BgQuiet, dataVars, bgVars
<1> QED
  BY <1>3, <1>4, <1>5, <1>6, <1>7, <1>8, <1>9, <1>10, <1>11, <1>12, <1>13, <1>14, <1>15, <1>16

(* So is the work of the background thread between taking a callback and   *)
(* clearing the flag.                                                      *)
LEMMA WorkBgQuiet ==
  ASSUME TypeOK,
         \/ BackgroundCallback \/ BgFlush \/ BgCompactImm
         \/ BgCompactImmNotify \/ BgCompactDone
  PROVE  BgQuiet
<1>1. /\ pc \in [Thread -> WriterPC \cup MainPC \cup BgPC]
      /\ \A x \in Writer : x \in Thread /\ x # BG
      /\ BG \in Thread /\ Main \in Thread /\ Main # BG
  BY ConstantsAssumption DEF TypeOK, ThreadsOK, PcOK, Thread
<1>2. ASSUME pc[BG] \in RunningPC, NEW v \in RunningPC,
             pc' = [pc EXCEPT ![BG] = v] \/ pc' = [NotifyAll(pc) EXCEPT ![BG] = v],
             UNCHANGED <<bgscheduled, bgqueue>>, hasimm' => hasimm, bgerror => bgerror'
      PROVE  BgQuiet
  BY <1>1, <1>2, NotifyAllBg DEF BgQuiet
<1> USE DEF RunningPC
<1>3. CASE BackgroundCallback
  <2>1. \E v \in {"flush", "compact", "done"} : pc' = [pc EXCEPT ![BG] = v]
    BY <1>3 DEF BackgroundCallback
  <2> QED
    BY <1>2, <1>3, <2>1 DEF BackgroundCallback, dataVars, bgVars
<1>4. ASSUME NEW next \in RunningPC, pc[BG] \in RunningPC, CompactMemTable(next)
      PROVE  BgQuiet
  <2>1. pc' = [pc EXCEPT ![BG] = next] \/ pc' = [NotifyAll(pc) EXCEPT ![BG] = next]
    BY <1>4 DEF CompactMemTable, AfterError
  <2>2. (hasimm' => hasimm) /\ (bgerror => bgerror') /\ UNCHANGED <<bgscheduled, bgqueue>>
    BY <1>4 DEF CompactMemTable, bgVars
  <2> QED
    BY <1>2, <1>4, <2>1, <2>2
<1>5. CASE BgFlush
  BY <1>4, <1>5 DEF BgFlush
<1>6. CASE BgCompactImm
  BY <1>4, <1>6 DEF BgCompactImm
<1>7. CASE BgCompactImmNotify
  BY <1>2, <1>7 DEF BgCompactImmNotify, dataVars, bgVars
<1>8. CASE BgCompactDone
  <2>1. pc' = [pc EXCEPT ![BG] = "done"] \/ pc' = [NotifyAll(pc) EXCEPT ![BG] = "done"]
    BY <1>8 DEF BgCompactDone, AfterError
  <2>2. bgerror => bgerror'
    BY <1>8 DEF BgCompactDone
  <2> QED
    BY <1>2, <1>8, <2>1, <2>2 DEF BgCompactDone, bgVars
<1> QED
  BY <1>3, <1>5, <1>6, <1>7, <1>8

(* The thread that switches the memtable sets the flag unless it is set or *)
(* an error stops the database.                                            *)
LEMMA RoomSwitchBg ==
  ASSUME TypeOK, BgInv, NEW t \in Writer, RoomSwitch(t)
  PROVE  BgInv'
<1>1. /\ pc \in [Thread -> WriterPC \cup MainPC \cup BgPC] /\ t \in Thread
      /\ \A x \in Writer : x \in Thread
      /\ BG \in Thread /\ Main \in Thread /\ t # BG /\ t # Main
  BY ConstantsAssumption DEF TypeOK, ThreadsOK, PcOK, Thread
<1>2. pc[t] = "room" /\ ~bgerror /\ bgqueue' = bgqueue /\ bgerror' = bgerror
  BY DEF RoomSwitch
<1>3. CASE bgscheduled' = bgscheduled /\ pc' = pc /\ ~ShouldSchedule(bgscheduled, TRUE)
  <2>1. CallbackPlaced' /\ CloseOrder'
    BY <1>2, <1>3 DEF BgInv, CallbackPlaced, CloseOrder, CallbackNowhere, CallbackQueued,
          CallbackComing, CallbackRunning, NobodySchedules, OneSchedules
  <2>2. FlushScheduled'
    BY <1>2, <1>3 DEF ShouldSchedule, FlushScheduled, shuttingdown
  <2> QED
    BY <2>1, <2>2 DEF BgInv
<1>4. CASE /\ bgscheduled' = TRUE /\ pc' = [pc EXCEPT ![t] = "sched"]
           /\ ShouldSchedule(bgscheduled, TRUE)
  <2>1. ~bgscheduled /\ pc[Main] = "open"
    BY <1>4 DEF ShouldSchedule, shuttingdown
  <2>2. CallbackNowhere /\ bgqueue = << >>
    BY <2>1 DEF BgInv, CallbackPlaced, CallbackNowhere, CallbackQueued, CallbackComing,
                CallbackRunning, CloseOrder
  <2>3. pc'[t] = "sched" /\ \A x \in Writer \cup {BG} : pc'[x] = "sched" => x = t
    BY <2>2, <1>1, <1>4 DEF CallbackNowhere, NobodySchedules
  <2>4. pc'[BG] = pc[BG] /\ pc'[Main] = pc[Main]
    BY <1>1, <1>4
  <2>5. CallbackComing'
    BY <2>2, <2>3, <2>4, <1>2, <1>4 DEF CallbackComing, CallbackNowhere, OneSchedules
  <2>6. CloseOrder'
    BY <2>1, <2>4, <1>2 DEF BgInv, CloseOrder
  <2> QED
    BY <2>5, <2>6, <1>4 DEF BgInv, CallbackPlaced, FlushScheduled
<1>5. CASE pc' = [pc EXCEPT ![t] = "finish"] /\ hasimm' = hasimm /\ bgscheduled' = bgscheduled
  BY <1>1, <1>2, <1>5, BgQuietStep DEF BgQuiet
<1> QED
  BY <1>3, <1>4, <1>5 DEF RoomSwitch

(* Env::Schedule turns the callback that is coming into the one queued.    *)
LEMMA ScheduleBg ==
  ASSUME TypeOK, BgInv, NEW t \in Writer \cup {BG}, Schedule(t)
  PROVE  BgInv'
<1>1. /\ pc \in [Thread -> WriterPC \cup MainPC \cup BgPC] /\ t \in Thread
      /\ \A x \in Writer : x \in Thread
      /\ BG \in Thread /\ Main \in Thread /\ t # Main /\ BG # Main
      /\ \A x \in Writer : x # BG /\ x # Main
  BY ConstantsAssumption DEF TypeOK, ThreadsOK, PcOK, Thread
<1>2. /\ pc[t] = "sched" /\ bgqueue' = Append(bgqueue, "callback")
      /\ bgscheduled' = bgscheduled /\ hasimm' = hasimm /\ bgerror' = bgerror
  BY DEF Schedule, dataVars
<1>3. CallbackComing
  BY <1>2 DEF BgInv, CallbackPlaced, CallbackNowhere, CallbackQueued, CallbackRunning, NobodySchedules
<1>4. \A x \in Writer \cup {BG} : pc[x] = "sched" => x = t
  BY <1>2, <1>3 DEF CallbackComing, OneSchedules
<1>5. bgqueue' = <<"callback">> /\ <<"callback">> # <<"empty">> /\ bgscheduled
  BY <1>2, <1>3 DEF CallbackComing
<1>6. pc[Main] \notin {"exitschedule", "join", "closed"}
  BY <1>5 DEF BgInv, CloseOrder
<1>7. /\ \A x \in Writer : pc'[x] # "sched"
      /\ pc'[BG] \in {"exit", "idle"} \/ (pc'[BG] = pc[BG] /\ pc[BG] # "unstarted" /\ pc[BG] # "sched")
      /\ pc'[Main] = pc[Main] \/ (pc[Main] = "closewait" /\ pc'[Main] = "closing")
  <2>1. CASE t = BG
    <3>1. pc' = [NotifyAll(pc) EXCEPT ![BG] = "exit"]
      BY <2>1 DEF Schedule
    <3>2. \A x \in Writer : pc[x] # "sched"
      BY <1>1, <1>4, <2>1
    <3> QED
      BY <3>1, <3>2, <1>1, NotifyAllBg
  <2>2. CASE t # BG
    <3>1. pc' = [pc EXCEPT ![t] = "room", ![BG] = IF @ = "unstarted" THEN "idle" ELSE @]
      BY <2>2 DEF Schedule
    <3>2. pc[BG] # "sched"
      BY <1>4, <2>2
    <3>3. pc'[t] = "room" /\ \A x \in Writer : x # t => pc'[x] = pc[x]
      BY <3>1, <1>1, <2>2
    <3>4. pc'[BG] = (IF pc[BG] = "unstarted" THEN "idle" ELSE pc[BG]) /\ pc'[Main] = pc[Main]
      BY <3>1, <1>1, <2>2
    <3> QED
      BY <3>2, <3>3, <3>4, <1>4
  <2> QED
    BY <2>1, <2>2
<1>8. CallbackQueued'
  BY <1>2, <1>3, <1>5, <1>7 DEF CallbackQueued, CallbackComing, NobodySchedules, RunningPC
<1>9. CloseOrder'
  BY <1>2, <1>5, <1>6, <1>7 DEF BgInv, CloseOrder
<1>10. FlushScheduled'
  BY <1>2, <1>5 DEF FlushScheduled
<1> QED
  BY <1>8, <1>9, <1>10 DEF BgInv, CallbackPlaced

(* The destructor passes its wait only when no callback is scheduled, and  *)
(* nothing can schedule one then.                                          *)
LEMMA CloseBg ==
  ASSUME TypeOK, BgInv, CloseStep
  PROVE  BgInv'
<1>1. /\ pc \in [Thread -> WriterPC \cup MainPC \cup BgPC]
      /\ \A x \in Writer : x \in Thread /\ x # BG /\ x # Main
      /\ BG \in Thread /\ Main \in Thread /\ BG # Main
  BY ConstantsAssumption DEF TypeOK, ThreadsOK, PcOK, Thread
<1>2. PICK v \in MainPC : pc' = [pc EXCEPT ![Main] = v]
  BY DEF CloseStep, CloseDB, ExitSchedule, Join, MainPC
<1>3. pc'[Main] = v /\ \A x \in Writer \cup {BG} : pc'[x] = pc[x]
  BY <1>1, <1>2
<1>4. bgscheduled' = bgscheduled /\ hasimm' = hasimm /\ bgerror' = bgerror
  BY DEF CloseStep, CloseDB, ExitSchedule, Join, dataVars, bgVars
<1>5. NobodySchedules' <=> NobodySchedules
  BY <1>3 DEF NobodySchedules
<1>6. OneSchedules' <=> OneSchedules
  BY <1>3 DEF OneSchedules
<1>7. bgqueue' = bgqueue => CallbackPlaced'
  BY <1>3, <1>4, <1>5, <1>6
     DEF BgInv, CallbackPlaced, CallbackNowhere, CallbackQueued, CallbackComing, CallbackRunning
<1>8. CASE CloseDB
  <2>1. bgqueue' = bgqueue /\ v = (IF bgscheduled THEN "closewait" ELSE "exitschedule")
        /\ pc[Main] \in {"open", "closing"}
    BY <1>8, <1>2, <1>3, <1>1 DEF CloseDB, bgVars
  <2>2. CloseOrder'
    BY <2>1, <1>3, <1>4 DEF BgInv, CloseOrder
  <2>3. FlushScheduled'
    BY <2>1, <1>3 DEF FlushScheduled, shuttingdown
  <2> QED
    BY <2>1, <2>2, <2>3, <1>7 DEF BgInv
<1>9. CASE ExitSchedule
  <2>1. pc[Main] = "exitschedule" /\ v # "open"
    BY <1>9, <1>1, <1>3 DEF ExitSchedule
  <2>2. ~bgscheduled /\ CallbackNowhere /\ bgqueue = << >>
    BY <2>1 DEF BgInv, CloseOrder, CallbackPlaced, CallbackNowhere, CallbackQueued, CallbackComing,
                CallbackRunning
  <2>3. CASE pc[BG] = "unstarted"
    <3>1. v = "closed" /\ bgqueue' = bgqueue
      BY <1>9, <2>3, <1>1, <1>3 DEF ExitSchedule
    <3>2. CloseOrder'
      BY <2>2, <2>3, <3>1, <1>3, <1>4 DEF CloseOrder
    <3> QED
      BY <2>1, <3>1, <3>2, <1>3, <1>7 DEF BgInv, FlushScheduled, shuttingdown
  <2>4. CASE pc[BG] # "unstarted"
    <3>1. v = "join" /\ bgqueue' = Append(bgqueue, "empty")
      BY <1>9, <2>4, <1>1, <1>3 DEF ExitSchedule
    <3>2. bgqueue' = <<"empty">>
      BY <2>2, <3>1
    <3>3. CallbackNowhere'
      BY <2>2, <3>2, <1>3, <1>4, <1>5 DEF CallbackNowhere
    <3>4. CloseOrder'
      BY <2>2, <2>4, <3>1, <1>3, <1>4 DEF CloseOrder
    <3> QED
      BY <2>1, <3>1, <3>3, <3>4, <1>3 DEF BgInv, CallbackPlaced, FlushScheduled, shuttingdown
  <2> QED
    BY <2>3, <2>4
<1>10. CASE Join
  <2>1. /\ bgqueue' = bgqueue /\ v = "closed" /\ pc[Main] = "join" /\ pc[BG] = "stopped"
    BY <1>10, <1>1, <1>2, <1>3 DEF Join, bgVars
  <2>2. CloseOrder'
    BY <2>1, <1>3, <1>4 DEF BgInv, CloseOrder
  <2> QED
    BY <2>1, <2>2, <1>3, <1>7 DEF BgInv, FlushScheduled, shuttingdown
<1> QED
  BY <1>8, <1>9, <1>10 DEF CloseStep

(* The background thread takes the callback out of the queue, or finds the *)
(* empty functor of ExitSchedule.                                          *)
LEMMA TakeBg ==
  ASSUME TypeOK, BgInv, BgTake
  PROVE  BgInv'
<1>1. /\ pc \in [Thread -> WriterPC \cup MainPC \cup BgPC]
      /\ \A x \in Writer : x \in Thread /\ x # BG /\ x # Main
      /\ BG \in Thread /\ Main \in Thread /\ BG # Main
  BY ConstantsAssumption DEF TypeOK, ThreadsOK, PcOK, Thread
<1>2. /\ pc[BG] = "idle" /\ bgqueue # << >> /\ bgqueue' = Tail(bgqueue)
      /\ pc' = [pc EXCEPT ![BG] = IF Head(bgqueue) = "empty" THEN "exit" ELSE "callback"]
      /\ bgscheduled' = bgscheduled /\ hasimm' = hasimm /\ bgerror' = bgerror
  BY DEF BgTake, dataVars
<1>3. /\ \A x \in Writer \cup {Main} : pc'[x] = pc[x]
      /\ pc'[BG] = (IF Head(bgqueue) = "empty" THEN "exit" ELSE "callback")
  BY <1>1, <1>2
<1>4. CallbackQueued \/ (CallbackNowhere /\ bgqueue = <<"empty">>)
  BY <1>2 DEF BgInv, CallbackPlaced, CallbackNowhere, CallbackComing, CallbackRunning
<1>5. NobodySchedules /\ NobodySchedules'
  BY <1>3, <1>4 DEF CallbackQueued, CallbackNowhere, NobodySchedules
<1>6. bgqueue' = << >> /\ << >> # <<"empty">>
  <2>1. bgqueue \in {<<"callback">>, <<"empty">>}
    BY <1>4 DEF CallbackQueued
  <2>2. Tail(<<"callback">>) = << >> /\ Tail(<<"empty">>) = << >>
    OBVIOUS
  <2> QED
    BY <2>1, <2>2, <1>2
<1>7. CallbackPlaced'
  <2>1. CASE CallbackQueued
    <3>1. pc'[BG] = "callback"
      BY <2>1, <1>3 DEF CallbackQueued
    <3> QED
      BY <2>1, <3>1, <1>2, <1>5, <1>6 DEF CallbackPlaced, CallbackQueued, CallbackRunning, RunningPC
  <2>2. CASE CallbackNowhere /\ bgqueue = <<"empty">>
    <3>1. pc'[BG] = "exit"
      BY <2>2, <1>3
    <3> QED
      BY <2>2, <3>1, <1>2, <1>5, <1>6 DEF CallbackPlaced, CallbackNowhere, RunningPC
  <2> QED
    BY <1>4, <2>1, <2>2
<1>8. CloseOrder'
  BY <1>2, <1>3, <1>6 DEF BgInv, CloseOrder
<1>9. FlushScheduled'
  BY <1>2, <1>3 DEF BgInv, FlushScheduled, shuttingdown
<1> QED
  BY <1>7, <1>8, <1>9 DEF BgInv

(* BackgroundCallback leaves the flag clear only when there is nothing to  *)
(* write, and keeps it set when it schedules itself again.                 *)
LEMMA RescheduleBg ==
  ASSUME TypeOK, BgInv, BgReschedule
  PROVE  BgInv'
<1>1. /\ pc \in [Thread -> WriterPC \cup MainPC \cup BgPC]
      /\ \A x \in Writer : x \in Thread /\ x # BG /\ x # Main
      /\ BG \in Thread /\ Main \in Thread /\ BG # Main
  BY ConstantsAssumption DEF TypeOK, ThreadsOK, PcOK, Thread
<1>2. pc[BG] = "done" /\ bgqueue' = bgqueue /\ hasimm' = hasimm /\ bgerror' = bgerror
  BY DEF BgReschedule, dataVars
<1>3. CallbackRunning
  BY <1>2 DEF BgInv, CallbackPlaced, CallbackNowhere, CallbackQueued, CallbackComing, RunningPC
<1>4. CASE /\ ShouldSchedule(FALSE, hasimm) /\ bgscheduled' = TRUE
           /\ pc' = [pc EXCEPT ![BG] = "sched"]
  <2>1. pc'[BG] = "sched" /\ \A x \in Writer \cup {Main} : pc'[x] = pc[x]
    BY <1>1, <1>4
  <2>2. OneSchedules'
    BY <2>1, <1>3 DEF OneSchedules, CallbackRunning, NobodySchedules
  <2>3. CallbackComing'
    BY <2>1, <2>2, <1>2, <1>3, <1>4 DEF CallbackComing, CallbackRunning, RunningPC
  <2>4. CloseOrder'
    BY <2>1, <1>2, <1>3, <1>4 DEF BgInv, CloseOrder, CallbackRunning
  <2> QED
    BY <2>3, <2>4, <1>4 DEF BgInv, CallbackPlaced, FlushScheduled
<1>5. CASE /\ ~ShouldSchedule(FALSE, hasimm) /\ bgscheduled' = FALSE
           /\ pc' = [NotifyAll(pc) EXCEPT ![BG] = "exit"]
  <2>1. /\ pc'[BG] = "exit" /\ \A x \in Writer : pc'[x] = "sched" <=> pc[x] = "sched"
        /\ pc'[Main] = pc[Main] \/ (pc[Main] = "closewait" /\ pc'[Main] = "closing")
    BY <1>1, <1>5, NotifyAllBg
  <2>2. CallbackNowhere'
    BY <2>1, <1>2, <1>3, <1>5 DEF CallbackNowhere, CallbackRunning, NobodySchedules, RunningPC
  <2>3. CloseOrder'
    BY <2>1, <1>2, <1>3, <1>5 DEF BgInv, CloseOrder, CallbackRunning
  <2>4. FlushScheduled'
    BY <2>1, <1>2, <1>5 DEF FlushScheduled, ShouldSchedule, shuttingdown
  <2> QED
    BY <2>2, <2>3, <2>4 DEF BgInv, CallbackPlaced
<1> QED
  BY <1>4, <1>5 DEF BgReschedule

(* The functor returns; the thread stops only after the destructor asked.  *)
LEMMA ExitBg ==
  ASSUME TypeOK, BgInv, BgExit
  PROVE  BgInv'
<1>1. /\ pc \in [Thread -> WriterPC \cup MainPC \cup BgPC]
      /\ \A x \in Writer : x \in Thread /\ x # BG /\ x # Main
      /\ BG \in Thread /\ Main \in Thread /\ BG # Main /\ pc[Main] \in MainPC
  BY ConstantsAssumption DEF TypeOK, ThreadsOK, PcOK, Thread
<1>2. PICK next \in {"idle", "stopped"} :
        /\ pc[Main] \in {"open", "closing", "closewait"} => next = "idle"
        /\ pc[Main] \in {"join", "closed"} => next = "stopped"
        /\ pc' = [pc EXCEPT ![BG] = next]
  BY DEF BgExit
<1>3. /\ pc[BG] = "exit" /\ bgqueue' = bgqueue /\ bgscheduled' = bgscheduled
      /\ hasimm' = hasimm /\ bgerror' = bgerror
  BY DEF BgExit, dataVars
<1>4. pc'[BG] = next /\ \A x \in Writer \cup {Main} : pc'[x] = pc[x]
  BY <1>1, <1>2
<1>5. NobodySchedules' <=> NobodySchedules
  BY <1>3, <1>4 DEF NobodySchedules
<1>6. OneSchedules' <=> OneSchedules
  BY <1>3, <1>4 DEF OneSchedules
<1>7. CallbackPlaced'
  BY <1>3, <1>4, <1>5, <1>6
     DEF BgInv, CallbackPlaced, CallbackNowhere, CallbackQueued, CallbackComing, CallbackRunning, RunningPC
<1>8. CloseOrder'
  BY <1>1, <1>2, <1>3, <1>4 DEF BgInv, CloseOrder, MainPC
<1>9. FlushScheduled'
  BY <1>3, <1>4 DEF BgInv, FlushScheduled, shuttingdown
<1> QED
  BY <1>7, <1>8, <1>9 DEF BgInv

(* The flag, the queue and the background thread agree in every behaviour. *)
THEOREM BackgroundCorrect == Spec => []BgInv
<1>1. TypeOK /\ QueueInv /\ BgInv /\ [Next]_vars => BgInv'
  <2> SUFFICES ASSUME TypeOK, QueueInv, BgInv, [Next]_vars PROVE BgInv'
    OBVIOUS
  <2>1. ASSUME NEW t \in Writer, Calls(t) \/ WriterStep(t) PROVE BgInv'
    BY <2>1, WriterBgQuiet, BgQuietStep, RoomSwitchBg DEF WriterStep
  <2>2. ASSUME NEW t \in Writer \cup {BG}, Schedule(t) PROVE BgInv'
    BY <2>2, ScheduleBg
  <2>3. CASE CloseStep
    BY <2>3, CloseBg
  <2>4. CASE BgStep
    BY <2>4, TakeBg, WorkBgQuiet, BgQuietStep, RescheduleBg, ExitBg DEF BgStep
  <2>5. CASE UNCHANGED vars
    BY <2>5, BgQuietStep DEF vars, BgQuiet
  <2> QED
    BY <2>1, <2>2, <2>3, <2>4, <2>5 DEF Next
<1> QED
  BY InitBg, <1>1, TypeCorrect, QueueCorrect, PTL DEF Spec

(* bgcompactionscheduled stands for exactly one callback, queued, coming   *)
(* or running, and the destructor returns only after the thread stopped.   *)
THEOREM OneCallbackCorrect == Spec => []OneCallback
BY PlacedIsCounted, TypeCorrect, BackgroundCorrect, PTL

(* While a full memtable waits, a callback is scheduled: a writer waiting  *)
(* in MakeRoomForWrite has somebody to wake it.                            *)
THEOREM FlushScheduledCorrect == Spec => []FlushScheduled
<1>1. BgInv => FlushScheduled
  BY DEF BgInv
<1> QED
  BY <1>1, BackgroundCorrect, PTL

-----------------------------------------------------------------------------
(* What the calls log, insert and report.                                  *)

Stored == log \cup Readable

(* What has to be true of batch b before its call may return status: the   *)
(* three promises of DB::Write.  A failed BuildTable loses the immutable   *)
(* memtable (CompactMemTable), so the first holds only without it.         *)
Kept(b) == \E e \in Readable : e.batch = b /\ e.seq <= lastsequence
Durable(b) == \E e \in log : e.batch = b /\ e.synced
Invisible(b) == \A e \in Readable : e.batch # b
Outcome(b, status) ==
  /\ status = "ok" /\ "build" \notin Faults => Kept(b)
  /\ status = "ok" /\ b \in wantsync => Durable(b)
  /\ status = "error" => Invisible(b)

OutsidePC == {"idle", "immcheck", "immwait"}
RoomPC == {"room", "reroom", "waitbg", "sched", "build"}

(* A batch is in flight in one call only, and its number was given out.    *)
CallsDistinct ==
  /\ \A t \in Writer : pc[t] \in OutsidePC => w[t].batch = Nil
  /\ \A t \in Writer : w[t].batch # Nil =>
       /\ w[t].batch <= ncalls /\ result[w[t].batch] = "none"
       /\ (w[t].sync <=> w[t].batch \in wantsync)
  /\ \A t, u \in Writer : w[t].batch # Nil /\ w[t].batch = w[u].batch => t = u
NumbersGiven ==
  /\ \A b \in Batch : result[b] # "none" => b <= ncalls
  /\ \A b \in wantsync : b <= ncalls
  /\ \A e \in Stored : e.batch <= ncalls

(* A queued call has not failed yet, and is alone before it builds a group.*)
StatusInv ==
  \A t \in Writer :
    /\ \/ pc[t] \in RoomPC \cup {"wait", "log", "sync", "insert"}
       \/ pc[t] = "woken" /\ ~w[t].done
       => w[t].status = "ok"
    /\ \/ pc[t] \in RoomPC \cup {"wait"}
       \/ pc[t] = "woken" /\ ~w[t].done
       => w[t].last = 1

(* The group that the head t is logging: its updates number the batches of *)
(* the first w[t].last calls of the queue, above lastsequence.             *)
LoggerInv(t) ==
  pc[t] \in LoggingPC =>
    /\ \A e \in w[t].updates : \E i \in 1..w[t].last : w[writers[i]].batch = e.batch
    /\ \A i \in 1..w[t].last : w[writers[i]].batch # Nil =>
         /\ \E e \in w[t].updates : e.batch = w[writers[i]].batch
         /\ w[writers[i]].sync => w[t].sync
    /\ \A d, e \in w[t].updates : d.seq = e.seq <=> d.batch = e.batch
    /\ \A e \in w[t].updates : lastsequence < e.seq /\ e.seq <= lastsequence + w[t].count

(* How far the group is: appended to the current log file, synced if the   *)
(* head asks for it, inserted into mem; at the end every member has what   *)
(* the status promises.                                                    *)
PhaseInv(t) ==
  /\ pc[t] = "sync" =>
       \A e \in w[t].updates : \E d \in log : d.batch = e.batch /\ d.file = logfilenumber
  /\ w[t].sync /\ (pc[t] = "insert" \/ (pc[t] = "relock" /\ w[t].status = "ok")) =>
       \A e \in w[t].updates : Durable(e.batch)
  /\ pc[t] = "relock" /\ w[t].status = "ok" => w[t].updates \subseteq mem
  /\ pc[t] = "finish" =>
       \A i \in 1..w[t].last : w[writers[i]].batch # Nil =>
         Outcome(w[writers[i]].batch, w[t].status)

(* An entry in the log or in a table belongs to no pending call - except   *)
(* those of the group that is about to leave - or to the group being logged*)
(* and then a reader can see it only if the insert succeeded.              *)
Settled(d) ==
  /\ d.seq <= lastsequence
  /\ \A i \in DOMAIN writers : w[writers[i]].batch = d.batch =>
       pc[writers[1]] = "finish" /\ i <= w[writers[1]].last
Pending(d) ==
  \E t \in Writer :
    /\ pc[t] \in {"sync", "insert", "relock"}
    /\ \E e \in w[t].updates : e.seq = d.seq /\ e.batch = d.batch
    /\ d \in Readable => pc[t] = "relock" /\ w[t].status = "ok"
EntriesPlaced == \A d \in Stored : Settled(d) \/ Pending(d)

MembersInv ==
  \A t \in Writer : pc[t] = "woken" /\ w[t].done /\ w[t].batch # Nil =>
    Outcome(w[t].batch, w[t].status)
ResultInv == \A b \in Batch : Outcome(b, result[b])
ImmEmpty == ~hasimm => imm = {}

DataInv ==
  /\ CallsDistinct /\ NumbersGiven /\ StatusInv
  /\ \A t \in Writer : LoggerInv(t) /\ PhaseInv(t)
  /\ EntriesPlaced /\ SequenceUnique /\ MembersInv /\ ResultInv /\ ImmEmpty

-----------------------------------------------------------------------------
LEMMA InitData == Init => DataInv
<1> SUFFICES ASSUME Init PROVE DataInv
  OBVIOUS
<1>1. \A t \in Writer : pc[t] = "idle" /\ w[t].batch = Nil
  BY ConstantsAssumption DEF Init, Thread, IdleWriter
<1>2. Stored = {} /\ wantsync = {} /\ imm = {} /\ \A b \in Batch : result[b] = "none"
  BY DEF Init, Stored, Readable
<1>3. CallsDistinct /\ NumbersGiven /\ StatusInv
  BY <1>1, <1>2 DEF CallsDistinct, NumbersGiven, StatusInv, RoomPC
<1>4. \A t \in Writer : LoggerInv(t) /\ PhaseInv(t)
  BY <1>1 DEF LoggerInv, PhaseInv, LoggingPC
<1>5. EntriesPlaced /\ SequenceUnique
  BY <1>2 DEF EntriesPlaced, SequenceUnique, Stored, Readable
<1>6. MembersInv /\ ResultInv
  BY <1>1, <1>2 DEF MembersInv, ResultInv, Outcome
<1> QED
  BY <1>2, <1>3, <1>4, <1>5, <1>6 DEF DataInv, ImmEmpty

(* What keeps an outcome: the log loses nothing, readers lose nothing but  *)
(* to a failed build, and nothing of this batch appears.                   *)
LEMMA OutcomeKept ==
  ASSUME NEW S,
         lastsequence \in Nat, lastsequence' \in Nat, lastsequence <= lastsequence',
         \A d \in log : \E e \in log' : e.batch = d.batch /\ (d.synced => e.synced),
         "build" \notin Faults => Readable \subseteq Readable',
         \A e \in Readable : e.seq \in Nat,
         \A e \in Readable' : e \in Readable \/ e.batch \in S,
         \A b \in wantsync' : b \in wantsync \/ b \in S
  PROVE  \A b, status : b \notin S /\ Outcome(b, status) => Outcome(b, status)'
<1> SUFFICES ASSUME NEW b, NEW status, b \notin S, Outcome(b, status)
             PROVE  Outcome(b, status)'
  OBVIOUS
<1>1. Kept(b) /\ "build" \notin Faults => Kept(b)'
  BY DEF Kept
<1>2. Durable(b) => Durable(b)'
  BY DEF Durable
<1>3. Invisible(b) => Invisible(b)'
  BY DEF Invisible
<1> QED
  BY <1>1, <1>2, <1>3 DEF Outcome

(* Steps that neither log nor insert nor complete anything.                *)
DataQuiet ==
  /\ UNCHANGED <<writers, log, lastsequence, ncalls, result, wantsync>>
  /\ \A t \in Writer :
       /\ \/ pc'[t] = pc[t]
          \/ pc[t] \in RoomPC /\ pc'[t] \in RoomPC
          \/ pc[t] \in OutsidePC /\ pc'[t] \in OutsidePC
       /\ w'[t].batch = w[t].batch
       /\ pc[t] \notin OutsidePC =>
            /\ w'[t].sync = w[t].sync /\ w'[t].done = w[t].done
            /\ w'[t].status = w[t].status /\ w'[t].updates = w[t].updates
            /\ w'[t].count = w[t].count /\ w'[t].last = w[t].last
  /\ Readable' \subseteq Readable
  /\ "build" \notin Faults => Readable' = Readable
  /\ \/ mem' = mem /\ logfilenumber' = logfilenumber
     \/ \A t \in Writer : pc[t] \notin LoggingPC \cup {"finish"}
  /\ ~hasimm' => imm' = {}

LEMMA DataQuietStep ==
  ASSUME TypeOK, QueueInv, DataInv, DataQuiet
  PROVE  DataInv'
<1> USE DEF DataInv
<1>1. /\ writers' = writers /\ log' = log /\ lastsequence' = lastsequence
      /\ ncalls' = ncalls /\ result' = result /\ wantsync' = wantsync
      /\ lastsequence \in Nat /\ \A e \in Readable : e.seq \in Nat
      /\ writers \in Seq(Writer)
  BY DEF DataQuiet, TypeOK, DataOK, ThreadsOK, Readable, Entry
<1>2. \A t \in Writer :
        /\ \A v : v \notin RoomPC \cup OutsidePC => (pc'[t] = v <=> pc[t] = v)
        /\ pc'[t] \in RoomPC <=> pc[t] \in RoomPC
        /\ pc'[t] \in OutsidePC <=> pc[t] \in OutsidePC
        /\ w'[t].batch = w[t].batch
  BY DEF DataQuiet, RoomPC, OutsidePC
<1>3. \A t \in Writer : pc[t] \notin OutsidePC =>
        /\ w'[t].sync = w[t].sync /\ w'[t].done = w[t].done
        /\ w'[t].status = w[t].status /\ w'[t].updates = w[t].updates
        /\ w'[t].count = w[t].count /\ w'[t].last = w[t].last
  BY DEF DataQuiet
<1>4. Readable' \subseteq Readable /\ Stored' \subseteq Stored
  BY <1>1 DEF DataQuiet, Stored
<1>5. \A b, status : Outcome(b, status) => Outcome(b, status)'
  <2>1. PICK S : S = {}
    OBVIOUS
  <2>2. lastsequence' \in Nat /\ lastsequence <= lastsequence'
    BY <1>1
  <2>3. \A d \in log : \E e \in log' : e.batch = d.batch /\ (d.synced => e.synced)
    BY <1>1
  <2>4. "build" \notin Faults => Readable \subseteq Readable'
    BY DEF DataQuiet
  <2>5. /\ \A e \in Readable' : e \in Readable \/ e.batch \in S
        /\ \A b \in wantsync' : b \in wantsync \/ b \in S
    BY <1>1, <1>4
  <2>6. \A b, status : b \notin S /\ Outcome(b, status) => Outcome(b, status)'
    BY <1>1, <2>2, <2>3, <2>4, <2>5, OutcomeKept
  <2> QED
    BY <2>1, <2>6
<1>6. CallsDistinct'
  BY <1>1, <1>2, <1>3 DEF CallsDistinct
<1>7. NumbersGiven'
  BY <1>1, <1>4 DEF NumbersGiven
<1>8. StatusInv'
  BY <1>2, <1>3 DEF StatusInv, RoomPC, OutsidePC
<1>9. \A i \in DOMAIN writers : writers[i] \in Writer /\ pc[writers[i]] \notin OutsidePC
  BY <1>1 DEF QueueInv, QueueMembers, Queued, LeaderPC, OutsidePC
<1>10. ASSUME NEW t \in Writer PROVE LoggerInv(t)'
  <2> SUFFICES ASSUME pc'[t] \in LoggingPC PROVE LoggerInv(t)'
    BY DEF LoggerInv
  <2>1. pc[t] \in LoggingPC /\ pc[t] \notin OutsidePC
    BY <1>2 DEF LoggingPC, RoomPC, OutsidePC
  <2>2. \A i \in 1..w[t].last : i \in DOMAIN writers
    BY <2>1, <1>1 DEF QueueInv, LeaderIsHead, GroupFits, LoggingPC, LeaderPC
  <2>3. \A i \in 1..w[t].last : writers[i] \in Writer /\ pc[writers[i]] \notin OutsidePC
    BY <2>2, <1>9
  <2> QED
    BY <1>1, <1>2, <1>3, <2>1, <2>3 DEF LoggerInv
<1>11. ASSUME NEW t \in Writer PROVE PhaseInv(t)'
  <2>1. /\ pc'[t] = "sync" <=> pc[t] = "sync"
        /\ pc'[t] = "insert" <=> pc[t] = "insert"
        /\ pc'[t] = "relock" <=> pc[t] = "relock"
        /\ pc'[t] = "finish" <=> pc[t] = "finish"
    BY <1>2 DEF RoomPC, OutsidePC
  <2>2. CASE pc[t] \notin LoggingPC \cup {"finish"}
    BY <2>1, <2>2 DEF PhaseInv, LoggingPC
  <2>3. CASE pc[t] \in LoggingPC \cup {"finish"}
    <3>1. mem' = mem /\ logfilenumber' = logfilenumber
      BY <2>3 DEF DataQuiet
    <3>2. /\ w'[t].sync = w[t].sync /\ w'[t].status = w[t].status
          /\ w'[t].updates = w[t].updates /\ w'[t].last = w[t].last
      BY <2>3, <1>3 DEF LoggingPC, OutsidePC
    <3>3. \A i \in 1..w[t].last : i \in DOMAIN writers
      BY <2>3, <1>1 DEF QueueInv, LeaderIsHead, GroupFits, LoggingPC, LeaderPC
    <3>4. \A i \in 1..w[t].last : w'[writers[i]].batch = w[writers[i]].batch
      BY <3>3, <1>2, <1>9
    <3>5. \A e : Durable(e.batch) => Durable(e.batch)'
      BY <1>1 DEF Durable
    <3>6. pc[t] = "finish" =>
            \A i \in 1..w[t].last : w[writers[i]].batch # Nil =>
              Outcome(w[writers[i]].batch, w[t].status)'
      <4> SUFFICES ASSUME pc[t] = "finish", NEW i \in 1..w[t].last, w[writers[i]].batch # Nil
                   PROVE  Outcome(w[writers[i]].batch, w[t].status)'
        OBVIOUS
      <4>1. PICK b, status : b = w[writers[i]].batch /\ status = w[t].status
        OBVIOUS
      <4>2. Outcome(b, status)
        BY <4>1 DEF PhaseInv
      <4>3. Outcome(b, status)'
        BY <4>2, <1>5
      <4>4. w'[writers'[i]].batch = b /\ w'[t].status = status
        BY <4>1, <3>2, <3>4, <1>1
      <4> QED
        BY <4>3, <4>4 DEF Outcome, Kept, Durable, Invisible
    <3> QED
      BY <1>1, <2>1, <3>1, <3>2, <3>4, <3>5, <3>6 DEF PhaseInv, Durable
  <2> QED
    BY <2>2, <2>3
<1>12. EntriesPlaced'
  <2> SUFFICES ASSUME NEW d \in Stored' PROVE Settled(d)' \/ Pending(d)'
    BY DEF EntriesPlaced
  <2>1. Settled(d) \/ Pending(d)
    BY <1>4 DEF EntriesPlaced
  <2>2. CASE Settled(d)
    <3>1. ASSUME NEW i \in DOMAIN writers, w'[writers[i]].batch = d.batch
          PROVE  pc'[writers[1]] = "finish" /\ i <= w'[writers[1]].last
      <4>1. pc[writers[1]] = "finish" /\ i <= w[writers[1]].last
        BY <2>2, <3>1, <1>2, <1>9 DEF Settled
      <4>2. 1 \in DOMAIN writers /\ writers[1] \in Writer
        BY <1>1
      <4> QED
        BY <4>1, <4>2, <1>2, <1>3 DEF OutsidePC, RoomPC
    <3> QED
      BY <2>2, <3>1, <1>1 DEF Settled
  <2>3. CASE Pending(d)
    BY <2>3, <1>2, <1>3, <1>4 DEF Pending, OutsidePC, RoomPC
  <2> QED
    BY <2>1, <2>2, <2>3
<1>13. SequenceUnique'
  BY <1>4 DEF SequenceUnique, Stored, Readable
<1>14. MembersInv'
  <2> SUFFICES ASSUME NEW t \in Writer, pc'[t] = "woken", w'[t].done, w'[t].batch # Nil
               PROVE  Outcome(w[t].batch, w[t].status)'
    BY DEF MembersInv
  <2>1. pc[t] = "woken"
    BY <1>2 DEF RoomPC, OutsidePC
  <2>2. PICK b, status : b = w[t].batch /\ status = w[t].status
    OBVIOUS
  <2>3. w'[t].batch = b /\ w'[t].status = status /\ w[t].done
    BY <2>1, <2>2, <1>2, <1>3 DEF OutsidePC
  <2>4. Outcome(b, status)
    BY <2>1, <2>2, <2>3 DEF MembersInv
  <2>5. Outcome(b, status)'
    BY <2>4, <1>5
  <2> QED
    BY <2>3, <2>5 DEF Outcome, Kept, Durable, Invisible
<1>15. ResultInv'
  <2> SUFFICES ASSUME NEW b \in Batch PROVE Outcome(b, result[b])'
    BY DEF ResultInv
  <2>1. PICK status : status = result[b]
    OBVIOUS
  <2>2. Outcome(b, status)'
    BY <2>1, <1>5 DEF ResultInv
  <2> QED
    BY <2>1, <2>2, <1>1 DEF Outcome, Kept, Durable, Invisible
<1>16. ImmEmpty'
  BY DEF DataQuiet, ImmEmpty
<1> QED
  BY <1>6, <1>7, <1>8, <1>10, <1>11, <1>12, <1>13, <1>14, <1>15, <1>16

(* notify_all moves a writer only within the room or outside the queue.    *)
LEMMA NotifyAllData ==
  ASSUME TypeOK, NEW t \in Writer
  PROVE  \/ NotifyAll(pc)[t] = pc[t]
         \/ pc[t] \in RoomPC /\ NotifyAll(pc)[t] \in RoomPC
         \/ pc[t] \in OutsidePC /\ NotifyAll(pc)[t] \in OutsidePC
BY DEF TypeOK, ThreadsOK, PcOK, NotifyAll, Thread, WriterPC, RoomPC, OutsidePC

(* A step of Main or of the background thread that only moves tables.      *)
LEMMA OthersQuiet ==
  ASSUME TypeOK, NEW t \in {Main, BG}, NEW v,
         pc' = [pc EXCEPT ![t] = v] \/ pc' = [NotifyAll(pc) EXCEPT ![t] = v],
         UNCHANGED <<writers, w, log, lastsequence, ncalls, result, wantsync, mem, logfilenumber>>,
         Readable' \subseteq Readable, "build" \notin Faults => Readable' = Readable,
         ~hasimm' => imm' = {}
  PROVE  DataQuiet
<1>1. \A x \in Writer : x \in Thread /\ x # t
  BY ConstantsAssumption DEF Thread
<1>2. pc \in [Thread -> WriterPC \cup MainPC \cup BgPC] /\ DOMAIN NotifyAll(pc) = Thread
  BY DEF TypeOK, ThreadsOK, PcOK, NotifyAll
<1>3. \A x \in Writer : pc'[x] = pc[x] \/ pc'[x] = NotifyAll(pc)[x]
  BY <1>1, <1>2
<1>4. \A x \in Writer : \/ pc'[x] = pc[x]
                        \/ pc[x] \in RoomPC /\ pc'[x] \in RoomPC
                        \/ pc[x] \in OutsidePC /\ pc'[x] \in OutsidePC
  BY <1>3, NotifyAllData
<1> QED
  BY <1>4 DEF DataQuiet

(* So does the end of CompactMemTable; only a failed build loses entries.  *)
LEMMA CompactMemTableQuiet ==
  ASSUME TypeOK, DataInv, NEW next, CompactMemTable(next)
  PROVE  DataQuiet
<1>1. UNCHANGED <<writers, w, log, lastsequence, ncalls, result, wantsync, mem, logfilenumber>>
  BY DEF CompactMemTable, queueVars, histVars
<1>2. pc' = [pc EXCEPT ![BG] = next] \/ pc' = [NotifyAll(pc) EXCEPT ![BG] = next]
  BY DEF CompactMemTable, AfterError
<1>3. ~hasimm' => imm' = {}
  BY DEF CompactMemTable, DataInv, ImmEmpty
<1>4. Readable' \subseteq Readable
  BY <1>1 DEF CompactMemTable, Readable
<1>5. "build" \notin Faults => Readable' = Readable
  BY <1>1 DEF CompactMemTable, Readable, Fails
<1> QED
  BY <1>1, <1>2, <1>3, <1>4, <1>5, OthersQuiet

LEMMA DataQuietBg ==
  ASSUME TypeOK, DataInv, CloseStep \/ BgStep \/ Schedule(BG)
  PROVE  DataQuiet
<1> USE DEF queueVars, dataVars, histVars
<1>1. imm' = imm /\ hasimm' = hasimm => (~hasimm' => imm' = {})
  BY DEF DataInv, ImmEmpty
<1>2. ASSUME NEW t \in {Main, BG}, NEW v,
             pc' = [pc EXCEPT ![t] = v] \/ pc' = [NotifyAll(pc) EXCEPT ![t] = v],
             UNCHANGED <<writers, w, log, logfilenumber, mem, imm, hasimm, flushed,
                         lastsequence, ncalls, result, wantsync>>
      PROVE  DataQuiet
  <2>1. Readable' = Readable
    BY <1>2 DEF Readable
  <2> QED
    BY <1>1, <1>2, <2>1, OthersQuiet
<1>3. CASE CloseDB
  BY <1>2, <1>3 DEF CloseDB
<1>4. CASE ExitSchedule
  BY <1>2, <1>4 DEF ExitSchedule
<1>5. CASE Join
  BY <1>2, <1>5 DEF Join
<1>6. CASE BgTake
  BY <1>2, <1>6 DEF BgTake
<1>7. CASE BackgroundCallback
  BY <1>2, <1>7 DEF BackgroundCallback
<1>8. CASE BgFlush
  BY <1>8, CompactMemTableQuiet DEF BgFlush
<1>9. CASE BgCompactImm
  BY <1>9, CompactMemTableQuiet DEF BgCompactImm
<1>10. CASE BgCompactImmNotify
  BY <1>2, <1>10 DEF BgCompactImmNotify
<1>11. CASE BgCompactDone
  <2>1. pc' = [pc EXCEPT ![BG] = "done"] \/ pc' = [NotifyAll(pc) EXCEPT ![BG] = "done"]
    BY <1>11 DEF BgCompactDone, AfterError
  <2> QED
    BY <1>2, <1>11, <2>1 DEF BgCompactDone
<1>12. CASE BgReschedule
  BY <1>2, <1>12 DEF BgReschedule
<1>13. CASE BgExit
  BY <1>2, <1>13 DEF BgExit
<1>14. CASE Schedule(BG)
  BY <1>2, <1>14 DEF Schedule
<1> QED
  BY <1>3, <1>4, <1>5, <1>6, <1>7, <1>8, <1>9, <1>10, <1>11, <1>12, <1>13, <1>14 DEF CloseStep, BgStep

(* Making room moves only the caller, and a memtable that nobody is        *)
(* writing to.                                                             *)
LEMMA DataQuietWriter ==
  ASSUME TypeOK, QueueInv, DataInv, NEW t \in Writer,
         \/ RoomDelay(t) \/ RoomFound(t) \/ RoomWait(t) \/ RoomAgain(t)
         \/ (RoomSwitch(t) /\ imm' = mem) \/ (BuildBatchGroup(t) /\ crashed') \/ ImmCheck(t)
         \/ Schedule(t) \/ UNCHANGED vars
  PROVE  DataQuiet
<1> USE DEF queueVars, dataVars, histVars
<1>1. /\ pc \in [Thread -> WriterPC \cup MainPC \cup BgPC]
      /\ \A x \in Writer : x \in Thread /\ x # BG
      /\ w \in [Writer -> WriterRecord]
  BY ConstantsAssumption DEF TypeOK, ThreadsOK, PcOK, Thread, LocalsOK
<1>2. ASSUME UNCHANGED <<writers, log, logfilenumber, mem, imm, hasimm, flushed,
                         lastsequence, ncalls, result, wantsync>>,
             \A x \in Writer :
               /\ \/ pc'[x] = pc[x]
                  \/ pc[x] \in RoomPC /\ pc'[x] \in RoomPC
                  \/ pc[x] \in OutsidePC /\ pc'[x] \in OutsidePC
               /\ w'[x].batch = w[x].batch
               /\ pc[x] \notin OutsidePC =>
                    /\ w'[x].sync = w[x].sync /\ w'[x].done = w[x].done
                    /\ w'[x].status = w[x].status /\ w'[x].updates = w[x].updates
                    /\ w'[x].count = w[x].count /\ w'[x].last = w[x].last
      PROVE  DataQuiet
  <2>1. Readable' = Readable
    BY <1>2 DEF Readable
  <2> QED
    BY <1>2, <2>1 DEF DataQuiet, DataInv, ImmEmpty
<1>3. CASE RoomDelay(t)
  <2>1. \A x \in Writer :
          /\ w'[x].batch = w[x].batch
          /\ w'[x].sync = w[x].sync /\ w'[x].done = w[x].done
          /\ w'[x].status = w[x].status /\ w'[x].updates = w[x].updates
          /\ w'[x].count = w[x].count /\ w'[x].last = w[x].last
    BY <1>1, <1>3 DEF RoomDelay, WriterRecord
  <2>2. \A x \in Writer : pc'[x] = pc[x] \/ (pc[x] \in RoomPC /\ pc'[x] \in RoomPC)
    BY <1>1, <1>3 DEF RoomDelay, RoomPC
  <2> QED
    BY <1>2, <1>3, <2>1, <2>2 DEF RoomDelay
<1>4. CASE RoomFound(t)
  BY <1>1, <1>2, <1>4 DEF RoomFound, RoomPC
<1>5. CASE RoomWait(t)
  BY <1>1, <1>2, <1>5 DEF RoomWait, RoomPC
<1>6. CASE RoomAgain(t)
  BY <1>1, <1>2, <1>6 DEF RoomAgain, RoomPC
<1>7. CASE RoomSwitch(t) /\ imm' = mem
  <2>1. ~hasimm /\ mem # {} /\ imm = {} /\ pc[t] = "room"
    BY <1>7 DEF RoomSwitch, MustWait, DataInv, ImmEmpty
  <2>2. /\ mem' = {} /\ hasimm' /\ flushed' = flushed /\ w' = [w EXCEPT ![t].force = FALSE]
        /\ pc' = pc \/ pc' = [pc EXCEPT ![t] = "sched"]
    BY <1>7, <2>1 DEF RoomSwitch
  <2>3. Readable' = Readable
    BY <1>7, <2>1, <2>2 DEF Readable
  <2>4. \A x \in Writer :
          /\ w'[x].batch = w[x].batch
          /\ w'[x].sync = w[x].sync /\ w'[x].done = w[x].done
          /\ w'[x].status = w[x].status /\ w'[x].updates = w[x].updates
          /\ w'[x].count = w[x].count /\ w'[x].last = w[x].last
    BY <1>1, <2>2 DEF WriterRecord
  <2>5. \A x \in Writer : pc'[x] = pc[x] \/ (pc[x] \in RoomPC /\ pc'[x] \in RoomPC)
    BY <1>1, <2>1, <2>2 DEF RoomPC
  <2>6. \A x \in Writer : pc[x] \notin LoggingPC \cup {"finish"}
    BY <2>1 DEF QueueInv, LeaderIsHead, LeaderPC, LoggingPC
  <2>7. UNCHANGED <<writers, log, lastsequence, ncalls, result, wantsync>>
    BY <1>7 DEF RoomSwitch
  <2> QED
    BY <2>2, <2>3, <2>4, <2>5, <2>6, <2>7 DEF DataQuiet
<1>8. CASE BuildBatchGroup(t) /\ crashed'
  <2>1. pc' = pc /\ w' = w
    BY <1>8 DEF BuildBatchGroup
  <2> QED
    BY <1>2, <1>8, <2>1 DEF BuildBatchGroup
<1>9. CASE ImmCheck(t)
  <2>1. pc[t] = "immcheck" /\ w[t].batch = Nil
    BY <1>9 DEF ImmCheck, DataInv, CallsDistinct, OutsidePC
  <2>2. \E v \in {"immwait", "idle"} : pc' = [pc EXCEPT ![t] = v]
    BY <1>9 DEF ImmCheck
  <2>3. w' = w \/ w' = [w EXCEPT ![t] = IdleWriter]
    BY <1>9 DEF ImmCheck
  <2>4. \A x \in Writer : w'[x].batch = w[x].batch /\ (x # t => w'[x] = w[x])
    BY <1>1, <2>1, <2>3 DEF IdleWriter
  <2>5. \A x \in Writer : pc'[x] = pc[x] \/ (x = t /\ pc[x] \in OutsidePC /\ pc'[x] \in OutsidePC)
    BY <1>1, <2>1, <2>2 DEF OutsidePC
  <2>6. pc[t] \in OutsidePC
    BY <2>1 DEF OutsidePC
  <2> QED
    BY <1>2, <1>9, <2>4, <2>5, <2>6 DEF ImmCheck
<1>10. CASE Schedule(t)
  <2>1. pc[t] = "sched" /\ \E v : pc' = [pc EXCEPT ![t] = "room", ![BG] = v]
    BY <1>1, <1>10 DEF Schedule
  <2>2. \A x \in Writer : pc'[x] = pc[x] \/ (pc[x] \in RoomPC /\ pc'[x] \in RoomPC)
    BY <1>1, <2>1 DEF RoomPC
  <2> QED
    BY <1>2, <1>10, <2>2 DEF Schedule
<1>11. CASE UNCHANGED vars
  BY <1>2, <1>11 DEF vars
<1> QED
  BY <1>3, <1>4, <1>5, <1>6, <1>7, <1>8, <1>9, <1>10, <1>11

(* Batches are numbered by how many precede them in the queue: strictly    *)
(* increasing, from one to the size of the group.                          *)
LEMMA HasBatchGrows ==
  ASSUME NEW i \in Nat, NEW j \in Nat, i < j, j \in HasBatch(j)
  PROVE  Cardinality(HasBatch(i)) < Cardinality(HasBatch(j))
<1>1. IsFiniteSet(HasBatch(j))
  <2>1. IsFiniteSet(1..j) /\ HasBatch(j) \subseteq 1..j
    BY FS_Interval DEF HasBatch
  <2> QED
    BY <2>1, FS_Subset
<1>2. HasBatch(i) \subseteq HasBatch(j) \ {j}
  BY DEF HasBatch
<1>3. /\ IsFiniteSet(HasBatch(j) \ {j})
      /\ Cardinality(HasBatch(j) \ {j}) = Cardinality(HasBatch(j)) - 1
  BY <1>1, FS_RemoveElement
<1>4. Cardinality(HasBatch(i)) <= Cardinality(HasBatch(j) \ {j})
  BY <1>2, <1>3, FS_Subset
<1>5. Cardinality(HasBatch(i)) \in Nat /\ Cardinality(HasBatch(j)) \in Nat
  BY HasBatchCardinality
<1> QED
  BY <1>3, <1>4, <1>5

LEMMA HasBatchBounds ==
  ASSUME NEW n \in Nat, NEW i \in HasBatch(n)
  PROVE  /\ i \in 1..n /\ i \in HasBatch(i)
         /\ 0 < Cardinality(HasBatch(i)) /\ Cardinality(HasBatch(i)) <= Cardinality(HasBatch(n))
<1>1. i \in 1..n /\ i \in HasBatch(i) /\ i \in Nat
  BY DEF HasBatch
<1>2. IsFiniteSet(HasBatch(n))
  <2>1. IsFiniteSet(1..n) /\ HasBatch(n) \subseteq 1..n
    BY FS_Interval DEF HasBatch
  <2> QED
    BY <2>1, FS_Subset
<1>3. HasBatch(i) \subseteq HasBatch(n)
  BY <1>1 DEF HasBatch
<1>4. Cardinality(HasBatch(i)) <= Cardinality(HasBatch(n))
  BY <1>2, <1>3, FS_Subset
<1>5. Cardinality(HasBatch(0)) < Cardinality(HasBatch(i))
  BY <1>1, HasBatchGrows
<1>6. Cardinality(HasBatch(0)) \in Nat /\ Cardinality(HasBatch(i)) \in Nat
  BY <1>1, HasBatchCardinality
<1> QED
  BY <1>1, <1>4, <1>5, <1>6

(* SetSequence numbers the merged batch without repeating a number.        *)
LEMMA UpdatesNumbered ==
  ASSUME TypeOK, QueueInv, DataInv, NEW n \in 1..Len(writers)
  PROVE  /\ \A e \in Updates(n) : \E i \in 1..n : w[writers[i]].batch = e.batch
         /\ \A i \in 1..n : w[writers[i]].batch # Nil =>
              \E e \in Updates(n) : e.batch = w[writers[i]].batch
         /\ \A d, e \in Updates(n) : d.seq = e.seq <=> d.batch = e.batch
         /\ \A e \in Updates(n) :
              lastsequence < e.seq /\ e.seq <= lastsequence + Cardinality(HasBatch(n))
<1>1. n \in Nat /\ lastsequence \in Nat /\ writers \in Seq(Writer)
  BY DEF TypeOK, ThreadsOK, DataOK
<1>2. \A i \in 1..n : i \in DOMAIN writers /\ writers[i] \in Writer
  BY <1>1
<1>3. \A e \in Updates(n) : \E i \in HasBatch(n) :
        e.seq = lastsequence + Cardinality(HasBatch(i)) /\ e.batch = w[writers[i]].batch
  BY DEF Updates
<1>4. \A i \in HasBatch(n) : \E e \in Updates(n) : e.batch = w[writers[i]].batch
  <2> SUFFICES ASSUME NEW i \in HasBatch(n)
               PROVE  \E e \in Updates(n) : e.batch = w[writers[i]].batch
    OBVIOUS
  <2> DEFINE u == [seq |-> lastsequence + Cardinality(HasBatch(i)), batch |-> w[writers[i]].batch]
  <2>1. u \in Updates(n)
    BY DEF Updates
  <2>2. u.batch = w[writers[i]].batch
    OBVIOUS
  <2> QED
    BY <2>1, <2>2
<1>5. \A i \in HasBatch(n) :
        /\ i \in 1..n /\ i \in HasBatch(i) /\ Cardinality(HasBatch(i)) \in Nat
        /\ 0 < Cardinality(HasBatch(i)) /\ Cardinality(HasBatch(i)) <= Cardinality(HasBatch(n))
  BY <1>1, HasBatchBounds, HasBatchCardinality
<1>6. ASSUME NEW i \in HasBatch(n), NEW j \in HasBatch(n)
      PROVE  /\ Cardinality(HasBatch(i)) = Cardinality(HasBatch(j)) <=> i = j
             /\ w[writers[i]].batch = w[writers[j]].batch <=> i = j
  <2>1. i \in Nat /\ j \in Nat /\ (i < j \/ i = j \/ j < i)
    BY <1>1, <1>5
  <2>2. /\ i < j => Cardinality(HasBatch(i)) < Cardinality(HasBatch(j))
        /\ j < i => Cardinality(HasBatch(j)) < Cardinality(HasBatch(i))
    BY <2>1, <1>5, HasBatchGrows
  <2>3. Cardinality(HasBatch(i)) = Cardinality(HasBatch(j)) => i = j
    BY <2>1, <2>2, <1>5
  <2>4. w[writers[i]].batch # Nil /\ w[writers[j]].batch # Nil
    BY DEF HasBatch
  <2>5. w[writers[i]].batch = w[writers[j]].batch => writers[i] = writers[j]
    BY <2>4, <1>2, <1>5 DEF DataInv, CallsDistinct
  <2>6. writers[i] = writers[j] => i = j
    BY <1>2, <1>5 DEF QueueInv, QueueDistinct
  <2> QED
    BY <2>3, <2>5, <2>6
<1>7. \A d, e \in Updates(n) : d.seq = e.seq <=> d.batch = e.batch
  <2> SUFFICES ASSUME NEW d \in Updates(n), NEW e \in Updates(n)
               PROVE  d.seq = e.seq <=> d.batch = e.batch
    OBVIOUS
  <2>1. PICK i \in HasBatch(n) :
          d.seq = lastsequence + Cardinality(HasBatch(i)) /\ d.batch = w[writers[i]].batch
    BY <1>3
  <2>2. PICK j \in HasBatch(n) :
          e.seq = lastsequence + Cardinality(HasBatch(j)) /\ e.batch = w[writers[j]].batch
    BY <1>3
  <2>3. d.seq = e.seq <=> Cardinality(HasBatch(i)) = Cardinality(HasBatch(j))
    BY <2>1, <2>2, <1>1, <1>5
  <2> QED
    BY <2>1, <2>2, <2>3, <1>6
<1>8. \A e \in Updates(n) :
        lastsequence < e.seq /\ e.seq <= lastsequence + Cardinality(HasBatch(n))
  <2> SUFFICES ASSUME NEW e \in Updates(n)
               PROVE  lastsequence < e.seq /\ e.seq <= lastsequence + Cardinality(HasBatch(n))
    OBVIOUS
  <2>1. PICK i \in HasBatch(n) : e.seq = lastsequence + Cardinality(HasBatch(i))
    BY <1>3
  <2>2. Cardinality(HasBatch(n)) \in Nat
    BY <1>1, HasBatchCardinality
  <2> QED
    BY <2>1, <2>2, <1>1, <1>5
<1>9. \A i \in 1..n : w[writers[i]].batch # Nil => i \in HasBatch(n)
  BY DEF HasBatch
<1> QED
  BY <1>3, <1>4, <1>5, <1>7, <1>8, <1>9

(* Steps that leave log, tables and numbers alone leave outcomes alone.    *)
LEMMA OutcomeSame ==
  ASSUME UNCHANGED <<log, mem, imm, flushed, lastsequence, wantsync>>
  PROVE  /\ \A b, status : Outcome(b, status) => Outcome(b, status)'
         /\ \A b : Durable(b) => Durable(b)'
         /\ Stored' = Stored /\ Readable' = Readable
<1>1. Stored' = Stored /\ Readable' = Readable
  BY DEF Readable, Stored
<1>2. \A b : /\ Kept(b) => Kept(b)'
             /\ Durable(b) => Durable(b)'
             /\ Invisible(b) => Invisible(b)'
  BY <1>1 DEF Kept, Durable, Invisible
<1>3. \A b, status : Outcome(b, status) => Outcome(b, status)'
  BY <1>2 DEF Outcome
<1> QED
  BY <1>1, <1>2, <1>3

(* The calls outside the group of a step keep their parts of the invariant.*)
LEMMA OutcomesFrame ==
  ASSUME NEW S, MembersInv, ResultInv, UNCHANGED result,
         \A b, status : b \notin S /\ Outcome(b, status) => Outcome(b, status)',
         \A t \in Writer : pc'[t] = "woken" /\ w'[t].done /\ w'[t].batch # Nil =>
           /\ pc[t] = "woken" /\ w[t].done /\ w'[t].batch = w[t].batch
           /\ w'[t].status = w[t].status /\ w[t].batch \notin S,
         \A b \in Batch : result[b] # "none" => b \notin S
  PROVE  MembersInv' /\ ResultInv'
<1>1. MembersInv'
  <2> SUFFICES ASSUME NEW t \in Writer, pc'[t] = "woken", w'[t].done, w'[t].batch # Nil
               PROVE  Outcome(w[t].batch, w[t].status)'
    BY DEF MembersInv
  <2>1. PICK b, status : b = w[t].batch /\ status = w[t].status
    OBVIOUS
  <2>2. w'[t].batch = b /\ w'[t].status = status /\ Outcome(b, status) /\ b \notin S
    BY <2>1 DEF MembersInv
  <2>3. Outcome(b, status)'
    BY <2>2
  <2> QED
    BY <2>2, <2>3 DEF Outcome, Kept, Durable, Invisible
<1>2. ResultInv'
  <2> SUFFICES ASSUME NEW b \in Batch PROVE Outcome(b, result[b])'
    BY DEF ResultInv
  <2>1. PICK status : status = result[b]
    OBVIOUS
  <2>2. CASE status = "none"
    BY <2>1, <2>2 DEF Outcome
  <2>3. CASE status # "none"
    <3>1. Outcome(b, status)'
      BY <2>1, <2>3 DEF ResultInv
    <3> QED
      BY <2>1, <3>1 DEF Outcome, Kept, Durable, Invisible
  <2> QED
    BY <2>2, <2>3
<1> QED
  BY <1>1, <1>2

(* While the head logs, no other call is past its wait, and the group is a *)
(* prefix of the queue whose batches are in flight.                        *)
LEMMA LeaderAlone ==
  ASSUME TypeOK, QueueInv, NEW t \in Writer, pc[t] \in LeaderPC
  PROVE  /\ writers \in Seq(Writer) /\ Len(writers) > 0 /\ 1 \in DOMAIN writers
         /\ writers[1] = t /\ w[t].last \in 1..Len(writers)
         /\ \A i \in DOMAIN writers : writers[i] \in Writer /\ ~w[writers[i]].done
         /\ \A i \in 1..w[t].last : i \in DOMAIN writers
         /\ \A x \in Writer : pc[x] \in LeaderPC => x = t
BY DEF TypeOK, ThreadsOK, QueueInv, LeaderIsHead, GroupFits, QueueMembers

LEMMA DataTypes ==
  ASSUME TypeOK
  PROVE  /\ lastsequence \in Nat /\ ncalls \in Nat /\ writers \in Seq(Writer)
         /\ w \in [Writer -> WriterRecord] /\ \A x \in Writer : x \in Thread
         /\ pc \in [Thread -> WriterPC \cup MainPC \cup BgPC]
         /\ \A e \in Stored : e.seq \in Nat /\ e.batch \in Batch
         /\ \A t \in Writer : \A e \in w[t].updates : e.seq \in Nat /\ e.batch \in Batch
         /\ Nil \notin Batch /\ Batch \subseteq Nat
<1>1. \A e \in Stored : e.seq \in Nat /\ e.batch \in Batch
  BY DEF TypeOK, DataOK, Stored, Readable, Entry, LogEntry
<1>2. w \in [Writer -> WriterRecord] /\ writers \in Seq(Writer)
  BY DEF TypeOK, LocalsOK, ThreadsOK
<1>3. \A t \in Writer : \A e \in w[t].updates : e.seq \in Nat /\ e.batch \in Batch
  BY <1>2 DEF WriterRecord, Entry
<1>4. /\ lastsequence \in Nat /\ ncalls \in Nat
      /\ pc \in [Thread -> WriterPC \cup MainPC \cup BgPC] /\ \A x \in Writer : x \in Thread
  BY ConstantsAssumption DEF TypeOK, DataOK, HistoryOK, ThreadsOK, PcOK, Thread
<1>5. Nil \notin Batch /\ Batch \subseteq Nat
  BY ConstantsAssumption DEF Batch
<1> QED
  BY <1>1, <1>2, <1>3, <1>4, <1>5

(* Until the head appends to the log, no entry of a queued call exists.    *)
LEMMA NothingLogged ==
  ASSUME TypeOK, QueueInv, DataInv, NEW t \in Writer, pc[t] \in RoomPC \cup {"log"}
  PROVE  \A d \in Stored : /\ d.seq <= lastsequence
                           /\ \A i \in DOMAIN writers : w[writers[i]].batch # d.batch
<1> SUFFICES ASSUME NEW d \in Stored
             PROVE  /\ d.seq <= lastsequence
                    /\ \A i \in DOMAIN writers : w[writers[i]].batch # d.batch
  OBVIOUS
<1>1. pc[t] \in LeaderPC /\ pc[t] \notin {"sync", "insert", "relock", "finish"}
  BY DEF RoomPC, LeaderPC
<1>2. ~Pending(d)
  BY <1>1, LeaderAlone DEF Pending, LeaderPC
<1>3. Settled(d) /\ writers[1] = t
  BY <1>1, <1>2, LeaderAlone DEF DataInv, EntriesPlaced
<1> QED
  BY <1>1, <1>3 DEF Settled

(* The head's group is built: nothing of it is logged yet.                 *)
LEMMA BuildData ==
  ASSUME TypeOK, QueueInv, DataInv, NEW t \in Writer, BuildBatchGroup(t), ~crashed'
  PROVE  DataInv'
<1> USE DEF DataInv
<1>1. pc[t] = "build" /\ pc[t] \in LeaderPC
  BY DEF BuildBatchGroup, LeaderPC
<1>2. /\ UNCHANGED <<log, mem, imm, flushed, lastsequence, wantsync, writers, hasimm, ncalls,
                     result, logfilenumber>>
  BY DEF BuildBatchGroup, dataVars, histVars
<1>3. /\ pc \in [Thread -> WriterPC \cup MainPC \cup BgPC] /\ w \in [Writer -> WriterRecord]
      /\ \A x \in Writer : x \in Thread
  BY DEF TypeOK, ThreadsOK, PcOK, LocalsOK, Thread
<1>4. w[t].status = "ok" /\ w[t].last = 1
  BY <1>1 DEF StatusInv, RoomPC
<1>5. /\ pc'[t] \in {"finish", "log"} /\ \A x \in Writer : x # t => pc'[x] = pc[x]
  BY <1>3 DEF BuildBatchGroup
<1>6. /\ w' \in [Writer -> WriterRecord]
      /\ \A x \in Writer :
           /\ w'[x].batch = w[x].batch /\ w'[x].sync = w[x].sync
           /\ w'[x].done = w[x].done /\ w'[x].status = w[x].status
           /\ x # t => w'[x] = w[x]
  <2>1. CASE w' = w
    BY <2>1, <1>3
  <2>2. CASE w' # w
    <3>1. PICK n \in 1..Len(writers) :
            w' = [w EXCEPT ![t].updates = Updates(n),
                           ![t].count = Cardinality(HasBatch(n)), ![t].last = n]
      BY <2>2 DEF BuildBatchGroup
    <3>2. n \in Nat /\ Cardinality(HasBatch(n)) \in Nat /\ Updates(n) \in SUBSET Entry
      BY UpdatesType, HasBatchCardinality DEF TypeOK, ThreadsOK
    <3>3. \A x \in Writer : x # t => w'[x] = w[x]
      BY <3>1, <1>3
    <3>4. w'[t] = [w[t] EXCEPT !.updates = Updates(n), !.count = Cardinality(HasBatch(n)), !.last = n]
      BY <3>1, <1>3
    <3>5. w[t] \in WriterRecord
      BY <1>3
    <3>6. /\ w'[t] \in WriterRecord /\ w'[t].batch = w[t].batch /\ w'[t].sync = w[t].sync
          /\ w'[t].done = w[t].done /\ w'[t].status = w[t].status
      BY <3>2, <3>4, <3>5 DEF WriterRecord
    <3> QED
      BY <3>1, <3>3, <3>6, <1>3
  <2> QED
    BY <2>1, <2>2
<1>7. Stored' = Stored /\ Readable' = Readable
  BY <1>2, OutcomeSame
<1>8. CallsDistinct'
  BY <1>1, <1>2, <1>5, <1>6 DEF CallsDistinct, OutsidePC
<1>9. NumbersGiven' /\ SequenceUnique' /\ ImmEmpty'
  BY <1>2, <1>7 DEF NumbersGiven, SequenceUnique, ImmEmpty, Stored, Readable
<1>10. StatusInv'
  BY <1>4, <1>5, <1>6 DEF StatusInv, RoomPC
<1>11. MembersInv' /\ ResultInv'
  <2>1. PICK S : S = {}
    OBVIOUS
  <2>2. \A b, status : b \notin S /\ Outcome(b, status) => Outcome(b, status)'
    BY <1>2, OutcomeSame
  <2>3. \A x \in Writer : pc'[x] = "woken" /\ w'[x].done /\ w'[x].batch # Nil =>
           /\ pc[x] = "woken" /\ w[x].done /\ w'[x].batch = w[x].batch
           /\ w'[x].status = w[x].status /\ w[x].batch \notin S
    BY <2>1, <1>5, <1>6
  <2>4. \A b \in Batch : result[b] # "none" => b \notin S
    BY <2>1
  <2> QED
    BY <1>2, <2>2, <2>3, <2>4, OutcomesFrame
<1>12. \A x \in Writer : x # t => pc[x] \notin LeaderPC /\ pc'[x] \notin LeaderPC
  BY <1>1, <1>5, LeaderAlone
<1>13. \A d \in Stored : /\ d.seq <= lastsequence
                         /\ \A i \in DOMAIN writers : w[writers[i]].batch # d.batch
  BY <1>1, NothingLogged DEF RoomPC
<1>14. EntriesPlaced'
  <2>1. \A i \in DOMAIN writers : writers[i] \in Writer
    BY <1>1, LeaderAlone
  <2>2. ASSUME NEW d \in Stored' PROVE Settled(d)'
    BY <2>1, <1>2, <1>6, <1>7, <1>13 DEF Settled
  <2> QED
    BY <2>2 DEF EntriesPlaced
<1>15. CASE w[t].batch = Nil
  <2>1. pc'[t] = "finish" /\ w' = w
    BY <1>3, <1>15 DEF BuildBatchGroup
  <2>2. ASSUME NEW x \in Writer PROVE LoggerInv(x)'
    BY <2>1, <1>12 DEF LoggerInv, LoggingPC, LeaderPC
  <2>3. ASSUME NEW x \in Writer PROVE PhaseInv(x)'
    <3>1. CASE x # t
      BY <3>1, <1>12 DEF PhaseInv, LeaderPC
    <3>2. CASE x = t
      <4>1. \A i \in 1..w[t].last : w[writers[i]].batch = Nil
        BY <1>1, <1>4, <1>15, LeaderAlone
      <4> QED
        BY <2>1, <3>2, <4>1, <1>2 DEF PhaseInv
    <3> QED
      BY <3>1, <3>2
  <2> QED
    BY <2>2, <2>3, <1>8, <1>9, <1>10, <1>11, <1>14
<1>16. CASE w[t].batch # Nil
  <2>1. PICK n \in 1..Len(writers) :
          /\ IsGroup(n)
          /\ w' = [w EXCEPT ![t].updates = Updates(n),
                            ![t].count = Cardinality(HasBatch(n)), ![t].last = n]
          /\ pc' = [pc EXCEPT ![t] = "log"]
    BY <1>16 DEF BuildBatchGroup
  <2>2. /\ w'[t].updates = Updates(n) /\ w'[t].count = Cardinality(HasBatch(n))
        /\ w'[t].last = n /\ pc'[t] = "log"
    BY <2>1, <1>3 DEF WriterRecord
  <2>3. \A i \in 1..n : i \in DOMAIN writers /\ writers[i] \in Writer
    BY <1>1, LeaderAlone
  <2>4. \A i \in 1..n : w[writers[i]].sync => w[t].sync
    <3>1. n \in Nat /\ writers[1] = t
      BY <1>1, LeaderAlone
    <3>2. \A i \in 1..n : i = 1 \/ i \in 2..n
      BY <3>1
    <3> QED
      BY <2>1, <3>1, <3>2 DEF IsGroup, JoinsGroup
  <2>5. LoggerInv(t)'
    <3>1. /\ \A e \in Updates(n) : \E i \in 1..n : w'[writers'[i]].batch = e.batch
          /\ \A i \in 1..n : w'[writers'[i]].batch # Nil =>
               \E e \in Updates(n) : e.batch = w'[writers'[i]].batch
      BY <2>3, <1>2, <1>6, UpdatesNumbered
    <3>2. \A i \in 1..n : w'[writers'[i]].sync => w'[t].sync
      BY <2>3, <2>4, <1>2, <1>6
    <3>3. /\ \A d, e \in Updates(n) : d.seq = e.seq <=> d.batch = e.batch
          /\ \A e \in Updates(n) :
               lastsequence < e.seq /\ e.seq <= lastsequence + Cardinality(HasBatch(n))
      BY UpdatesNumbered
    <3> HIDE DEF DataInv
    <3> QED
      BY <2>2, <3>1, <3>2, <3>3, <1>2 DEF LoggerInv
  <2>6. ASSUME NEW x \in Writer PROVE LoggerInv(x)'
    BY <2>5, <1>12 DEF LoggerInv, LoggingPC, LeaderPC
  <2>7. ASSUME NEW x \in Writer PROVE PhaseInv(x)'
    BY <2>2, <1>12 DEF PhaseInv, LeaderPC
  <2> QED
    BY <2>6, <2>7, <1>8, <1>9, <1>10, <1>11, <1>14
<1> QED
  BY <1>15, <1>16

(* MakeRoomForWrite fails: the head leaves alone, with nothing written.    *)
LEMMA RoomFailData ==
  ASSUME TypeOK, QueueInv, DataInv, NEW t \in Writer,
         RoomError(t) \/ (RoomSwitch(t) /\ imm' = imm)
  PROVE  DataInv'
<1> USE DEF DataInv
<1>1. pc[t] = "room" /\ pc[t] \in LeaderPC /\ pc[t] \in RoomPC
  BY DEF RoomError, RoomSwitch, LeaderPC, RoomPC
<1>2. /\ UNCHANGED <<log, mem, imm, flushed, lastsequence, wantsync, writers, hasimm, ncalls,
                     result, logfilenumber>>
      /\ w' = [w EXCEPT ![t].status = "error"] /\ pc' = [pc EXCEPT ![t] = "finish"]
  <2>1. CASE RoomError(t)
    BY <2>1 DEF RoomError, dataVars, histVars
  <2>2. CASE RoomSwitch(t) /\ imm' = imm
    <3>1. ~(imm' = mem)
      BY <2>2 DEF RoomSwitch, MustWait, ImmEmpty
    <3> QED
      BY <2>2, <3>1 DEF RoomSwitch, histVars
  <2> QED
    BY <2>1, <2>2
<1>3. /\ \A x \in Writer : x # t => pc'[x] = pc[x] /\ w'[x] = w[x]
      /\ pc'[t] = "finish" /\ w'[t].status = "error" /\ w'[t].last = w[t].last
      /\ \A x \in Writer : /\ w'[x].batch = w[x].batch /\ w'[x].sync = w[x].sync
                           /\ w'[x].done = w[x].done
  BY <1>2, DataTypes DEF WriterRecord
<1>4. w[t].last = 1 /\ writers[1] = t /\ \A i \in DOMAIN writers : writers[i] \in Writer
  BY <1>1, LeaderAlone DEF StatusInv
<1>5. Stored' = Stored /\ Readable' = Readable
  BY <1>2, OutcomeSame
<1>6. \A d \in Stored : /\ d.seq <= lastsequence
                        /\ \A i \in DOMAIN writers : w[writers[i]].batch # d.batch
  BY <1>1, NothingLogged
<1>7. CallsDistinct'
  BY <1>1, <1>2, <1>3 DEF CallsDistinct, OutsidePC
<1>8. NumbersGiven' /\ SequenceUnique' /\ ImmEmpty'
  BY <1>2, <1>5 DEF NumbersGiven, SequenceUnique, ImmEmpty, Stored, Readable
<1>9. StatusInv'
  BY <1>3 DEF StatusInv, RoomPC
<1>10. MembersInv' /\ ResultInv'
  <2>1. PICK S : S = {}
    OBVIOUS
  <2>2. \A b, status : b \notin S /\ Outcome(b, status) => Outcome(b, status)'
    BY <1>2, OutcomeSame
  <2>3. \A x \in Writer : pc'[x] = "woken" /\ w'[x].done /\ w'[x].batch # Nil =>
           /\ pc[x] = "woken" /\ w[x].done /\ w'[x].batch = w[x].batch
           /\ w'[x].status = w[x].status /\ w[x].batch \notin S
    BY <2>1, <1>3
  <2>4. \A b \in Batch : result[b] # "none" => b \notin S
    BY <2>1
  <2> QED
    BY <1>2, <2>2, <2>3, <2>4, OutcomesFrame
<1>11. \A x \in Writer : x # t => pc[x] \notin LeaderPC /\ pc'[x] \notin LeaderPC
  BY <1>1, <1>3, LeaderAlone
<1>12. EntriesPlaced'
  <2>1. ASSUME NEW d \in Stored' PROVE Settled(d)'
    BY <1>2, <1>3, <1>4, <1>5, <1>6 DEF Settled
  <2> QED
    BY <2>1 DEF EntriesPlaced
<1>13. ASSUME NEW x \in Writer PROVE LoggerInv(x)'
  BY <1>3, <1>11 DEF LoggerInv, LoggingPC, LeaderPC
<1>14. ASSUME NEW x \in Writer PROVE PhaseInv(x)'
  <2>1. CASE x # t
    BY <2>1, <1>11 DEF PhaseInv, LeaderPC
  <2>2. CASE x = t
    <3>1. \A e \in Readable' : e.batch # w[t].batch
      <4>1. 1 \in DOMAIN writers /\ \A e \in Readable : e \in Stored
        BY <1>1, LeaderAlone DEF Stored
      <4> QED
        BY <4>1, <1>4, <1>5, <1>6
    <3>2. \A i \in 1..w'[t].last : i = 1
      BY <1>3, <1>4
    <3> QED
      BY <2>2, <3>1, <3>2, <1>2, <1>3, <1>4 DEF PhaseInv, Outcome, Invisible
  <2> QED
    BY <2>1, <2>2
<1> QED
  BY <1>7, <1>8, <1>9, <1>10, <1>12, <1>13, <1>14

(* The record reaches the log file, or the append fails.                   *)
LEMMA AddRecordData ==
  ASSUME TypeOK, QueueInv, DataInv, NEW t \in Writer, AddRecord(t)
  PROVE  DataInv'
<1> USE DEF DataInv
<1>1. pc[t] = "log" /\ pc[t] \in LeaderPC /\ pc[t] \in LoggingPC
  BY DEF AddRecord, LeaderPC, LoggingPC
<1>2. UNCHANGED <<mem, imm, flushed, lastsequence, wantsync, writers, hasimm, ncalls,
                  result, logfilenumber>>
  BY DEF AddRecord, histVars
<1>3. /\ writers[1] = t /\ \A i \in DOMAIN writers : writers[i] \in Writer
      /\ \A i \in 1..w[t].last : i \in DOMAIN writers
  BY <1>1, LeaderAlone
<1>4. \A d \in Stored : /\ d.seq <= lastsequence
                        /\ \A i \in DOMAIN writers : w[writers[i]].batch # d.batch
  BY <1>1, NothingLogged
<1>5. \A e \in w[t].updates :
        /\ lastsequence < e.seq /\ e.batch <= ncalls
        /\ \A d \in Stored : d.batch # e.batch
  <2> SUFFICES ASSUME NEW e \in w[t].updates
               PROVE  /\ lastsequence < e.seq /\ e.batch <= ncalls
                      /\ \A d \in Stored : d.batch # e.batch
    OBVIOUS
  <2>1. PICK i \in 1..w[t].last : w[writers[i]].batch = e.batch
    BY <1>1 DEF LoggerInv
  <2>2. e.batch \in Batch /\ e.batch # Nil /\ writers[i] \in Writer /\ i \in DOMAIN writers
    BY <1>3, DataTypes
  <2> QED
    BY <2>1, <2>2, <1>1, <1>4 DEF LoggerInv, CallsDistinct
<1>6. /\ \A x \in Writer : x # t => pc'[x] = pc[x] /\ w'[x] = w[x]
      /\ pc'[t] \in {"sync", "insert", "relock"}
      /\ pc'[t] = "relock" <=> w'[t].status = "error"
      /\ pc'[t] = "insert" => ~w[t].sync
      /\ pc'[t] # "relock" => w'[t].status = "ok"
      /\ \A x \in Writer : /\ w'[x].batch = w[x].batch /\ w'[x].sync = w[x].sync
                           /\ w'[x].done = w[x].done /\ w'[x].updates = w[x].updates
                           /\ w'[x].last = w[x].last /\ w'[x].count = w[x].count
  <2>1. w[t].status = "ok"
    BY <1>1 DEF StatusInv
  <2>2. CASE w' = w /\ pc' = [pc EXCEPT ![t] = AfterLog(t, TRUE)]
    BY <2>1, <2>2, DataTypes DEF AfterLog
  <2>3. CASE w' = [w EXCEPT ![t].status = "error"] /\ pc' = [pc EXCEPT ![t] = AfterLog(t, FALSE)]
    BY <2>3, DataTypes DEF AfterLog, WriterRecord
  <2> QED
    BY <2>2, <2>3 DEF AddRecord
<1>7. /\ log \subseteq log' /\ Readable' = Readable
      /\ \A d \in log' : d \in log \/
           (pc'[t] # "relock" /\ \E e \in w[t].updates : e.seq = d.seq /\ e.batch = d.batch)
      /\ pc'[t] # "relock" =>
           \A e \in w[t].updates : \E d \in log' : d.batch = e.batch /\ d.file = logfilenumber
  <2> DEFINE R(e) == [seq |-> e.seq, batch |-> e.batch, file |-> logfilenumber, synced |-> FALSE]
  <2>1. Readable' = Readable
    BY <1>2 DEF Readable
  <2>2. CASE log' = log \cup {R(e) : e \in w[t].updates} /\ pc' = [pc EXCEPT ![t] = AfterLog(t, TRUE)]
    <3>1. pc'[t] # "relock"
      BY <2>2, DataTypes DEF AfterLog
    <3>2. \A e \in w[t].updates : R(e) \in log' /\ R(e).batch = e.batch /\ R(e).file = logfilenumber
      BY <2>2
    <3>3. \A d \in log' : d \in log \/ \E e \in w[t].updates : e.seq = d.seq /\ e.batch = d.batch
      BY <2>2
    <3> QED
      BY <2>1, <2>2, <3>1, <3>2, <3>3
  <2>3. CASE log' = log /\ pc' = [pc EXCEPT ![t] = AfterLog(t, FALSE)]
    <3>1. pc'[t] = "relock"
      BY <2>3, DataTypes DEF AfterLog
    <3> QED
      BY <2>1, <2>3, <3>1
  <2> QED
    BY <2>2, <2>3 DEF AddRecord
<1>8. \A d \in Stored' : d \in Stored \/
        (d \notin Readable /\ pc'[t] # "relock" /\ \E e \in w[t].updates : e.seq = d.seq /\ e.batch = d.batch)
  BY <1>5, <1>7 DEF Stored
<1>9. CallsDistinct'
  BY <1>1, <1>2, <1>6 DEF CallsDistinct, OutsidePC
<1>10. NumbersGiven' /\ ImmEmpty'
  BY <1>2, <1>5, <1>8 DEF NumbersGiven, ImmEmpty
<1>11. StatusInv'
  BY <1>6 DEF StatusInv, RoomPC
<1>12. SequenceUnique'
  <2> SUFFICES ASSUME NEW d \in Stored', NEW e \in Stored'
               PROVE  d.seq = e.seq <=> d.batch = e.batch
    BY DEF SequenceUnique, Stored, Readable
  <2>1. CASE d \in Stored /\ e \in Stored
    BY <2>1 DEF SequenceUnique, Stored, Readable
  <2>2. ASSUME NEW a \in Stored, NEW u \in w[t].updates
        PROVE  a.seq # u.seq /\ a.batch # u.batch
    BY <1>4, <1>5, DataTypes
  <2>3. \A u, v \in w[t].updates : u.seq = v.seq <=> u.batch = v.batch
    BY <1>1 DEF LoggerInv
  <2> QED
    BY <1>8, <2>1, <2>2, <2>3
<1>13. MembersInv' /\ ResultInv'
  <2>1. PICK S : S = {}
    OBVIOUS
  <2>2. \A b, status : b \notin S /\ Outcome(b, status) => Outcome(b, status)'
    <3>1. /\ lastsequence \in Nat /\ lastsequence' \in Nat /\ lastsequence <= lastsequence'
          /\ \A e \in Readable : e.seq \in Nat
      BY <1>2, DataTypes DEF Stored
    <3>2. \A d \in log : \E e \in log' : e.batch = d.batch /\ (d.synced => e.synced)
      BY <1>7
    <3>3. /\ "build" \notin Faults => Readable \subseteq Readable'
          /\ \A e \in Readable' : e \in Readable \/ e.batch \in S
          /\ \A b \in wantsync' : b \in wantsync \/ b \in S
      BY <1>2, <1>7
    <3> QED
      BY <3>1, <3>2, <3>3, OutcomeKept
  <2>3. \A x \in Writer : pc'[x] = "woken" /\ w'[x].done /\ w'[x].batch # Nil =>
           /\ pc[x] = "woken" /\ w[x].done /\ w'[x].batch = w[x].batch
           /\ w'[x].status = w[x].status /\ w[x].batch \notin S
    BY <2>1, <1>6
  <2>4. \A b \in Batch : result[b] # "none" => b \notin S
    BY <2>1
  <2> QED
    BY <1>2, <2>2, <2>3, <2>4, OutcomesFrame
<1>14. \A x \in Writer : x # t => pc[x] \notin LeaderPC /\ pc'[x] \notin LeaderPC
  BY <1>1, <1>6, LeaderAlone
<1>15. EntriesPlaced'
  <2>1. ASSUME NEW d \in Stored' PROVE Settled(d)' \/ Pending(d)'
    <3>1. CASE d \in Stored
      BY <3>1, <1>2, <1>3, <1>4, <1>6 DEF Settled
    <3>2. CASE d \notin Stored
      <4>1. pc'[t] \in {"sync", "insert"} /\ d \notin Readable'
        BY <3>2, <1>6, <1>7, <1>8
      <4>2. \E e \in w'[t].updates : e.seq = d.seq /\ e.batch = d.batch
        BY <3>2, <1>6, <1>8
      <4> QED
        BY <4>1, <4>2 DEF Pending
    <3> QED
      BY <3>1, <3>2
  <2> QED
    BY <2>1 DEF EntriesPlaced
<1>16. ASSUME NEW x \in Writer PROVE LoggerInv(x)'
  <2>1. CASE x # t
    BY <2>1, <1>14 DEF LoggerInv, LoggingPC, LeaderPC
  <2>2. CASE x = t
    BY <2>2, <1>1, <1>2, <1>3, <1>6 DEF LoggerInv
  <2> QED
    BY <2>1, <2>2
<1>17. ASSUME NEW x \in Writer PROVE PhaseInv(x)'
  <2>1. CASE x # t
    BY <2>1, <1>14 DEF PhaseInv, LeaderPC
  <2>2. CASE x = t
    BY <2>2, <1>2, <1>6, <1>7 DEF PhaseInv
  <2> QED
    BY <2>1, <2>2
<1> QED
  BY <1>9, <1>10, <1>11, <1>12, <1>13, <1>15, <1>16, <1>17

(* The log file reaches the disk, with the group's record in it.           *)
LEMMA SyncLogData ==
  ASSUME TypeOK, QueueInv, DataInv, NEW t \in Writer, SyncLog(t)
  PROVE  DataInv'
<1> USE DEF DataInv
<1>1. pc[t] = "sync" /\ pc[t] \in LeaderPC /\ pc[t] \in LoggingPC
  BY DEF SyncLog, LeaderPC, LoggingPC
<1>2. UNCHANGED <<mem, imm, flushed, lastsequence, wantsync, writers, hasimm, ncalls,
                  result, logfilenumber>>
  BY DEF SyncLog, histVars
<1>3. /\ writers[1] = t /\ \A i \in DOMAIN writers : writers[i] \in Writer
      /\ \A i \in 1..w[t].last : i \in DOMAIN writers /\ 1 \in DOMAIN writers
  BY <1>1, LeaderAlone
<1>4. /\ \A x \in Writer : x # t => pc'[x] = pc[x] /\ w'[x] = w[x]
      /\ pc'[t] \in {"insert", "relock"}
      /\ pc'[t] = "relock" => w'[t].status = "error"
      /\ pc'[t] = "insert" => w'[t].status = "ok"
      /\ \A x \in Writer : /\ w'[x].batch = w[x].batch /\ w'[x].sync = w[x].sync
                           /\ w'[x].done = w[x].done /\ w'[x].updates = w[x].updates
                           /\ w'[x].last = w[x].last /\ w'[x].count = w[x].count
  <2>1. w[t].status = "ok"
    BY <1>1 DEF StatusInv
  <2>2. CASE w' = w /\ pc' = [pc EXCEPT ![t] = AfterSync(TRUE)]
    BY <2>1, <2>2, DataTypes DEF AfterSync
  <2>3. CASE w' = [w EXCEPT ![t].status = "error", ![t].syncerror = TRUE] /\ pc' = [pc EXCEPT ![t] = AfterSync(FALSE)]
    BY <2>3, DataTypes DEF AfterSync, WriterRecord
  <2> QED
    BY <2>2, <2>3 DEF SyncLog
<1>5. /\ \A d \in log' : \E e \in log : d.seq = e.seq /\ d.batch = e.batch
      /\ \A e \in log : \E d \in log' :
           /\ d.batch = e.batch /\ (e.synced => d.synced)
           /\ pc'[t] = "insert" /\ e.file = logfilenumber => d.synced
  <2> DEFINE R(e) == [e EXCEPT !.synced = @ \/ e.file = logfilenumber]
  <2>1. \A e \in log : /\ R(e).batch = e.batch /\ R(e).seq = e.seq
                       /\ R(e).synced = (e.synced \/ e.file = logfilenumber)
    BY DEF TypeOK, DataOK, LogEntry
  <2>2. CASE log' = log /\ pc' = [pc EXCEPT ![t] = AfterSync(FALSE)]
    <3>1. pc'[t] = "relock"
      BY <2>2, DataTypes DEF AfterSync
    <3> QED
      BY <2>2, <3>1
  <2>3. CASE log' = {R(e) : e \in log}
    BY <2>1, <2>3, ZenonT(40)
  <2> QED
    BY <2>2, <2>3 DEF SyncLog
<1>6. Readable' = Readable
  BY <1>2 DEF Readable
<1>7. \A d \in Stored' : d \in Readable \/ \E e \in log : d.seq = e.seq /\ d.batch = e.batch
  BY <1>5, <1>6 DEF Stored
<1>8. \A d \in Stored' : \E e \in Stored : d.seq = e.seq /\ d.batch = e.batch
  BY <1>7 DEF Stored
<1>9. CallsDistinct'
  BY <1>1, <1>2, <1>4 DEF CallsDistinct, OutsidePC
<1>10. NumbersGiven' /\ ImmEmpty'
  BY <1>2, <1>8 DEF NumbersGiven, ImmEmpty
<1>11. StatusInv'
  BY <1>4 DEF StatusInv, RoomPC
<1>12. SequenceUnique'
  <2>1. \A d, e \in Stored : d.seq = e.seq <=> d.batch = e.batch
    BY DEF SequenceUnique, Stored, Readable
  <2>2. \A d, e \in Stored' : d.seq = e.seq <=> d.batch = e.batch
    BY <2>1, <1>8
  <2> QED
    BY <2>2 DEF SequenceUnique, Stored, Readable
<1>13. MembersInv' /\ ResultInv'
  <2>1. PICK S : S = {}
    OBVIOUS
  <2>2. \A b, status : b \notin S /\ Outcome(b, status) => Outcome(b, status)'
    <3>1. /\ lastsequence \in Nat /\ lastsequence' \in Nat /\ lastsequence <= lastsequence'
          /\ \A e \in Readable : e.seq \in Nat
      BY <1>2, DataTypes DEF Stored
    <3>2. \A d \in log : \E e \in log' : e.batch = d.batch /\ (d.synced => e.synced)
      BY <1>5
    <3>3. /\ "build" \notin Faults => Readable \subseteq Readable'
          /\ \A e \in Readable' : e \in Readable \/ e.batch \in S
          /\ \A b \in wantsync' : b \in wantsync \/ b \in S
      BY <1>2, <1>6
    <3> QED
      BY <3>1, <3>2, <3>3, OutcomeKept
  <2>3. \A x \in Writer : pc'[x] = "woken" /\ w'[x].done /\ w'[x].batch # Nil =>
           /\ pc[x] = "woken" /\ w[x].done /\ w'[x].batch = w[x].batch
           /\ w'[x].status = w[x].status /\ w[x].batch \notin S
    BY <2>1, <1>4
  <2>4. \A b \in Batch : result[b] # "none" => b \notin S
    BY <2>1
  <2> QED
    BY <1>2, <2>2, <2>3, <2>4, OutcomesFrame
<1>14. \A x \in Writer : x # t => pc[x] \notin LeaderPC /\ pc'[x] \notin LeaderPC
  BY <1>1, <1>4, LeaderAlone
<1>15. EntriesPlaced'
  <2>1. ASSUME NEW d \in Stored, NEW c, c.seq = d.seq, c.batch = d.batch,
               c \in Readable => d \in Readable
        PROVE  Settled(c)' \/ Pending(c)'
    <3>1. CASE Settled(d)
      BY <2>1, <3>1, <1>1, <1>2, <1>3, <1>4 DEF Settled
    <3>2. CASE Pending(d)
      <4>1. \E e \in w[t].updates : e.seq = d.seq /\ e.batch = d.batch
        BY <3>2, <1>14 DEF Pending, LeaderPC
      <4>2. d \notin Readable
        BY <3>2, <1>1, <1>14 DEF Pending, LeaderPC
      <4> QED
        BY <2>1, <4>1, <4>2, <1>4, <1>6 DEF Pending
    <3> QED
      BY <3>1, <3>2 DEF EntriesPlaced
  <2>2. ASSUME NEW c \in Stored' PROVE Settled(c)' \/ Pending(c)'
    <3>1. CASE c \in Readable
      BY <2>1, <3>1 DEF Stored
    <3>2. CASE c \notin Readable
      BY <2>1, <3>2, <1>8
    <3> QED
      BY <3>1, <3>2
  <2> QED
    BY <2>2 DEF EntriesPlaced
<1>16. ASSUME NEW x \in Writer PROVE LoggerInv(x)'
  <2>1. CASE x # t
    BY <2>1, <1>14 DEF LoggerInv, LoggingPC, LeaderPC
  <2>2. CASE x = t
    BY <2>2, <1>1, <1>2, <1>3, <1>4 DEF LoggerInv
  <2> QED
    BY <2>1, <2>2
<1>17. ASSUME NEW x \in Writer PROVE PhaseInv(x)'
  <2>1. CASE x # t
    BY <2>1, <1>14 DEF PhaseInv, LeaderPC
  <2>2. CASE x = t
    <3>1. pc'[t] = "insert" => \A e \in w[t].updates : \E d \in log' : d.batch = e.batch /\ d.synced
      BY <1>1, <1>5 DEF PhaseInv
    <3> QED
      BY <2>2, <3>1, <1>2, <1>4 DEF PhaseInv, Durable
  <2> QED
    BY <2>1, <2>2
<1> QED
  BY <1>9, <1>10, <1>11, <1>12, <1>13, <1>15, <1>16, <1>17

(* The group enters mem: readers see exactly its batches in addition.      *)
LEMMA InsertIntoData ==
  ASSUME TypeOK, QueueInv, DataInv, NEW t \in Writer, InsertInto(t)
  PROVE  DataInv'
<1> USE DEF DataInv
<1>1. /\ pc[t] = "insert" /\ pc[t] \in LeaderPC /\ pc[t] \in LoggingPC
      /\ pc' = [pc EXCEPT ![t] = "relock"]
  BY DEF InsertInto, LeaderPC, LoggingPC
<1>2. /\ UNCHANGED <<w, log, imm, flushed, lastsequence, wantsync, writers, hasimm, ncalls,
                     result, logfilenumber>>
      /\ mem' = mem \cup w[t].updates
  BY DEF InsertInto, histVars, queueVars
<1>3. /\ writers[1] = t /\ \A i \in DOMAIN writers : writers[i] \in Writer /\ ~w[writers[i]].done
      /\ \A i \in 1..w[t].last : i \in DOMAIN writers /\ 1 \in DOMAIN writers
  BY <1>1, LeaderAlone
<1>4. /\ \A x \in Writer : x # t => pc'[x] = pc[x]
      /\ pc'[t] = "relock" /\ w[t].status = "ok"
  BY <1>1, DataTypes DEF StatusInv
<1>5. Readable' = Readable \cup w[t].updates /\ Stored' = Stored \cup w[t].updates
  BY <1>2 DEF Readable, Stored
<1>6. PICK S : S = {e.batch : e \in w[t].updates}
  OBVIOUS
<1>7. \A b \in S : /\ b \in Batch /\ b # Nil /\ b <= ncalls /\ result[b] = "none"
                   /\ \E i \in DOMAIN writers : w[writers[i]].batch = b
  <2> SUFFICES ASSUME NEW b \in S
               PROVE  /\ b \in Batch /\ b # Nil /\ b <= ncalls /\ result[b] = "none"
                      /\ \E i \in DOMAIN writers : w[writers[i]].batch = b
    OBVIOUS
  <2>1. PICK e \in w[t].updates : b = e.batch
    BY <1>6
  <2>2. PICK i \in 1..w[t].last : w[writers[i]].batch = b
    BY <1>1, <2>1 DEF LoggerInv
  <2>3. b \in Batch /\ b # Nil
    BY <2>1, DataTypes
  <2> QED
    BY <2>2, <2>3, <1>3 DEF CallsDistinct
<1>8. CallsDistinct'
  BY <1>1, <1>2, <1>4 DEF CallsDistinct, OutsidePC
<1>9. NumbersGiven' /\ ImmEmpty'
  <2>1. \A e \in w[t].updates : e.batch <= ncalls
    BY <1>6, <1>7
  <2> QED
    BY <2>1, <1>2, <1>5 DEF NumbersGiven, ImmEmpty
<1>10. StatusInv'
  BY <1>2, <1>4 DEF StatusInv, RoomPC
<1>11. \A d \in Stored : \A u \in w[t].updates : d.seq = u.seq <=> d.batch = u.batch
  <2> SUFFICES ASSUME NEW d \in Stored, NEW u \in w[t].updates
               PROVE  d.seq = u.seq <=> d.batch = u.batch
    OBVIOUS
  <2>1. CASE Settled(d)
    <3>1. d.seq # u.seq
      BY <2>1, <1>1, DataTypes DEF Settled, LoggerInv
    <3>2. d.batch # u.batch
      BY <2>1, <1>1, <1>3, <1>6, <1>7 DEF Settled
    <3> QED
      BY <3>1, <3>2
  <2>2. CASE Pending(d)
    <3>1. \E e \in w[t].updates : e.seq = d.seq /\ e.batch = d.batch
      BY <2>2, <1>1, LeaderAlone DEF Pending, LeaderPC
    <3> QED
      BY <3>1, <1>1 DEF LoggerInv
  <2> QED
    BY <2>1, <2>2 DEF EntriesPlaced
<1>12. SequenceUnique'
  <2>1. \A d, e \in Stored : d.seq = e.seq <=> d.batch = e.batch
    BY DEF SequenceUnique, Stored, Readable
  <2>2. \A d, e \in w[t].updates : d.seq = e.seq <=> d.batch = e.batch
    BY <1>1 DEF LoggerInv
  <2>3. \A d, e \in Stored' : d.seq = e.seq <=> d.batch = e.batch
    BY <2>1, <2>2, <1>5, <1>11
  <2> QED
    BY <2>3 DEF SequenceUnique, Stored, Readable
<1>13. MembersInv' /\ ResultInv'
  <2>1. \A b, status : b \notin S /\ Outcome(b, status) => Outcome(b, status)'
    <3>1. /\ lastsequence \in Nat /\ lastsequence' \in Nat /\ lastsequence <= lastsequence'
          /\ \A e \in Readable : e.seq \in Nat
      BY <1>2, DataTypes DEF Stored
    <3>2. \A d \in log : \E e \in log' : e.batch = d.batch /\ (d.synced => e.synced)
      BY <1>2
    <3>3. /\ "build" \notin Faults => Readable \subseteq Readable'
          /\ \A e \in Readable' : e \in Readable \/ e.batch \in S
          /\ \A b \in wantsync' : b \in wantsync \/ b \in S
      BY <1>2, <1>5, <1>6
    <3> QED
      BY <3>1, <3>2, <3>3, OutcomeKept
  <2>2. \A x \in Writer : pc'[x] = "woken" /\ w'[x].done /\ w'[x].batch # Nil =>
           /\ pc[x] = "woken" /\ w[x].done /\ w'[x].batch = w[x].batch
           /\ w'[x].status = w[x].status /\ w[x].batch \notin S
    <3> SUFFICES ASSUME NEW x \in Writer, pc'[x] = "woken", w'[x].done, w'[x].batch # Nil
                 PROVE  pc[x] = "woken" /\ w[x].batch \notin S
      BY <1>2
    <3>1. pc[x] = "woken"
      BY <1>4
    <3>2. ASSUME w[x].batch \in S PROVE FALSE
      <4>1. PICK i \in DOMAIN writers : w[writers[i]].batch = w[x].batch
        BY <3>2, <1>7
      <4>2. writers[i] = x
        BY <4>1, <1>2, <1>3 DEF CallsDistinct
      <4> QED
        BY <4>2, <1>2, <1>3
    <3> QED
      BY <3>1, <3>2
  <2>3. \A b \in Batch : result[b] # "none" => b \notin S
    BY <1>7
  <2> QED
    BY <1>2, <2>1, <2>2, <2>3, OutcomesFrame
<1>14. \A x \in Writer : x # t => pc[x] \notin LeaderPC /\ pc'[x] \notin LeaderPC
  BY <1>1, <1>4, LeaderAlone
<1>15. EntriesPlaced'
  <2>1. ASSUME NEW d \in Stored' PROVE Settled(d)' \/ Pending(d)'
    <3>1. CASE \E e \in w[t].updates : e.seq = d.seq /\ e.batch = d.batch
      BY <3>1, <1>2, <1>4 DEF Pending
    <3>2. CASE d \in Stored /\ Settled(d)
      BY <3>2, <1>1, <1>2, <1>3, <1>4 DEF Settled
    <3>3. CASE d \in Stored /\ Pending(d)
      BY <3>1, <3>3, <1>14 DEF Pending, LeaderPC
    <3> QED
      BY <3>1, <3>2, <3>3, <1>5 DEF EntriesPlaced
  <2> QED
    BY <2>1 DEF EntriesPlaced
<1>16. ASSUME NEW x \in Writer PROVE LoggerInv(x)'
  <2>1. CASE x # t
    BY <2>1, <1>14 DEF LoggerInv, LoggingPC, LeaderPC
  <2>2. CASE x = t
    BY <2>2, <1>1, <1>2 DEF LoggerInv
  <2> QED
    BY <2>1, <2>2
<1>17. ASSUME NEW x \in Writer PROVE PhaseInv(x)'
  <2>1. CASE x # t
    BY <2>1, <1>14 DEF PhaseInv, LeaderPC
  <2>2. CASE x = t
    BY <2>2, <1>1, <1>2, <1>4 DEF PhaseInv, Durable
  <2> QED
    BY <2>1, <2>2
<1> QED
  BY <1>8, <1>9, <1>10, <1>12, <1>13, <1>15, <1>16, <1>17

(* Back under the mutex the numbers of the group become visible: every     *)
(* member has what the head's status promises.                             *)
LEMMA RelockData ==
  ASSUME TypeOK, QueueInv, DataInv, NEW t \in Writer, Relock(t)
  PROVE  DataInv'
<1> USE DEF DataInv
<1>1. /\ pc[t] = "relock" /\ pc[t] \in LeaderPC /\ pc[t] \in LoggingPC
      /\ \/ pc' = [pc EXCEPT ![t] = "finish"]
         \/ pc' = [NotifyAll(pc) EXCEPT ![t] = "finish"]
  BY DEF Relock, LeaderPC, LoggingPC, AfterError
<1>2. /\ UNCHANGED <<w, log, mem, imm, flushed, wantsync, writers, hasimm, ncalls,
                     result, logfilenumber>>
      /\ lastsequence' = lastsequence + w[t].count
  BY DEF Relock, SequenceAfter, histVars, queueVars
<1>3. /\ writers[1] = t /\ \A i \in DOMAIN writers : writers[i] \in Writer
      /\ \A i \in 1..w[t].last : i \in DOMAIN writers /\ 1 \in DOMAIN writers
  BY <1>1, LeaderAlone
<1>4. pc'[t] = "finish" /\ \A x \in Writer : x # t =>
        \/ pc'[x] = pc[x]
        \/ pc[x] \in RoomPC /\ pc'[x] \in RoomPC
        \/ pc[x] \in OutsidePC /\ pc'[x] \in OutsidePC
  <2>1. DOMAIN NotifyAll(pc) = Thread
    BY DEF NotifyAll
  <2> QED
    BY <1>1, <2>1, DataTypes, NotifyAllData
<1>5. \A x \in Writer : x # t => pc[x] \notin LeaderPC /\ pc'[x] \notin LeaderPC /\ (pc'[x] = "woken" <=> pc[x] = "woken")
                               /\ (pc'[x] = "wait" <=> pc[x] = "wait") /\ (pc'[x] \in OutsidePC <=> pc[x] \in OutsidePC)
  <2>1. \A x \in Writer : x # t => pc[x] \notin LeaderPC
    BY <1>1, LeaderAlone
  <2> QED
    BY <1>4, <2>1 DEF RoomPC, OutsidePC, LeaderPC
<1>6. Readable' = Readable /\ Stored' = Stored
  BY <1>2 DEF Readable, Stored
<1>7. lastsequence \in Nat /\ lastsequence' \in Nat /\ lastsequence <= lastsequence' /\ w[t].count \in Nat
  BY <1>2, DataTypes DEF WriterRecord
<1>8. CallsDistinct'
  BY <1>1, <1>2, <1>4, <1>5 DEF CallsDistinct, OutsidePC
<1>9. NumbersGiven' /\ SequenceUnique' /\ ImmEmpty'
  BY <1>2, <1>6 DEF NumbersGiven, SequenceUnique, ImmEmpty, Stored, Readable
<1>10. StatusInv'
  BY <1>2, <1>4, <1>5 DEF StatusInv, RoomPC, LeaderPC
<1>11. \A b, status : Outcome(b, status) => Outcome(b, status)'
  <2>1. PICK S : S = {}
    OBVIOUS
  <2>2. \A e \in Readable : e.seq \in Nat
    BY DataTypes DEF Stored
  <2>3. \A d \in log : \E e \in log' : e.batch = d.batch /\ (d.synced => e.synced)
    BY <1>2
  <2>4. /\ "build" \notin Faults => Readable \subseteq Readable'
        /\ \A e \in Readable' : e \in Readable \/ e.batch \in S
        /\ \A b \in wantsync' : b \in wantsync \/ b \in S
    BY <1>2, <1>6
  <2>5. \A b, status : b \notin S /\ Outcome(b, status) => Outcome(b, status)'
    BY <1>7, <2>2, <2>3, <2>4, OutcomeKept
  <2> QED
    BY <2>1, <2>5
<1>12. MembersInv' /\ ResultInv'
  <2>1. PICK S : S = {}
    OBVIOUS
  <2>2. \A b, status : b \notin S /\ Outcome(b, status) => Outcome(b, status)'
    BY <1>11
  <2>3. \A x \in Writer : pc'[x] = "woken" /\ w'[x].done /\ w'[x].batch # Nil =>
           /\ pc[x] = "woken" /\ w[x].done /\ w'[x].batch = w[x].batch
           /\ w'[x].status = w[x].status /\ w[x].batch \notin S
    BY <2>1, <1>2, <1>4, <1>5
  <2>4. \A b \in Batch : result[b] # "none" => b \notin S
    BY <2>1
  <2> QED
    BY <1>2, <2>2, <2>3, <2>4, OutcomesFrame
<1>13. EntriesPlaced'
  <2>1. ASSUME NEW d \in Stored PROVE Settled(d)'
    <3>1. d.seq \in Nat
      BY DataTypes
    <3>2. CASE Settled(d)
      BY <3>1, <3>2, <1>1, <1>2, <1>3, <1>7 DEF Settled
    <3>3. CASE Pending(d)
      <4>1. PICK e \in w[t].updates : e.seq = d.seq /\ e.batch = d.batch
        BY <3>3, <1>5 DEF Pending, LeaderPC
      <4>2. d.seq <= lastsequence'
        BY <4>1, <1>1, <1>2 DEF LoggerInv
      <4>3. PICK j \in 1..w[t].last : w[writers[j]].batch = d.batch
        BY <4>1, <1>1 DEF LoggerInv
      <4>4. d.batch # Nil
        BY DataTypes
      <4>5. ASSUME NEW i \in DOMAIN writers, w[writers[i]].batch = d.batch
            PROVE  i <= w[t].last
        <5>1. writers[i] = writers[j]
          BY <4>3, <4>4, <4>5, <1>3 DEF CallsDistinct
        <5>2. i = j
          BY <5>1, <1>3 DEF QueueInv, QueueDistinct
        <5>3. w[t].last \in Nat
          BY DataTypes DEF WriterRecord
        <5> QED
          BY <5>2, <5>3
      <4> QED
        BY <4>2, <4>5, <1>2, <1>3, <1>4 DEF Settled
    <3> QED
      BY <3>2, <3>3 DEF EntriesPlaced
  <2> QED
    BY <2>1, <1>6 DEF EntriesPlaced
<1>14. ASSUME NEW x \in Writer PROVE LoggerInv(x)'
  BY <1>4, <1>5 DEF LoggerInv, LoggingPC, LeaderPC
<1>15. ASSUME NEW i \in 1..w[t].last, NEW b, b = w[writers[i]].batch, b # Nil
       PROVE  Outcome(b, w[t].status)'
  <2>1. PICK e \in w[t].updates : e.batch = b
    BY <1>15, <1>1 DEF LoggerInv
  <2>2. i \in DOMAIN writers /\ writers[i] \in Writer
    BY <1>3
  <2>3. w[t].status = "ok" => Kept(b)'
    <3>1. w[t].status = "ok" => e \in Readable'
      BY <1>1, <1>6 DEF PhaseInv, Readable
    <3>2. e.seq <= lastsequence'
      BY <1>1, <1>2 DEF LoggerInv
    <3> QED
      BY <2>1, <3>1, <3>2 DEF Kept
  <2>4. w[t].status = "ok" /\ b \in wantsync => Durable(b)'
    <3> SUFFICES ASSUME w[t].status = "ok", b \in wantsync PROVE Durable(b)'
      OBVIOUS
    <3>1. w[writers[i]].sync
      BY <1>15, <2>2 DEF CallsDistinct
    <3>2. w[t].sync
      BY <1>1, <1>15, <3>1 DEF LoggerInv
    <3>3. Durable(b)
      BY <2>1, <3>2, <1>1 DEF PhaseInv
    <3> QED
      BY <3>3, <1>2 DEF Durable
  <2>5. w[t].status = "error" => Invisible(b)'
    <3> SUFFICES ASSUME w[t].status = "error", NEW d \in Readable, d.batch = b PROVE FALSE
      BY <1>6 DEF Invisible
    <3>1. ~Settled(d)
      BY <1>1, <1>3, <1>15, <2>2 DEF Settled
    <3>2. ~Pending(d)
      BY <1>5 DEF Pending, LeaderPC
    <3> QED
      BY <3>1, <3>2 DEF EntriesPlaced, Stored
  <2> QED
    BY <2>3, <2>4, <2>5, <1>2 DEF Outcome
<1>16. ASSUME NEW x \in Writer PROVE PhaseInv(x)'
  <2>1. CASE x # t
    BY <2>1, <1>5 DEF PhaseInv, LeaderPC
  <2>2. CASE x = t
    <3>1. ASSUME NEW i \in 1..w[t].last, w[writers[i]].batch # Nil
          PROVE  Outcome(w[writers[i]].batch, w[t].status)'
      <4>1. PICK b : b = w[writers[i]].batch
        OBVIOUS
      <4>2. Outcome(b, w[t].status)'
        BY <3>1, <4>1, <1>15
      <4> QED
        BY <4>1, <4>2, <1>2 DEF Outcome, Kept, Durable, Invisible
    <3> QED
      BY <2>2, <3>1, <1>2, <1>4 DEF PhaseInv
  <2> QED
    BY <2>1, <2>2
<1> QED
  BY <1>8, <1>9, <1>10, <1>12, <1>13, <1>14, <1>16

(* What the caller and the group members find when the head returns.       *)
LEMMA FinishLocals ==
  ASSUME TypeOK, QueueInv, NEW t \in Writer, Finish(t)
  PROVE  /\ pc'[t] \in OutsidePC /\ w'[t].batch = Nil
         /\ \A i \in 1..w[t].last : writers[i] # t =>
              /\ pc'[writers[i]] = "woken" /\ w'[writers[i]].done
              /\ w'[writers[i]].status = w[t].status
         /\ \A x \in Writer : x # t =>
              /\ w'[x].batch = w[x].batch /\ w'[x].sync = w[x].sync /\ w'[x].last = w[x].last
              /\ pc'[x] = pc[x] \/ (pc'[x] = "woken" /\ \E i \in DOMAIN writers : writers[i] = x)
              /\ \/ w'[x] = w[x]
                 \/ pc'[x] = "woken" /\ w'[x].done /\ \E i \in 1..w[t].last : writers[i] = x
<1> DEFINE n == w[t].last
           members == {writers[i] : i \in (2..n) \cap DOMAIN writers}
<1>1. pc[t] \in LeaderPC
  BY DEF Finish, LeaderPC
<1>2. /\ writers \in Seq(Writer) /\ 1 \in DOMAIN writers /\ writers[1] = t
      /\ n \in 1..Len(writers) /\ n \in Nat
      /\ \A i \in DOMAIN writers : writers[i] \in Writer
      /\ w \in [Writer -> WriterRecord] /\ \A x \in Writer : x \in Thread
  BY <1>1, LeaderAlone, DataTypes
<1>3. \A i \in 1..n : writers[i] # t => writers[i] \in members
  BY <1>2
<1>4. members \cup NextHead(n) \subseteq {writers[i] : i \in DOMAIN writers}
  BY <1>2 DEF NextHead
<1>5. pc' = [x \in Thread |->
               CASE x = t -> AfterWrite(t, w[t].status)
                 [] x # t /\ x \in members \cup NextHead(n) -> "woken"
                 [] OTHER -> pc[x]]
  BY DEF Finish
<1>6. w' = [x \in Writer |->
              CASE x = t -> LocalsAfterWrite(t, w[t].status)
                [] x # t /\ x \in members ->
                     [w[x] EXCEPT !.done = TRUE, !.status = w[t].status]
                [] OTHER -> w[x]]
  BY DEF Finish
<1>7. \A x \in members : \E i \in 1..n : writers[i] = x
  BY <1>2
<1>8. \A x \in members : x \in Writer
  BY <1>2
<1> HIDE DEF members, n
<1>9. pc'[t] \in OutsidePC /\ w'[t].batch = Nil
  <2>1. pc'[t] = AfterWrite(t, w[t].status)
    BY <1>2, <1>5
  <2>2. w'[t] = LocalsAfterWrite(t, w[t].status)
    BY <1>2, <1>6
  <2> QED
    BY <2>1, <2>2 DEF AfterWrite, LocalsAfterWrite, OutsidePC, IdleWriter
<1>10. \A x \in Writer : x # t /\ x \in members =>
         /\ pc'[x] = "woken" /\ w'[x].done /\ w'[x].status = w[t].status
         /\ w'[x].batch = w[x].batch /\ w'[x].sync = w[x].sync /\ w'[x].last = w[x].last
  <2> SUFFICES ASSUME NEW x \in Writer, x # t, x \in members
               PROVE  /\ pc'[x] = "woken" /\ w'[x].done /\ w'[x].status = w[t].status
                      /\ w'[x].batch = w[x].batch /\ w'[x].sync = w[x].sync /\ w'[x].last = w[x].last
    OBVIOUS
  <2>1. pc'[x] = "woken"
    BY <1>2, <1>5
  <2>2. w'[x] = [w[x] EXCEPT !.done = TRUE, !.status = w[t].status]
    BY <1>6
  <2>3. w[x] \in WriterRecord
    BY <1>2
  <2> QED
    BY <2>1, <2>2, <2>3 DEF WriterRecord
<1>11. \A x \in Writer : x # t /\ x \notin members =>
         /\ w'[x] = w[x] /\ (pc'[x] = pc[x] \/ (pc'[x] = "woken" /\ x \in NextHead(n)))
  BY <1>2, <1>5, <1>6
<1>12. \A x \in members \cup NextHead(n) : \E i \in DOMAIN writers : writers[i] = x
  BY <1>4
<1>13. \A i \in 1..n : writers[i] # t => writers[i] \in Writer
  BY <1>3, <1>8
<1> QED
  BY <1>3, <1>7, <1>9, <1>10, <1>11, <1>12, <1>13 DEF n

(* The head returns its status and hands it to the members of its group.   *)
LEMMA FinishData ==
  ASSUME TypeOK, QueueInv, DataInv, NEW t \in Writer, Finish(t)
  PROVE  DataInv'
<1> USE DEF DataInv
<1>1. pc[t] = "finish" /\ pc[t] \in LeaderPC
  BY DEF Finish, LeaderPC
<1>2. /\ UNCHANGED <<log, mem, imm, flushed, lastsequence, wantsync, hasimm, ncalls, logfilenumber>>
      /\ result' = (IF w[t].batch = Nil THEN result ELSE [result EXCEPT ![w[t].batch] = w[t].status])
      /\ writers' = SubSeq(writers, w[t].last + 1, Len(writers))
  BY DEF Finish, Returned, dataVars
<1>3. /\ writers[1] = t /\ \A i \in DOMAIN writers : writers[i] \in Writer /\ ~w[writers[i]].done
      /\ \A i \in 1..w[t].last : i \in DOMAIN writers
      /\ 1 \in DOMAIN writers /\ w[t].last \in 1..Len(writers) /\ writers \in Seq(Writer)
      /\ w[t].last \in Nat
  BY <1>1, LeaderAlone, DataTypes
<1>4. /\ pc'[t] \in OutsidePC /\ w'[t].batch = Nil
      /\ \A i \in 1..w[t].last : writers[i] # t =>
           /\ pc'[writers[i]] = "woken" /\ w'[writers[i]].done
           /\ w'[writers[i]].status = w[t].status
      /\ \A x \in Writer : x # t =>
           /\ w'[x].batch = w[x].batch /\ w'[x].sync = w[x].sync /\ w'[x].last = w[x].last
           /\ pc'[x] = pc[x] \/ (pc'[x] = "woken" /\ \E i \in DOMAIN writers : writers[i] = x)
           /\ \/ w'[x] = w[x]
              \/ pc'[x] = "woken" /\ w'[x].done /\ \E i \in 1..w[t].last : writers[i] = x
  BY FinishLocals
<1>5. Readable' = Readable /\ Stored' = Stored /\ \A b, status : Outcome(b, status) => Outcome(b, status)'
  BY <1>2, OutcomeSame
<1>6. \A x \in Writer : x # t => pc[x] \notin LeaderPC
  BY <1>1, LeaderAlone
<1>7. \A x \in Writer : pc'[x] \notin LeaderPC
  BY <1>4, <1>6 DEF LeaderPC, OutsidePC
<1>8. w[t].batch # Nil => w[t].batch \in Batch /\ w[t].batch <= ncalls
  BY DataTypes DEF WriterRecord, CallsDistinct
<1>9. result \in [Batch -> {"none", "ok", "error"}]
  BY DEF TypeOK, HistoryOK
<1>10. /\ \A b \in Batch : b # w[t].batch => result'[b] = result[b]
       /\ w[t].batch # Nil => result'[w[t].batch] = w[t].status
  BY <1>2, <1>8, <1>9
<1>11. CallsDistinct'
  <2>1. ASSUME NEW x \in Writer, pc'[x] \in OutsidePC PROVE w'[x].batch = Nil
    BY <2>1, <1>4 DEF CallsDistinct, OutsidePC
  <2>2. ASSUME NEW x \in Writer, w'[x].batch # Nil
        PROVE  /\ w'[x].batch <= ncalls' /\ result'[w'[x].batch] = "none"
               /\ (w'[x].sync <=> w'[x].batch \in wantsync')
    <3>1. x # t /\ w'[x].batch = w[x].batch /\ w'[x].sync = w[x].sync /\ w[x].batch # w[t].batch
      BY <2>2, <1>4 DEF CallsDistinct
    <3>2. w[x].batch \in Batch
      BY <2>2, <3>1, DataTypes DEF WriterRecord
    <3> QED
      BY <2>2, <3>1, <3>2, <1>2, <1>10 DEF CallsDistinct
  <2>3. ASSUME NEW x \in Writer, NEW u \in Writer, w'[x].batch # Nil, w'[x].batch = w'[u].batch
        PROVE  x = u
    BY <2>3, <1>4 DEF CallsDistinct
  <2> QED
    BY <2>1, <2>2, <2>3 DEF CallsDistinct
<1>12. NumbersGiven' /\ SequenceUnique' /\ ImmEmpty'
  <2>1. \A b \in Batch : result'[b] # "none" => b <= ncalls
    BY <1>8, <1>10, DataTypes DEF NumbersGiven
  <2> QED
    BY <2>1, <1>2, <1>5 DEF NumbersGiven, SequenceUnique, ImmEmpty, Stored, Readable
<1>13. \A x \in Writer : (\E i \in DOMAIN writers : writers[i] = x) /\ x # t =>
         pc[x] = "wait" \/ (pc[x] = "woken" /\ ~w[x].done)
  BY <1>6 DEF QueueInv, QueueMembers, Queued
<1>14. StatusInv'
  <2> SUFFICES ASSUME NEW x \in Writer,
                      \/ pc'[x] \in RoomPC \cup {"wait", "log", "sync", "insert"}
                      \/ pc'[x] = "woken" /\ ~w'[x].done
               PROVE  w'[x].status = "ok" /\ w'[x].last = 1
    BY DEF StatusInv
  <2>1. pc'[x] = "wait" \/ (pc'[x] = "woken" /\ ~w'[x].done)
    BY <1>7 DEF RoomPC, LeaderPC
  <2>2. x # t
    BY <2>1, <1>4 DEF OutsidePC
  <2>3. w'[x] = w[x]
    BY <2>1, <2>2, <1>4
  <2>4. pc[x] = "wait" \/ (pc[x] = "woken" /\ ~w[x].done)
    BY <2>1, <2>2, <2>3, <1>4, <1>13
  <2> QED
    BY <2>3, <2>4 DEF StatusInv
<1>15. ASSUME NEW x \in Writer PROVE LoggerInv(x)' /\ PhaseInv(x)'
  BY <1>7 DEF LoggerInv, PhaseInv, LoggingPC, LeaderPC
<1>16. EntriesPlaced'
  <2>1. /\ Len(writers') = Len(writers) - w[t].last /\ DOMAIN writers' = 1..(Len(writers) - w[t].last)
        /\ \A i \in DOMAIN writers' : writers'[i] = writers[w[t].last + i] /\ w[t].last + i \in DOMAIN writers
    <3>1. PICK n \in Nat : n = w[t].last /\ n <= Len(writers)
      BY <1>3
    <3>2. /\ writers' \in Seq(Writer) /\ Len(writers') = Len(writers) - n
          /\ \A i \in 1..(Len(writers) - n) :
               writers'[i] = writers[n + i] /\ n + i \in 1..Len(writers)
      BY <3>1, <1>2, <1>3, SuffixProperties, ZenonT(40)
    <3>3. DOMAIN writers' = 1..Len(writers') /\ DOMAIN writers = 1..Len(writers)
      BY <3>2, <1>3, LenProperties
    <3> QED
      BY <3>1, <3>2, <3>3
  <2>2. ASSUME NEW d \in Stored PROVE Settled(d)'
    <3>1. Settled(d)
      BY <1>1, <1>6 DEF EntriesPlaced, Pending, LeaderPC
    <3>2. ASSUME NEW i \in DOMAIN writers', w'[writers'[i]].batch = d.batch
          PROVE  FALSE
      <4>1. PICK j \in DOMAIN writers : j = w[t].last + i /\ writers'[i] = writers[j] /\ j > w[t].last
        BY <2>1, <1>3
      <4>2. writers[j] # t
        BY <4>1, <1>3 DEF QueueInv, QueueDistinct
      <4>3. w[writers[j]].batch = d.batch
        BY <3>2, <4>1, <4>2, <1>3, <1>4
      <4>4. j <= w[t].last
        BY <3>1, <4>3, <1>3 DEF Settled
      <4> QED
        BY <4>1, <4>4, <1>3
    <3> QED
      BY <3>1, <3>2, <1>2 DEF Settled
  <2> QED
    BY <2>2, <1>5 DEF EntriesPlaced
<1>17. \A i \in 1..w[t].last : w[writers[i]].batch # Nil => Outcome(w[writers[i]].batch, w[t].status)
  BY <1>1 DEF PhaseInv
<1>18. MembersInv'
  <2> SUFFICES ASSUME NEW x \in Writer, pc'[x] = "woken", w'[x].done, w'[x].batch # Nil
               PROVE  Outcome(w[x].batch, w[x].status)'
    BY DEF MembersInv
  <2>1. PICK b, status : b = w'[x].batch /\ status = w'[x].status
    OBVIOUS
  <2>2. x # t /\ w[x].batch = b
    BY <2>1, <1>4
  <2>3. Outcome(b, status)
    <3>1. CASE \E i \in 1..w[t].last : writers[i] = x
      BY <2>1, <2>2, <3>1, <1>4, <1>17
    <3>2. CASE ~\E i \in 1..w[t].last : writers[i] = x
      <4>1. w'[x] = w[x]
        BY <2>2, <3>2, <1>4
      <4>2. pc[x] = "woken"
        BY <2>2, <4>1, <1>3, <1>4
      <4> QED
        BY <2>1, <2>2, <4>1, <4>2 DEF MembersInv
    <3> QED
      BY <3>1, <3>2
  <2>4. Outcome(b, status)'
    BY <2>3, <1>5
  <2> QED
    BY <2>1, <2>4 DEF Outcome, Kept, Durable, Invisible
<1>19. ResultInv'
  <2> SUFFICES ASSUME NEW b \in Batch PROVE Outcome(b, result[b])'
    BY DEF ResultInv
  <2>1. PICK status : status = result'[b]
    OBVIOUS
  <2>2. Outcome(b, status)
    <3>1. CASE b = w[t].batch
      <4>1. b # Nil /\ 1 \in 1..w[t].last
        BY <1>3, DataTypes
      <4> QED
        BY <2>1, <3>1, <4>1, <1>3, <1>10, <1>17
    <3>2. CASE b # w[t].batch
      BY <2>1, <3>2, <1>10 DEF ResultInv
    <3> QED
      BY <3>1, <3>2
  <2>3. Outcome(b, status)'
    BY <2>2, <1>5
  <2> QED
    BY <2>1, <2>3 DEF Outcome, Kept, Durable, Invisible
<1> QED
  BY <1>11, <1>12, <1>14, <1>15, <1>16, <1>18, <1>19

(* A member of a finished group returns what the head left it; a call that *)
(* was only moved to the front becomes head with nothing written.          *)
LEMMA WakeData ==
  ASSUME TypeOK, QueueInv, DataInv, NEW t \in Writer, Wake(t)
  PROVE  DataInv'
<1> USE DEF DataInv
<1>1. pc[t] = "woken"
  BY DEF Wake
<1>2. UNCHANGED <<log, mem, imm, flushed, lastsequence, wantsync, hasimm, ncalls, logfilenumber, writers>>
  BY DEF Wake, dataVars
<1>3. /\ writers \in Seq(Writer) /\ w \in [Writer -> WriterRecord] /\ \A x \in Writer : x \in Thread
      /\ pc \in [Thread -> WriterPC \cup MainPC \cup BgPC]
      /\ \A i \in DOMAIN writers : writers[i] \in Writer /\ ~w[writers[i]].done
  BY DataTypes DEF QueueInv, QueueMembers
<1>4. \A x \in Writer : x # t => pc'[x] = pc[x] /\ w'[x] = w[x]
  BY <1>3 DEF Wake
<1>5. Readable' = Readable /\ Stored' = Stored /\ \A b, status : Outcome(b, status) => Outcome(b, status)'
  BY <1>2, OutcomeSame
<1>6. pc'[t] \in OutsidePC \cup {"room", "wait"}
  BY <1>3 DEF Wake, AfterWrite, OutsidePC
<1>7. \A i \in DOMAIN writers : w'[writers[i]] = w[writers[i]]
  <2>1. CASE w[t].done
    BY <2>1, <1>3, <1>4
  <2>2. CASE ~w[t].done
    BY <2>2 DEF Wake
  <2> QED
    BY <2>1, <2>2
<1>8. \A x \in Writer : pc[x] \in LeaderPC =>
        /\ x # t /\ writers[1] = x /\ 1 \in DOMAIN writers
        /\ \A i \in 1..w[x].last : i \in DOMAIN writers
  BY <1>1, LeaderAlone DEF LeaderPC
<1>9. \A x \in Writer : pc'[x] \in LoggingPC \cup {"finish"} => pc[x] \in LeaderPC /\ x # t
  BY <1>4, <1>6 DEF LoggingPC, LeaderPC, OutsidePC
<1>10. ASSUME NEW x \in Writer PROVE LoggerInv(x)'
  <2> SUFFICES ASSUME pc'[x] \in LoggingPC PROVE LoggerInv(x)'
    BY DEF LoggerInv
  <2> QED
    BY <1>2, <1>4, <1>7, <1>8, <1>9 DEF LoggerInv
<1>11. ASSUME NEW x \in Writer PROVE PhaseInv(x)'
  <2>1. CASE pc'[x] \notin LoggingPC \cup {"finish"}
    BY <2>1 DEF PhaseInv, LoggingPC
  <2>2. CASE pc'[x] \in LoggingPC \cup {"finish"}
    <3>1. pc'[x] = pc[x] /\ w'[x] = w[x] /\ pc[x] \in LeaderPC
      BY <2>2, <1>4, <1>9
    <3>2. ASSUME pc[x] = "finish", NEW i \in 1..w[x].last, w[writers[i]].batch # Nil
          PROVE  Outcome(w[writers[i]].batch, w[x].status)'
      <4>1. PICK b, status : b = w[writers[i]].batch /\ status = w[x].status
        OBVIOUS
      <4>2. Outcome(b, status)'
        BY <3>2, <4>1, <1>5 DEF PhaseInv
      <4>3. w'[writers'[i]].batch = b /\ w'[x].status = status
        BY <3>1, <4>1, <1>2, <1>7, <1>8
      <4> QED
        BY <4>2, <4>3 DEF Outcome, Kept, Durable, Invisible
    <3>3. \A i \in 1..w[x].last : w'[writers[i]] = w[writers[i]]
      BY <3>1, <1>7, <1>8
    <3> QED
      BY <3>1, <3>2, <3>3, <1>2 DEF PhaseInv, Durable
  <2> QED
    BY <2>1, <2>2
<1>12. EntriesPlaced'
  <2>1. ASSUME NEW d \in Stored, Settled(d) PROVE Settled(d)'
    <3>1. ASSUME NEW i \in DOMAIN writers, w[writers[i]].batch = d.batch
          PROVE  pc'[writers[1]] = "finish" /\ i <= w'[writers[1]].last
      <4>1. pc[writers[1]] = "finish" /\ i <= w[writers[1]].last /\ 1 \in DOMAIN writers
        BY <2>1, <3>1, <1>3 DEF Settled
      <4> QED
        BY <4>1, <1>1, <1>3, <1>4
    <3> QED
      BY <2>1, <3>1, <1>2, <1>7 DEF Settled
  <2>2. ASSUME NEW d \in Stored, Pending(d) PROVE Pending(d)'
    <3>1. PICK x \in Writer :
            /\ pc[x] \in {"sync", "insert", "relock"}
            /\ \E e \in w[x].updates : e.seq = d.seq /\ e.batch = d.batch
            /\ d \in Readable => pc[x] = "relock" /\ w[x].status = "ok"
      BY <2>2 DEF Pending
    <3>2. pc'[x] = pc[x] /\ w'[x] = w[x] /\ Readable' = Readable
      BY <3>1, <1>1, <1>4, <1>5
    <3>3. /\ pc'[x] \in {"sync", "insert", "relock"}
          /\ \E e \in w'[x].updates : e.seq = d.seq /\ e.batch = d.batch
          /\ d \in Readable' => pc'[x] = "relock" /\ w'[x].status = "ok"
      BY <3>1, <3>2
    <3> QED
      BY <3>3 DEF Pending
  <2> QED
    BY <2>1, <2>2, <1>5 DEF EntriesPlaced
<1>13. SequenceUnique' /\ ImmEmpty'
  BY <1>2, <1>5 DEF SequenceUnique, ImmEmpty, Stored, Readable
<1>14. ASSUME NEW x \in Writer, x # t, pc'[x] = "woken", w'[x].done, w'[x].batch # Nil
       PROVE  Outcome(w[x].batch, w[x].status)'
  <2>1. PICK b, status : b = w[x].batch /\ status = w[x].status
    OBVIOUS
  <2>2. Outcome(b, status)
    BY <1>14, <1>4, <2>1 DEF MembersInv
  <2>3. Outcome(b, status)' /\ w'[x].batch = b /\ w'[x].status = status
    BY <1>14, <1>4, <1>5, <2>1, <2>2
  <2> QED
    BY <2>3 DEF Outcome, Kept, Durable, Invisible
<1>15. MembersInv'
  BY <1>6, <1>14 DEF MembersInv, OutsidePC
<1>16. CASE w[t].done
  <2>1. /\ pc'[t] \in {"idle", "immcheck"} /\ w'[t].batch = Nil
        /\ result' = (IF w[t].batch = Nil THEN result ELSE [result EXCEPT ![w[t].batch] = w[t].status])
    BY <1>3, <1>16 DEF Wake, AfterWrite, LocalsAfterWrite, Returned, IdleWriter
  <2>2. w[t].batch # Nil => w[t].batch \in Batch /\ w[t].batch <= ncalls
    BY <1>3 DEF WriterRecord, CallsDistinct
  <2>3. result \in [Batch -> {"none", "ok", "error"}]
    BY DEF TypeOK, HistoryOK
  <2>4. /\ \A b \in Batch : b # w[t].batch => result'[b] = result[b]
        /\ w[t].batch # Nil => result'[w[t].batch] = w[t].status
    BY <2>1, <2>2, <2>3
  <2>5. CallsDistinct'
    <3>1. ASSUME NEW x \in Writer, pc'[x] \in OutsidePC PROVE w'[x].batch = Nil
      BY <3>1, <2>1, <1>4 DEF CallsDistinct
    <3>2. ASSUME NEW x \in Writer, w'[x].batch # Nil
          PROVE  /\ w'[x].batch <= ncalls' /\ result'[w'[x].batch] = "none"
                 /\ (w'[x].sync <=> w'[x].batch \in wantsync')
      <4>1. x # t /\ w'[x] = w[x] /\ w[x].batch # w[t].batch
        BY <3>2, <2>1, <1>4 DEF CallsDistinct
      <4>2. w[x].batch \in Batch
        BY <3>2, <4>1, <1>3 DEF WriterRecord
      <4> QED
        BY <3>2, <4>1, <4>2, <1>2, <2>4 DEF CallsDistinct
    <3>3. ASSUME NEW x \in Writer, NEW u \in Writer, w'[x].batch # Nil, w'[x].batch = w'[u].batch
          PROVE  x = u
      BY <3>3, <2>1, <1>4 DEF CallsDistinct
    <3> QED
      BY <3>1, <3>2, <3>3 DEF CallsDistinct
  <2>6. NumbersGiven'
    <3>1. \A b \in Batch : result'[b] # "none" => b <= ncalls
      BY <2>2, <2>4, DataTypes DEF NumbersGiven
    <3> QED
      BY <3>1, <1>2, <1>5 DEF NumbersGiven
  <2>7. StatusInv'
    BY <2>1, <1>4 DEF StatusInv, RoomPC
  <2>8. ResultInv'
    <3> SUFFICES ASSUME NEW b \in Batch PROVE Outcome(b, result[b])'
      BY DEF ResultInv
    <3>1. PICK status : status = result'[b]
      OBVIOUS
    <3>2. Outcome(b, status)
      <4>1. CASE b = w[t].batch
        <5>1. b # Nil
          BY DataTypes
        <5> QED
          BY <3>1, <4>1, <5>1, <2>4, <1>1, <1>16 DEF MembersInv
      <4>2. CASE b # w[t].batch
        BY <3>1, <4>2, <2>4 DEF ResultInv
      <4> QED
        BY <4>1, <4>2
    <3>3. Outcome(b, status)'
      BY <3>2, <1>5
    <3> QED
      BY <3>1, <3>3 DEF Outcome, Kept, Durable, Invisible
  <2> QED
    BY <2>5, <2>6, <2>7, <2>8, <1>10, <1>11, <1>12, <1>13, <1>15
<1>17. CASE ~w[t].done
  <2>1. /\ w' = w /\ result' = result /\ pc'[t] \in {"room", "wait"}
    BY <1>3, <1>17 DEF Wake
  <2>2. CallsDistinct'
    BY <2>1, <1>2, <1>4 DEF CallsDistinct, OutsidePC
  <2>3. NumbersGiven'
    BY <2>1, <1>2, <1>5 DEF NumbersGiven
  <2>4. StatusInv'
    BY <2>1, <1>1, <1>4, <1>17 DEF StatusInv, RoomPC
  <2>5. ResultInv'
    <3> SUFFICES ASSUME NEW b \in Batch PROVE Outcome(b, result[b])'
      BY DEF ResultInv
    <3>1. PICK status : status = result[b]
      OBVIOUS
    <3>2. Outcome(b, status)'
      BY <3>1, <1>5 DEF ResultInv
    <3> QED
      BY <3>1, <3>2, <2>1 DEF Outcome, Kept, Durable, Invisible
  <2> QED
    BY <2>2, <2>3, <2>4, <2>5, <1>10, <1>11, <1>12, <1>13, <1>15
<1> QED
  BY <1>16, <1>17

(* A new call brings a batch number nobody has used.                       *)
LEMMA EnqueueData ==
  ASSUME TypeOK, QueueInv, DataInv, NEW t \in Writer, NEW b \in Batch \cup {Nil},
         NEW sync \in BOOLEAN, b = Nil => ~sync, Enqueue(t, b, sync)
  PROVE  DataInv'
<1> USE DEF DataInv
<1>1. /\ pc[t] = "idle" /\ w[t].batch = Nil /\ ncalls' = ncalls + 1 /\ b \in {ncalls + 1, Nil}
      /\ writers' = Append(writers, t)
  BY DEF Enqueue, CallsDistinct, OutsidePC
<1>2. UNCHANGED <<log, mem, imm, flushed, lastsequence, hasimm, logfilenumber, result>>
  BY DEF Enqueue, dataVars
<1>3. /\ writers \in Seq(Writer) /\ w \in [Writer -> WriterRecord] /\ \A x \in Writer : x \in Thread
      /\ pc \in [Thread -> WriterPC \cup MainPC \cup BgPC] /\ ncalls \in Nat
      /\ \A i \in DOMAIN writers : writers[i] \in Writer
      /\ Nil \notin Batch /\ Batch \subseteq Nat /\ wantsync \subseteq Batch
  BY DataTypes DEF TypeOK, HistoryOK
<1>4. wantsync' = IF sync /\ b # Nil THEN wantsync \cup {b} ELSE wantsync
  BY DEF Enqueue
<1>5. /\ \A x \in Writer : x # t => pc'[x] = pc[x] /\ w'[x] = w[x]
      /\ pc'[t] \in {"room", "wait"} /\ w'[t].batch = b /\ w'[t].sync = sync
      /\ w'[t].status = "ok" /\ w'[t].last = 1 /\ ~w'[t].done
  BY <1>3 DEF Enqueue, IdleWriter
<1>6. \A c : c \in Batch /\ c <= ncalls => c # b
  BY <1>1, <1>3
<1>7. \A i \in DOMAIN writers : writers[i] # t
  BY <1>1 DEF QueueInv, QueueMembers, Queued, LeaderPC
<1>8. /\ DOMAIN writers' = 1..(Len(writers) + 1) /\ writers'[Len(writers) + 1] = t
      /\ \A i \in DOMAIN writers : writers'[i] = writers[i] /\ i \in DOMAIN writers'
      /\ \A i \in DOMAIN writers' : i \in DOMAIN writers \/ i = Len(writers) + 1
  BY <1>1, <1>3
<1>9. Readable' = Readable /\ Stored' = Stored
  BY <1>2 DEF Readable, Stored
<1>10. PICK S : S = {b}
  OBVIOUS
<1>11. \A c, status : c \notin S /\ Outcome(c, status) => Outcome(c, status)'
  <2>1. /\ lastsequence \in Nat /\ lastsequence' \in Nat /\ lastsequence <= lastsequence'
        /\ \A e \in Readable : e.seq \in Nat
    BY <1>2, DataTypes DEF Stored
  <2>2. \A d \in log : \E e \in log' : e.batch = d.batch /\ (d.synced => e.synced)
    BY <1>2
  <2>3. /\ "build" \notin Faults => Readable \subseteq Readable'
        /\ \A e \in Readable' : e \in Readable \/ e.batch \in S
        /\ \A c \in wantsync' : c \in wantsync \/ c \in S
    BY <1>4, <1>9, <1>10
  <2> QED
    BY <2>1, <2>2, <2>3, OutcomeKept
<1>12. CallsDistinct'
  <2>1. ASSUME NEW x \in Writer, pc'[x] \in OutsidePC PROVE w'[x].batch = Nil
    BY <2>1, <1>5 DEF CallsDistinct, OutsidePC
  <2>2. ASSUME NEW x \in Writer, w'[x].batch # Nil
        PROVE  /\ w'[x].batch <= ncalls' /\ result'[w'[x].batch] = "none"
               /\ (w'[x].sync <=> w'[x].batch \in wantsync')
    <3>1. CASE x = t
      <4>1. b = ncalls + 1 /\ b \in Batch /\ ~(b <= ncalls)
        BY <2>2, <3>1, <1>1, <1>3, <1>5
      <4>2. result[b] = "none" /\ b \notin wantsync
        BY <4>1 DEF NumbersGiven
      <4>3. w'[x].batch = b /\ w'[x].sync = sync /\ result' = result
        BY <3>1, <1>2, <1>5
      <4>4. b \in wantsync' <=> sync
        <5>1. b # Nil
          BY <4>1, <1>3
        <5>2. CASE sync
          BY <5>1, <5>2, <1>4
        <5>3. CASE ~sync
          BY <5>3, <4>2, <1>4
        <5> QED
          BY <5>2, <5>3
      <4>5. b <= ncalls'
        BY <4>1, <1>1, <1>3
      <4> QED
        BY <4>2, <4>3, <4>4, <4>5
    <3>2. CASE x # t
      <4>1. w'[x] = w[x] /\ w[x].batch <= ncalls /\ w[x].batch \in Batch
        BY <2>2, <3>2, <1>3, <1>5 DEF CallsDistinct, WriterRecord
      <4>2. w[x].batch # b
        BY <4>1, <1>6
      <4>3. w[x].batch <= ncalls'
        <5>1. w[x].batch \in Nat
          BY <4>1, <1>3
        <5>2. ncalls' = ncalls + 1 /\ ncalls \in Nat
          BY <1>1, <1>3
        <5> HIDE DEF DataInv
        <5> QED
          BY <4>1, <5>1, <5>2
      <4> QED
        BY <2>2, <4>1, <4>2, <4>3, <1>2, <1>4 DEF CallsDistinct
    <3> QED
      BY <3>1, <3>2
  <2>3. ASSUME NEW x \in Writer, NEW u \in Writer, w'[x].batch # Nil, w'[x].batch = w'[u].batch
        PROVE  x = u
    <3>1. \A y \in Writer : y # t /\ w[y].batch # Nil => w[y].batch # b
      BY <1>3, <1>6 DEF CallsDistinct, WriterRecord
    <3> QED
      BY <2>3, <3>1, <1>5 DEF CallsDistinct
  <2> QED
    BY <2>1, <2>2, <2>3 DEF CallsDistinct
<1>13. NumbersGiven'
  <2>1. \A c \in Batch : result'[c] # "none" => c <= ncalls'
    BY <1>1, <1>2, <1>3 DEF NumbersGiven
  <2>2. ASSUME NEW c \in wantsync' PROVE c <= ncalls'
    <3>1. c \in wantsync \/ (c = b /\ b # Nil)
      BY <2>2, <1>4
    <3>2. CASE c \in wantsync
      BY <3>2, <1>1, <1>3 DEF NumbersGiven
    <3>3. CASE c = b /\ b # Nil
      BY <3>3, <1>1, <1>3
    <3> QED
      BY <3>1, <3>2, <3>3
  <2>3. ASSUME NEW e \in Stored' PROVE e.batch <= ncalls'
    <3>1. e \in Stored /\ e.batch \in Nat
      BY <2>3, <1>9, <1>3, DataTypes
    <3>2. e.batch <= ncalls
      BY <3>1 DEF NumbersGiven
    <3> QED
      BY <3>1, <3>2, <1>1, <1>3
  <2> QED
    BY <2>1, <2>2, <2>3 DEF NumbersGiven
<1>14. SequenceUnique' /\ ImmEmpty'
  BY <1>2, <1>9 DEF SequenceUnique, ImmEmpty, Stored, Readable
<1>15. StatusInv'
  BY <1>5 DEF StatusInv, RoomPC
<1>16. MembersInv' /\ ResultInv'
  <2>1. \A x \in Writer : pc'[x] = "woken" /\ w'[x].done /\ w'[x].batch # Nil =>
           /\ pc[x] = "woken" /\ w[x].done /\ w'[x].batch = w[x].batch
           /\ w'[x].status = w[x].status /\ w[x].batch \notin S
    <3> SUFFICES ASSUME NEW x \in Writer, pc'[x] = "woken", w'[x].batch # Nil
                 PROVE  pc[x] = "woken" /\ w'[x] = w[x] /\ w[x].batch \notin S
      OBVIOUS
    <3>1. x # t /\ pc[x] = "woken" /\ w'[x] = w[x]
      BY <1>5
    <3>2. w[x].batch \in Batch /\ w[x].batch <= ncalls
      BY <3>1, <1>3 DEF CallsDistinct, WriterRecord
    <3> QED
      BY <3>1, <3>2, <1>6, <1>10
  <2>2. \A c \in Batch : result[c] # "none" => c \notin S
    BY <1>6, <1>10 DEF NumbersGiven
  <2>3. UNCHANGED result
    BY <1>2
  <2> QED
    BY <1>11, <2>1, <2>2, <2>3, OutcomesFrame
<1>17. \A x \in Writer : pc'[x] \in LoggingPC \cup {"finish"} =>
         /\ pc'[x] = pc[x] /\ w'[x] = w[x] /\ pc[x] \in LeaderPC
         /\ \A i \in 1..w[x].last : i \in DOMAIN writers
  BY <1>5, LeaderAlone DEF LoggingPC, LeaderPC
<1>18. \A i \in DOMAIN writers : writers'[i] = writers[i] /\ w'[writers[i]] = w[writers[i]]
  BY <1>3, <1>5, <1>7, <1>8
<1>19. ASSUME NEW x \in Writer PROVE LoggerInv(x)'
  <2> SUFFICES ASSUME pc'[x] \in LoggingPC PROVE LoggerInv(x)'
    BY DEF LoggerInv
  <2> QED
    BY <1>2, <1>17, <1>18 DEF LoggerInv
<1>20. ASSUME NEW x \in Writer PROVE PhaseInv(x)'
  <2>1. CASE pc'[x] \notin LoggingPC \cup {"finish"}
    BY <2>1 DEF PhaseInv, LoggingPC
  <2>2. CASE pc'[x] \in LoggingPC \cup {"finish"}
    <3>1. ASSUME pc[x] = "finish", NEW i \in 1..w[x].last, w[writers[i]].batch # Nil
          PROVE  Outcome(w[writers[i]].batch, w[x].status)'
      <4>1. PICK c, status : c = w[writers[i]].batch /\ status = w[x].status
        OBVIOUS
      <4>2. i \in DOMAIN writers /\ writers[i] \in Writer
        BY <2>2, <1>3, <1>17
      <4>3. c \in Batch /\ c <= ncalls
        BY <3>1, <4>1, <4>2, <1>3 DEF CallsDistinct, WriterRecord
      <4>4. c \notin S
        BY <4>3, <1>6, <1>10
      <4>5. Outcome(c, status)'
        BY <3>1, <4>1, <4>4, <1>11 DEF PhaseInv
      <4>6. w'[writers'[i]].batch = c /\ w'[x].status = status
        BY <2>2, <4>1, <4>2, <1>17, <1>18
      <4> QED
        BY <4>5, <4>6 DEF Outcome, Kept, Durable, Invisible
    <3>2. \A i \in 1..w[x].last : writers'[i] = writers[i] /\ w'[writers[i]] = w[writers[i]]
      BY <2>2, <1>17, <1>18
    <3> QED
      BY <2>2, <3>1, <3>2, <1>2, <1>17 DEF PhaseInv, Durable
  <2> QED
    BY <2>1, <2>2
<1>21. EntriesPlaced'
  <2>1. ASSUME NEW d \in Stored, Settled(d) PROVE Settled(d)'
    <3>1. d.batch # b
      BY <1>6, DataTypes DEF NumbersGiven
    <3>2. ASSUME NEW i \in DOMAIN writers', w'[writers'[i]].batch = d.batch
          PROVE  pc'[writers'[1]] = "finish" /\ i <= w'[writers'[1]].last
      <4>1. i \in DOMAIN writers
        BY <3>1, <3>2, <1>5, <1>8
      <4>2. 1 \in DOMAIN writers
        BY <4>1, <1>3
      <4>3. pc[writers[1]] = "finish" /\ i <= w[writers[1]].last
        BY <2>1, <3>2, <4>1, <1>18 DEF Settled
      <4> QED
        BY <4>2, <4>3, <1>3, <1>5, <1>7, <1>18
    <3> QED
      BY <2>1, <3>2, <1>2 DEF Settled
  <2>2. ASSUME NEW d \in Stored, Pending(d) PROVE Pending(d)'
    <3>1. PICK x \in Writer :
            /\ pc[x] \in {"sync", "insert", "relock"}
            /\ \E e \in w[x].updates : e.seq = d.seq /\ e.batch = d.batch
            /\ d \in Readable => pc[x] = "relock" /\ w[x].status = "ok"
      BY <2>2 DEF Pending
    <3>2. pc'[x] = pc[x] /\ w'[x] = w[x] /\ Readable' = Readable
      BY <3>1, <1>1, <1>5, <1>9
    <3>3. /\ pc'[x] \in {"sync", "insert", "relock"}
          /\ \E e \in w'[x].updates : e.seq = d.seq /\ e.batch = d.batch
          /\ d \in Readable' => pc'[x] = "relock" /\ w'[x].status = "ok"
      BY <3>1, <3>2
    <3> QED
      BY <3>3 DEF Pending
  <2> QED
    BY <2>1, <2>2, <1>9 DEF EntriesPlaced
<1> QED
  BY <1>12, <1>13, <1>14, <1>15, <1>16, <1>19, <1>20, <1>21

(* What is logged, inserted and reported stays consistent, for any number  *)
(* of writers, calls, group sizes and failures.                            *)
THEOREM DataCorrect == Spec => []DataInv
<1>1. TypeOK /\ QueueInv /\ DataInv /\ [Next]_vars => DataInv'
  <2> SUFFICES ASSUME TypeOK, QueueInv, DataInv, [Next]_vars PROVE DataInv'
    OBVIOUS
  <2>1. ASSUME NEW t \in Writer, Calls(t) PROVE DataInv'
    BY <2>1, EnqueueData DEF Calls
  <2>2. ASSUME NEW t \in Writer, WriterStep(t) PROVE DataInv'
    <3>1. CASE BuildBatchGroup(t)
      BY <3>1, BuildData, DataQuietWriter, DataQuietStep
    <3>2. CASE RoomSwitch(t)
      <4>1. imm' = mem \/ imm' = imm
        BY <3>2 DEF RoomSwitch
      <4> QED
        BY <3>2, <4>1, RoomFailData, DataQuietWriter, DataQuietStep
    <3>3. CASE RoomDelay(t) \/ RoomFound(t) \/ RoomWait(t) \/ RoomAgain(t) \/ ImmCheck(t)
      BY <3>3, DataQuietWriter, DataQuietStep
    <3>4. CASE RoomError(t)
      BY <3>4, RoomFailData
    <3>5. CASE Wake(t) \/ AddRecord(t) \/ SyncLog(t) \/ InsertInto(t) \/ Relock(t) \/ Finish(t)
      BY <3>5, WakeData, AddRecordData, SyncLogData, InsertIntoData, RelockData, FinishData
    <3> QED
      BY <2>2, <3>1, <3>2, <3>3, <3>4, <3>5 DEF WriterStep
  <2>3. ASSUME NEW t \in Writer \cup {BG}, Schedule(t) PROVE DataInv'
    BY <2>3, DataQuietBg, DataQuietWriter, DataQuietStep
  <2>4. CASE CloseStep \/ BgStep
    BY <2>4, DataQuietBg, DataQuietStep
  <2>5. CASE UNCHANGED vars
    <3>1. DataQuiet
      <4>1. Readable' = Readable
        BY <2>5 DEF vars, Readable
      <4> QED
        BY <2>5, <4>1 DEF vars, DataQuiet, DataInv, ImmEmpty
    <3> QED
      BY <3>1, DataQuietStep
  <2> QED
    BY <2>1, <2>2, <2>3, <2>4, <2>5 DEF Next
<1> QED
  BY InitData, <1>1, TypeCorrect, QueueCorrect, PTL DEF Spec

(* No sequence number and no batch is used twice: group commit, failed     *)
(* appends and failed syncs included.                                      *)
THEOREM SequenceUniqueCorrect == Spec => []SequenceUnique
<1>1. DataInv => SequenceUnique
  BY DEF DataInv
<1> QED
  BY <1>1, DataCorrect, PTL

(* An acknowledged sync write is in the synced part of the log.            *)
THEOREM SyncedDurableCorrect == Spec => []SyncedDurable
<1>1. TypeOK /\ DataInv => SyncedDurable
  BY DEF TypeOK, HistoryOK, DataInv, ResultInv, Outcome, Durable, SyncedDurable
<1> QED
  BY <1>1, DataCorrect, TypeCorrect, PTL

(* A write that reported an error is never visible to readers.             *)
THEOREM FailedUnreadableCorrect == Spec => []FailedUnreadable
<1>1. DataInv => FailedUnreadable
  BY DEF DataInv, ResultInv, Outcome, Invisible, FailedUnreadable, Batches
<1> QED
  BY <1>1, DataCorrect, PTL

(* An acknowledged write stays visible to readers as long as building a    *)
(* table does not fail: with a failed build the code drops the memtable.   *)
THEOREM AckedReadableCorrect ==
  ASSUME "build" \notin Faults
  PROVE  Spec => []AckedReadable
<1>1. DataInv => AckedReadable
  BY DEF DataInv, ResultInv, Outcome, Kept, AckedReadable
<1> QED
  BY <1>1, DataCorrect, PTL
=============================================================================
