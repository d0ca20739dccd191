SPECIFICATION Spec
CONSTANTS
  t1 = t1
  t2 = t2
  t3 = t3
  Writer <- ThreeWriters
  MaxCalls = 4
  WriteBufferSize = 0
  MaxGroup = 2
  CompactionTrigger = 2
  SlowdownTrigger = 2
  StopTrigger = 3
  Level0AtOpen = {0, 2}
  TmpBatch = TRUE
  Faults = {"newlog", "append", "sync", "manifest", "compact"}
  MaxFaults = 1
  Main = Main
  BG = BG
  None = None
  Nil = Nil
SYMMETRY Interchangeable
CHECK_DEADLOCK FALSE
INVARIANTS
  SingleLogger HeadIsAwake AckedReadable FlushScheduled OneCallback
  TypeOK SequenceUnique SyncedDurable FailedUnreadable
