SPECIFICATION Spec
CONSTANTS
  t1 = t1
  t2 = t2
  t3 = t3
  Writer <- ThreeWriters
  MaxCalls = 4
  WriteBufferSize = 0
  MaxGroup = 2
  CompactionTrigger = 2
  SlowdownTrigger = 2
  StopTrigger = 3
  Level0AtOpen = {0}
  TmpBatch = FALSE
  Faults = {"newlog", "append", "sync", "manifest", "compact"}
  MaxFaults = 0
  Main = Main
  BG = BG
  None = None
  Nil = Nil
SYMMETRY Interchangeable
CHECK_DEADLOCK FALSE
INVARIANT NoNullTmpBatch
