SPECIFICATION FairSpec
CONSTANTS
  t1 = t1
  t2 = t2
  t3 = t3
  Writer <- TwoWriters
  MaxCalls = 3
  WriteBufferSize = 0
  MaxGroup = 2
  CompactionTrigger = 9
  SlowdownTrigger = 1
  StopTrigger = 9
  Level0AtOpen = {0}
  TmpBatch = TRUE
  Faults = {"newlog", "append", "sync", "build", "manifest", "compact"}
  MaxFaults = 1
  Main = Main
  BG = BG
  None = None
  Nil = Nil
CHECK_DEADLOCK FALSE
PROPERTIES
  WritersReturn CloseReturns
