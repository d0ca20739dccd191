SPECIFICATION Spec
CHECK_DEADLOCK FALSE
CONSTANTS
  MaxWrites = 2
  MaxCrashes = 2
  MaxFile = 8
  MaxFaults = 1
  Faults = {"append", "rename", "compact"}
  PowerFailures = TRUE
  EntriesVolatile = FALSE
  DirSynced = FALSE
INVARIANTS
  ProcessSafe PowerSafe TablesExist SequencesOrdered NeverBricked
PROPERTIES
  CommittedTablesKept ImplementsStore
