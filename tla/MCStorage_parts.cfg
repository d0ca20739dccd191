SPECIFICATION Spec
CONSTANTS
  kBlockSize = 7
  RecordLengths = {0, 6}
  MaxRecords = 3
  MaxFaults = 2
  MaxByte = 4
  blocksize = 2
  blockrestartinterval = 2
  Batches <- MCBatches
  MaxBatches = 2
  MaxMoves = 3
  TableEntries = 2
  MaxKey = 4
  kMaxHeight = 2
  Threads = {1, 2}
  Files = {1, 2, 3}
  capacity = 2
  MaxHandles = 4
  Radix = 4
  Groups32 = 3
  Groups64 = 4
  Width32 = 64
  kNumLevels = 2
  FieldNumbers = {0, 3, 4, 200}
  Slices <- MCSlices
  MaxFields = 2
  kWritableFileBufferSize = 2
  AppendSizes = {1, 2, 3, 4}
  MaxWritten = 5
  MaxOpens = 3
  Readers = {1, 2, 3, 4}
  MmapLimit = 2
  FdLimit = 1
  Openers = {"a", "b", "c", "d"}
  ProcessOf <- MCProcessOf
  EnvOf <- MCEnvOf
INVARIANTS
  RecordsReadBack
  IteratorShowsView
  SearchMissesNothing
  CacheExact
  EnvKeeps
CHECK_DEADLOCK FALSE
