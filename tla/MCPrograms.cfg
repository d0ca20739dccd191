SPECIFICATION Spec
CONSTANTS
  Sessions = {1, 2}
  ItemKeys = {"k", "l"}
  Commands <- MCCommands
  MaxValue = 1
  MaxRequests <- MCMaxRequests
  Lockers = {"a", "b"}
  NumServers = 3
  ttl <- MCTtl
  Rounds <- MCRounds
  HttpRequests <- MCHttpRequests
  MaxHttpRequests = 2
  Handshakes <- MCHandshakes
  Frames <- MCFrames
  MaxFrames = 4
  FrameSizes = {0, 125, 126, 252, 256, 508, 65535, 65536, 1000000}
  RpcCalls = {1, 2, 3}
  CallIds = {1, 2, 3}
  RpcFate <- MCRpcFate
  MaxDamage = 1
  MaxBytes = 4
  HighWater = 2
  kMaxSize = 1
  Texts <- MCTexts
  nbuckets = 2
  Hash <- MCHash
  Senders = {"a", "b"}
  WorkOf <- MCWork
  kMaxHashSize = 1
  OtherShard <- MCOther
  ChunkLines = 2
  topK = 5
  MaxDeaths = 1
  IdlePeers = {1, 2}
  idleSeconds = 2
  PerSecond = 1
  kForceDelay = 4
  MaxSetBack = 1
  MaxTime = 7
INVARIANTS
  
  FirstRoundExclusive
  
  CallsCompleted
  TunnelRelays
  WordsDelivered
  IdleEnded
CHECK_DEADLOCK FALSE
