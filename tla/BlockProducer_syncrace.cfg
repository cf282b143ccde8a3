\* A go Start() racing the sync guard.
CONSTANTS
  Agents = {cpu}
  CpuAgent = cpu
  Nil = Nil
  NoHeader = NoHeader
  Depth = 5
  ResultQueueSize = 10
  ChainHeadChanSize = 10
  MaxBlocks = 5
  MaxPeerBlocks = 1
  MaxUserOps = 2
  MaxSyncRounds = 1
  CycleCanFail = TRUE
  SealCanFail = TRUE
SPECIFICATION Spec
INVARIANT NoProducingWhileSyncing
CHECK_DEADLOCK FALSE
