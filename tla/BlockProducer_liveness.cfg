\* Liveness of the production cycle and of the sync guard: one CpuAgent; commit cycles and seals succeed (basic_engine.go Seal never fails).
CONSTANTS
  Agents = {cpu}
  CpuAgent = cpu
  Nil = Nil
  NoHeader = NoHeader
  Depth = 5
  ResultQueueSize = 10
  ChainHeadChanSize = 10
  MaxBlocks = 5
  MaxPeerBlocks = 1
  MaxUserOps = 2
  MaxSyncRounds = 1
  CycleCanFail = FALSE
  SealCanFail = FALSE
SPECIFICATION Spec
PROPERTY ProductionProgress
PROPERTY ResumeAfterSync
CHECK_DEADLOCK FALSE
