\* One CpuAgent, commit cycles that may fail, nil seals, two sync rounds.
CONSTANTS
  Agents = {cpu}
  CpuAgent = cpu
  Nil = Nil
  NoHeader = NoHeader
  Depth = 5
  ResultQueueSize = 10
  ChainHeadChanSize = 10
  MaxBlocks = 5
  MaxPeerBlocks = 1
  MaxUserOps = 2
  MaxSyncRounds = 2
  CycleCanFail = TRUE
  SealCanFail = TRUE
SPECIFICATION Spec
INVARIANT TrackedExactlyOnce
INVARIANT OneShotGuard
CHECK_DEADLOCK FALSE
