\* Scheduler and executor: heap order, nonce order, atomicity of ordinary
\* transactions, the write cache.
CONSTANTS
  Senders = {a, b}
  Reward = r
  RewardPrio = 10
  Prios = {1, 2}
  ActLists <- MC_ActLists
  Kinds = {"call"}
  MaxPending = 2
  StartNonces = {0, 1}
  MaxCycles = 2
SPECIFICATION Spec
INVARIANT TypeOK
INVARIANT BlockNonceOrder
INVARIANT Atomicity
INVARIANT CacheMatchesState
INVARIANT RewardEveryBlock
PROPERTY SchedulerSpec
CHECK_DEADLOCK FALSE
