\* The failed transaction keeps its nonce and is included again by the next block.
CONSTANTS
  Senders = {a, b}
  Reward = r
  RewardPrio = 10
  Prios = {1}
  ActLists <- MC_ActLists
  Kinds = {"call"}
  MaxPending = 2
  StartNonces = {0}
  MaxCycles = 2
SPECIFICATION Spec
INVARIANT NoReplay
CHECK_DEADLOCK FALSE
