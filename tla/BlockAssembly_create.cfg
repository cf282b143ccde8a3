\* A failed fee action of a contract creation leaves the nonce incremented.
CONSTANTS
  Senders = {a, b}
  Reward = r
  RewardPrio = 10
  Prios = {1}
  ActLists <- MC_ActListsOk
  Kinds = {"call", "create"}
  MaxPending = 2
  StartNonces = {0}
  MaxCycles = 1
SPECIFICATION Spec
INVARIANT Atomicity
CHECK_DEADLOCK FALSE
