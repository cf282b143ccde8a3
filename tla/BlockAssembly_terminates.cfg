\* Every transaction loop of a commit cycle ends.
CONSTANTS
  Senders = {a, b}
  Reward = r
  RewardPrio = 10
  Prios = {1}
  ActLists <- MC_ActLists
  Kinds = {"call", "create"}
  MaxPending = 2
  StartNonces = {0, 1}
  MaxCycles = 1
SPECIFICATION Spec
PROPERTY CycleTerminates
CHECK_DEADLOCK FALSE
