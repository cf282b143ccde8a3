\* A wallet creates a contract: the fee action runs with a nil sysparam.
CONSTANTS
  Accounts = {a, b, c}
  Nil = Nil
  Junk = Junk
  InitBalances = {Nil, 1}
  Txs <- MC_CreateTxs
  MaxBlocks = 1
  MaxTxs = 1
SPECIFICATION Spec
INVARIANT NoCrash
CHECK_DEADLOCK FALSE
