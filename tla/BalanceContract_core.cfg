\* Well-behaved wallets, three accounts, two blocks, three transactions.
CONSTANTS
  Accounts = {a, b, c}
  Nil = Nil
  Junk = Junk
  InitBalances = {Nil, 1}
  Txs <- MC_ClientTxs
  MaxBlocks = 2
  MaxTxs = 3
SPECIFICATION Spec
INVARIANT TypeOK
PROPERTY LedgerSpec
CHECK_DEADLOCK FALSE
