\* Any parameters a signed transaction can carry: another account as "from", negative amounts, a reward call.
CONSTANTS
  Accounts = {a, b, c}
  Nil = Nil
  Junk = Junk
  InitBalances = {Nil, 1}
  Txs <- MC_AnyTxs
  MaxBlocks = 1
  MaxTxs = 2
SPECIFICATION Spec
PROPERTY LedgerSpec
CHECK_DEADLOCK FALSE
