--------------------------- MODULE BalanceContract ---------------------------
(***************************************************************************)
(* The built-in balance contract (core/interpreter/balancetransfer) as the *)
(* node runs it: a transaction's actions are dispatched one after another *)
(* by TransitionDb through Vms.DealAction and ContractBalancer.DoFun to    *)
(* TransferBalance, RewordBlockProducer, TransferFee or GetBalance; an     *)
(* action that fails reverts the whole transaction to its snapshot.        *)
(*                                                                         *)
(* The contract keeps one JSON record {"amount": n} per address in the    *)
(* store behind sdk.Sys_GetValue/Sys_SetValue; here the store is a        *)
(* function from accounts to an amount, or Nil where no record exists.     *)
(* A call's JSON parameters are a record whose fields are Nil when the    *)
(* key is absent; Junk stands for a string strconv.Atoi cannot parse.     *)
(***************************************************************************)
EXTENDS Integers, Sequences

CONSTANTS
  Accounts,      \* addresses that sign transactions and hold balances
  Nil,           \* a key absent from the parameters or the store
  Junk,          \* a parameter string that is not a decimal number
  InitBalances,  \* the amounts (or Nil) an account may start with
  Txs(_),        \* Txs(s): the action lists signer s may submit
  MaxBlocks,     \* bound on the blocks produced
  MaxTxs         \* bound on the user transactions applied

VARIABLES
  store,     \* store[a]: the amount recorded for a, or Nil
  coinbase,  \* producer of the current block, Nil before the first
  blocks,    \* blocks produced
  txs,       \* user transactions applied
  last,      \* signer of the last user transaction (history), Nil at first
  crashed    \* a VM goroutine panicked, which ends the node process

vars == <<store, coinbase, blocks, txs, last, crashed>>

\* funcIds of ContractBalancer.init (balancer.go:12-17, 34-41).
TransferBalance_FunId == 0
RewordBlockProducer_FunId == 1
TransferFee_FunId == 2
GetBalance_FunId == 3

\* The reward RewordBlockProducer credits (5e+5, handle.go:319, 325).
RewardAmount == 500000

\* Outcomes of a handler: the error flag, the store after its writes, and
\* whether the goroutine running it panicked.
Ok(s) == [error |-> FALSE, store |-> s, panic |-> FALSE]
Err(s) == [error |-> TRUE, store |-> s, panic |-> FALSE]
Panic(s) == [error |-> TRUE, store |-> s, panic |-> TRUE]

\* A parameter strconv.Atoi cannot read: absent, or not a number.
NotANumber(v) == v \in {Nil, Junk}

\* strconv.Atoi with its error ignored: an unparsable or absent amount is 0.
Atoi(v) == IF NotANumber(v) THEN 0 ELSE v

\* Reading the receiver's record: no record means a balance of 0.
AmountOr0(s, a) == IF s[a] = Nil THEN 0 ELSE s[a]

\* Debit `from`, credit `to` (the two Sys_SetValue writes).
Move(s, from, to, n) ==
  [s EXCEPT ![from] = @ - n, ![to] = AmountOr0(s, to) + n]

\* The part TransferBalance and TransferFee share once the sender and the
\* receiver are known to differ: the sender needs a record holding at
\* least the amount (handle.go:116-128 / 229-243), the receiver's record
\* defaults to 0 (132-144 / 246-258), then both are written (148-167 /
\* 262-281).
\* Mutant: the balance check "has %d, but want %d" left out.
PayNoBalanceCheck(s, from, to, n) ==
  IF s[from] = Nil THEN Err(s) ELSE Ok(Move(s, from, to, n))

Pay(s, from, to, n) ==
  IF s[from] = Nil \/ s[from] < n THEN Err(s)
  ELSE Ok(Move(s, from, to, n))

\* Mutant: the bytes.Equal(from, to) early return left out.
TransferBalanceNoSelfCheck(s, c) ==
  IF c.from = Nil \/ c.to = Nil THEN Err(s)
  ELSE Pay(s, c.from, c.to, Atoi(c.amount))

\* TransferBalance (handle.go:192-303): "from" and "to" must be present,
\* and a transfer to oneself returns nil, nil.
TransferBalance(s, c) ==
  IF c.from = Nil \/ c.to = Nil THEN Err(s)
  ELSE IF c.from = c.to THEN Ok(s)
  ELSE Pay(s, c.from, c.to, Atoi(c.amount))

\* TransferFee (handle.go:80-190): the receiver is the block's coinbase,
\* and a fee the coinbase pays itself returns nil, nil.
TransferFee(s, c, cb) ==
  IF c.from = Nil THEN Err(s)
  ELSE IF c.from = cb THEN Ok(s)
  ELSE Pay(s, c.from, cb, Atoi(c.amount))

\* RewordBlockProducer (handle.go:305-345).
RewordBlockProducer(s, c) ==
  IF c.producer = Nil THEN Err(s)
  ELSE Ok([s EXCEPT ![c.producer] = AmountOr0(s, c.producer) + RewardAmount])

\* GetBalance (handle.go:17-76) only reads the store.
GetBalance(s, c) == IF c.addresses THEN Ok(s) ELSE Err(s)

\* Vms.DealAction (inter.go:75-84) with ContractBalancer.DoFun
\* (balancer.go:56-77): an unregistered contract, a missing or unparsable
\* funcId and an unknown funcId are errors.
\* InnerContractManager.Exist (innerContract.go:61-69): the balance
\* contract is the only one registered (innnerContractRegister.go:19-21).
Exist(c) == c.contract = "balance"

DealAction(s, c, cb) ==
  IF ~Exist(c) \/ NotANumber(c.funcId) THEN Err(s)
  ELSE CASE c.funcId = TransferBalance_FunId     -> TransferBalance(s, c)
         [] c.funcId = RewordBlockProducer_FunId -> RewordBlockProducer(s, c)
         [] c.funcId = TransferFee_FunId         -> TransferFee(s, c, cb)
         [] c.funcId = GetBalance_FunId          -> GetBalance(s, c)
         [] OTHER                                -> Err(s)

\* Whether a call gets past the parameter checks of its handler to the
\* handler's first SDK call, which reads sysparam.SdkHandler: Sys_GetValue
\* of the sender (TransferBalance, handle.go:200-228, after the self-transfer
\* return), Sys_GetCoinbase (TransferFee, 89-97), Sys_GetValue of the
\* producer (RewordBlockProducer, 308-316) or of the first requested
\* address (GetBalance, 24-47).
ReachesSdk(c) ==
  /\ Exist(c) /\ ~NotANumber(c.funcId)
  /\ \/ c.funcId = TransferBalance_FunId
          /\ c.from # Nil /\ c.to # Nil /\ c.from # c.to
     \/ c.funcId = RewordBlockProducer_FunId /\ c.producer # Nil
     \/ c.funcId = TransferFee_FunId /\ c.from # Nil
     \/ c.funcId = GetBalance_FunId /\ c.addresses

\* Vms.SendWork (inter.go:90-103) runs DealActions on a new goroutine with
\* no recover: *action.Address is dereferenced first, and a nil sysparam
\* (sys = FALSE) is dereferenced at the handler's first SDK call; either
\* panic ends the process.
SendWork(s, c, cb, sys) ==
  IF c.contract = Nil \/ (~sys /\ ReachesSdk(c)) THEN Panic(s)
  ELSE DealAction(s, c, cb)

\* The action loop of TransitionDb (statetransition.go:164-181): each
\* action sees the writes of the ones before; the first error stops it.
RECURSIVE RunActions(_, _, _)
RunActions(s, as, cb) ==
  IF as = <<>> THEN Ok(s)
  ELSE LET r == SendWork(s, Head(as), cb, TRUE)
       IN IF r.error THEN r ELSE RunActions(r.store, Tail(as), cb)

\* The reward action the producer adds to every block
\* (MakeActionParamsReword, defines.go:27-38; producer.go:486-499).
RewardCall(p) ==
  [contract |-> "balance", funcId |-> RewordBlockProducer_FunId,
   producer |-> p, from |-> Nil, to |-> Nil, amount |-> Nil,
   addresses |-> FALSE]

\* TransitionDb's test for a contract creation (statetransition.go:140-142):
\* two actions, the second without an address.
IsCreation(as) == Len(as) = 2 /\ as[2].contract = Nil

\* interpreter.Create (interface.go:38-78) on a fresh contract address: the
\* fee action is sent with a nil sysparam ("todo,fill sysparam", line 62);
\* when it fails, Create returns the named err, still nil (line 67).  The
\* code is saved in the state trie, outside the contract's store.
Create(s, as) ==
  LET r == SendWork(s, as[1], Nil, FALSE)
  IN IF r.panic THEN r ELSE IF r.error THEN Ok(s) ELSE Ok(r.store)

Init ==
  /\ store \in [Accounts -> InitBalances]
  /\ coinbase = Nil
  /\ blocks = 0
  /\ txs = 0
  /\ last = Nil
  /\ crashed = FALSE

\* A new block by producer p: the TmpStatusManager now answers
\* Sys_GetCoinbase with p, and the block's reward transaction is applied.
ProduceBlock(p) ==
  /\ ~crashed
  /\ blocks < MaxBlocks
  /\ coinbase' = p
  /\ store' = RunActions(store, <<RewardCall(p)>>, p).store
  /\ blocks' = blocks + 1
  /\ UNCHANGED <<txs, last, crashed>>

\* ApplyTransaction / TransitionDb (statetransition.go:131-200) for a
\* transaction of s: Create, or the action loop; on an error the state
\* reverts to the snapshot taken before it.
ApplyTransaction(s, as) ==
  /\ ~crashed
  /\ coinbase # Nil
  /\ txs < MaxTxs
  /\ LET r == IF IsCreation(as) THEN Create(store, as)
              ELSE RunActions(store, as, coinbase)
     IN /\ store' = IF r.error THEN store ELSE r.store
        /\ crashed' = r.panic
  /\ txs' = txs + 1
  /\ last' = s
  /\ UNCHANGED <<coinbase, blocks>>

Next ==
  \/ \E p \in Accounts : ProduceBlock(p)
  \/ \E s \in Accounts : \E as \in Txs(s) : ApplyTransaction(s, as)

Spec == Init /\ [][Next]_vars

(***************************************************************************)
(* Properties                                                              *)
(***************************************************************************)

\* Types; balances are recorded as non-negative amounts (an overdraft is
\* refused by the "has %d, but want %d" checks of TransferBalance and
\* TransferFee).
TypeOK ==
  /\ store \in [Accounts -> Nat \cup {Nil}]
  /\ coinbase \in Accounts \cup {Nil}
  /\ blocks \in 0..MaxBlocks
  /\ txs \in 0..MaxTxs
  /\ last \in Accounts \cup {Nil}
  /\ crashed \in BOOLEAN

\* The balances GetBalance reports: 0 where no record exists
\* (handle.go:48-49).
Balances == [a \in Accounts |-> AmountOr0(store, a)]

L == INSTANCE Ledger WITH balance <- Balances, height <- blocks,
                          signer <- last, Reward <- RewardAmount,
                          NoSigner <- Nil

\* The contract implements the ledger: every user transaction keeps the
\* total supply, leaves no balance negative and takes value from no account
\* but its signer's, and new money appears only as the one reward of each
\* block (TransferBalance, TransferFee, RewordBlockProducer, TransitionDb).
LedgerSpec == L!Spec

\* No transaction a user can sign crashes the node: spec section 4 says
\* no cycle step panics the process (Create, SendWork, the handlers).
NoCrash == ~crashed

=============================================================================
