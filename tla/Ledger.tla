------------------------------- MODULE Ledger -------------------------------
(***************************************************************************)
(* What the built-in balance contract promises its users, stated without   *)
(* JSON, parameters or handlers: an account balance per address, changed   *)
(* only                                                                    *)
(*   - by a transaction of a signer, which keeps the total supply, leaves  *)
(*     every balance non-negative and takes value from nobody but the      *)
(*     signer (a transfer, a fee paid to the block producer, a read);     *)
(*   - by the block reward, minted once for each block to its producer.   *)
(* BalanceContract is checked to implement this specification.            *)
(***************************************************************************)
EXTENDS Integers, Functions

CONSTANTS
  Accounts,  \* the addresses that hold a balance
  Reward,    \* the block reward
  NoSigner   \* no transaction applied yet

VARIABLES
  balance,   \* balance[a]: the amount account a holds
  height,    \* the number of blocks rewarded so far
  signer     \* the signer of the last transaction applied

vars == <<balance, height, signer>>

Supply(b) == SumFunction(b)

Init ==
  /\ balance \in [Accounts -> Nat]
  /\ height = 0
  /\ signer = NoSigner

\* A transaction of s: the supply is unchanged, no balance goes negative,
\* and only s may end up with less than it had.
Transact(s) ==
  /\ signer' = s
  /\ Supply(balance') = Supply(balance)
  /\ \A a \in Accounts : balance'[a] \in Nat
  /\ \A a \in Accounts \ {s} : balance'[a] >= balance[a]
  /\ UNCHANGED height

\* The reward of one new block, credited to its producer p.
Mint(p) ==
  /\ balance' = [balance EXCEPT ![p] = @ + Reward]
  /\ height' = height + 1
  /\ UNCHANGED signer

Next ==
  \/ \E s \in Accounts : Transact(s)
  \/ \E p \in Accounts : Mint(p)

Spec == Init /\ [][Next]_vars

=============================================================================
