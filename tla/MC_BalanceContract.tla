------------------------- MODULE MC_BalanceContract -------------------------
(***************************************************************************)
(* Inputs for BalanceContract: the action lists a signer can submit.       *)
(*   ClientCalls(s): what a wallet of s sends (the "from" of a transfer or *)
(*     fee is s, amounts are not negative, no reward call); every error    *)
(*     path of the handlers is still reachable.                            *)
(*   AnyCalls(s): any parameters a signed transaction can carry.           *)
(*   CreateTxs(s): a contract creation as a wallet sends it.               *)
(***************************************************************************)
EXTENDS BalanceContract

\* A call with every key absent, to be filled in.
NoParams ==
  [contract |-> "balance", funcId |-> Nil, producer |-> Nil, from |-> Nil,
   to |-> Nil, amount |-> Nil, addresses |-> FALSE]

Call(f, from, to, amt) ==
  [NoParams EXCEPT !.funcId = f, !.from = from, !.to = to, !.amount = amt]

\* Calls that fail in dispatch: no funcId, an unparsable one, an unknown
\* one, and a contract address nobody registered.
BadCalls ==
  {Call(Nil, Nil, Nil, Nil), Call(Junk, Nil, Nil, Nil), Call(7, Nil, Nil, Nil),
   [NoParams EXCEPT !.contract = "other"]}

ReadCalls ==
  {[NoParams EXCEPT !.funcId = GetBalance_FunId, !.addresses = b] : b \in BOOLEAN}

ClientAmounts == {1, 2, Junk}

ClientCalls(s) ==
  {Call(TransferBalance_FunId, s, t, n) : t \in Accounts \cup {Nil}, n \in ClientAmounts}
  \cup {Call(TransferBalance_FunId, Nil, s, 1)}
  \cup {Call(TransferFee_FunId, f, Nil, n) : f \in {s, Nil}, n \in ClientAmounts}
  \cup ReadCalls \cup BadCalls

AnyAmounts == {-1, 1, 2}

AnyCalls(s) ==
  {Call(TransferBalance_FunId, f, t, n) : f, t \in Accounts, n \in AnyAmounts}
  \cup {Call(TransferFee_FunId, f, Nil, n) : f \in Accounts, n \in AnyAmounts}
  \cup {[NoParams EXCEPT !.funcId = RewordBlockProducer_FunId, !.producer = p] : p \in Accounts}

\* Two-action transactions: a transfer of 1 by s, then a call that sees its
\* writes or fails and reverts it (another transfer, a fee, a bad call).
SecondCalls(s) ==
  {Call(TransferBalance_FunId, s, t, 2) : t \in Accounts}
  \cup {Call(TransferFee_FunId, s, Nil, 1), Call(7, Nil, Nil, Nil)}

\* The code action of a contract creation: it has no address.
CodeAction == [NoParams EXCEPT !.contract = Nil]

\* Creations whose fee action is a fee from s (what a wallet sends), a fee
\* without "from", or a transfer from s to itself.
CreateFees(s) ==
  {Call(TransferFee_FunId, s, Nil, 1), Call(TransferFee_FunId, Nil, Nil, 1),
   Call(TransferBalance_FunId, s, s, 1)}

MC_CreateTxs(s) == {<<Call(TransferFee_FunId, s, Nil, 1), CodeAction>>}

MC_ClientTxs(s) ==
  {<<c>> : c \in ClientCalls(s)}
  \cup {<<f, CodeAction>> : f \in CreateFees(s)}
  \cup {<<Call(TransferBalance_FunId, s, t, 1), d>> : t \in Accounts, d \in SecondCalls(s)}

MC_AnyTxs(s) == {<<c>> : c \in AnyCalls(s)}

=============================================================================
