----------------------------- MODULE TxScheduler -----------------------------
(***************************************************************************)
(* What the transaction scheduler promises the commit loop, without a     *)
(* heap: each account has a queue of pending transactions in nonce order; *)
(* the loop is always offered the next transaction of an account whose    *)
(* next transaction has the highest priority of all accounts' next ones;  *)
(* the loop then either advances that account to its following            *)
(* transaction or discards the account's whole remaining queue.  A new    *)
(* queue is loaded, from what is pending, only once the last one drained. *)
(* BlockAssembly's TransactionsByPriorityAndNonce is checked to implement *)
(* this specification.                                                     *)
(***************************************************************************)
EXTENDS Naturals, Sequences

CONSTANT Accounts   \* the accounts with pending transactions

VARIABLES
  queue,    \* queue[a]: the transactions of a still to be offered
  pending   \* what the pool holds, loaded by the next cycle

vars == <<queue, pending>>

Drained == \A a \in Accounts : queue[a] = <<>>

\* The loop is offered a's next transaction.
Offered(a) ==
  /\ queue[a] # <<>>
  /\ \A b \in Accounts : queue[b] # <<>> => Head(queue[b]).prio <= Head(queue[a]).prio

Init == queue = [a \in Accounts |-> <<>>]

Load == Drained /\ queue' = pending /\ UNCHANGED pending

Advance(a) == Offered(a) /\ queue' = [queue EXCEPT ![a] = Tail(@)] /\ UNCHANGED pending

Discard(a) == Offered(a) /\ queue' = [queue EXCEPT ![a] = <<>>] /\ UNCHANGED pending

\* The pool changes on its own.
Refill == UNCHANGED queue

Next == Load \/ Refill \/ \E a \in Accounts : Advance(a) \/ Discard(a)

Spec == Init /\ [][Next]_vars

=============================================================================
