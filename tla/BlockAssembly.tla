--------------------------- MODULE BlockAssembly ---------------------------
(***************************************************************************)
(* The transaction half of the commit cycle: how commitNewWork turns the   *)
(* pool's pending transactions into a block body.                          *)
(*                                                                         *)
(*  - the Transaction Scheduler TransactionsByPriorityAndNonce             *)
(*    (core/transaction/transaction.go:390-459): a container/heap of one   *)
(*    head transaction per sender, max priority first;                     *)
(*  - the loop Work.commitTransactions and Work.commitTransaction          *)
(*    (blockproducer/producer.go:521-617);                                 *)
(*  - the State Transition Executor ApplyTransaction / TransitionDb        *)
(*    (core/stateprocessor/stateprocessor.go:125-165, statetransition.go:  *)
(*    93-200) with the contract-creation routine interpreter.Create        *)
(*    (core/interpreter/interface.go:38-78);                               *)
(*  - the VM round trip Vms.SendWork / DealActions (core/interpreter/      *)
(*    inter.go:49-103): one goroutine per action, awaited at once, so one  *)
(*    step per action.                                                     *)
(*                                                                         *)
(* Cycles repeat: a finished block is either accepted as the new head or   *)
(* another cycle is built on the same parent (Start and a ChainHeadEvent   *)
(* both run commitNewWork).  The pool is spec-modelled: its reset after a  *)
(* new head drops the transactions whose nonce the chain has consumed, and *)
(* may lag behind the next cycle.                                          *)
(*                                                                         *)
(* Data is abstract.  An action's handler verdict ("ok" or "err") is part  *)
(* of the transaction, because the handler is a deterministic function of  *)
(* the (abstracted) state.  Storage keys are <<sender, nonce, action>>;    *)
(* a contract address is CreateAddress(sender, nonce) = <<sender, nonce>>. *)
(***************************************************************************)
EXTENDS Integers, Sequences, SequencesExt, FiniteSets

CONSTANTS
  Senders,      \* accounts with pending transactions
  Reward,       \* the sender of the reward transaction (params.RewordPrikey)
  RewardPrio,   \* txReword.Priority (producer.go:498), 10 in the code
  Prios,        \* priorities of user transactions (GetPriority: the fee)
  ActLists,     \* handler verdicts of the actions of an ordinary transaction
  Kinds,        \* {"call"} or {"call", "create"}
  MaxPending,   \* bound on a sender's pending list
  StartNonces,  \* nonce of a sender's first pending transaction
  MaxCycles     \* bound on the number of commit cycles

ASSUME /\ Reward \notin Senders
       /\ RewardPrio \in Nat /\ Prios \subseteq Nat
       /\ Kinds \subseteq {"call", "create"}
       /\ MaxPending \in Nat /\ MaxCycles \in Nat

Accounts == Senders \cup {Reward}

VARIABLES
  height,     \* number of the head block
  chainState, \* world state at the head: [nonce, storage, code]
  pool,       \* pool's pending transactions per sender, in nonce order
  chainTxs,   \* transactions of the accepted blocks, in chain order
  cycles,     \* commit cycles run so far
  phase,      \* "idle", "loop" (at Peek), "act" (in TransitionDb), "done"
  st,         \* Work.state
  snap,       \* TransitionDb's snapshot (statetransition.go:144)
  heads,      \* the heap array TxByPriority, 1-based
  rest,       \* TransactionsByPriorityAndNonce.txs: the tails per sender
  cur,        \* the transaction being executed
  ai,         \* index of the next action of cur
  results,    \* resultMem: keys produced by the actions run so far
  blk,        \* Work.txs with each receipt's failed flag
  cache,      \* Work.dbCache: keys of the write cache
  last        \* history: the latest attempt that ran handler code

cycleVars == <<phase, st, snap, heads, rest, cur, ai, results, blk, cache, last>>
vars == <<height, chainState, pool, chainTxs, cycles, cycleVars>>

MkTx(s, n, b) == [sender |-> s, nonce |-> n, prio |-> b.prio, kind |-> b.kind, acts |-> b.acts]

\* A contract creation carries two actions: the fee action's verdict and
\* whether the code fits params.MaxCodeSize.
TxBodies ==
  [prio : Prios, kind : {"call"}, acts : ActLists]
  \cup (IF "create" \in Kinds
          THEN [prio : Prios, kind : {"create"}, acts : {"ok", "err"} \X {"ok", "err"}]
          ELSE {})

\* The reward transaction of a block on a parent of number h
\* (producer.go:484-498): nonce num-1 = h, one RewordBlockProducer action.
RewardTx(h) == MkTx(Reward, h, [prio |-> RewardPrio, kind |-> "call", acts |-> <<"ok">>])

-----------------------------------------------------------------------------
(* container/heap over TxByPriority; Less(i, j) is priority(i) >          *)
(* priority(j) (transaction.go:393).  1-based: the children of i are 2i   *)
(* and 2i+1.                                                               *)

Less(h, i, j) == h[i].prio > h[j].prio

SwapAt(h, i, j) == [h EXCEPT ![i] = h[j], ![j] = h[i]]

\* heap's down(h, i, n): sift element i down within h[1..n].
RECURSIVE HeapDown(_, _, _)
HeapDown(h, i, n) ==
  LET j1 == 2 * i
      j  == IF j1 + 1 <= n /\ Less(h, j1 + 1, j1) THEN j1 + 1 ELSE j1
  IN IF j1 > n \/ ~Less(h, j, i) THEN h ELSE HeapDown(SwapAt(h, i, j), j, n)

\* heap.Init: down(i) for i = n/2 .. 1.
RECURSIVE Heapify(_, _)
Heapify(h, i) == IF i = 0 THEN h ELSE Heapify(HeapDown(h, i, Len(h)), i - 1)

\* heap.Pop: swap the root with the last element, sift down, drop the last.
HeapPop(h) == LET g == HeapDown(SwapAt(h, 1, Len(h)), 1, Len(h) - 1)
              IN SubSeq(g, 1, Len(h) - 1)


-----------------------------------------------------------------------------
(* TransactionsByPriorityAndNonce (transaction.go:408-459).                *)

\* NewTransactionsByPriorityAndNonce: the reward transaction, then the
\* first transaction of each sender in the map's iteration order `order`
\* (randomised by the Go runtime), then heap.Init; each sender's tail is
\* kept in txs.
SchedHeads(p, order, h) ==
  Heapify(<<RewardTx(h)>> \o [i \in DOMAIN order |-> Head(p[order[i]])],
          (Len(order) + 1) \div 2)

\* Shift: replace the root by the next transaction of the same sender and
\* heap.Fix(0), or heap.Pop when the sender has none left.  The reward
\* sender has no entry in txs.
\* (mutation) the next transaction is heap.Push'ed instead of replacing
\* the root.
ShiftHeadsPush(h, r) ==
  LET acc == h[1].sender IN
  IF acc \in Senders /\ r[acc] # <<>>
    THEN Heapify(Append(h, Head(r[acc])), (Len(h) + 1) \div 2)
    ELSE HeapPop(h)

ShiftHeads(h, r) ==
  LET acc == h[1].sender IN
  IF acc \in Senders /\ r[acc] # <<>>
    THEN HeapDown([h EXCEPT ![1] = Head(r[acc])], 1, Len(h))
    ELSE HeapPop(h)

\* (mutation) txs[acc] is not advanced past the promoted transaction.
ShiftRestStuck(h, r) == r

ShiftRest(h, r) ==
  LET acc == h[1].sender IN
  IF acc \in Senders /\ r[acc] # <<>> THEN [r EXCEPT ![acc] = Tail(@)] ELSE r

\* The switch of commitTransactions (producer.go:564-590): Shift on a
\* nonce-too-low, nil or other error, Pop on a nonce-too-high.
Shift == heads' = ShiftHeads(heads, rest) /\ rest' = ShiftRest(heads, rest)
Pop   == heads' = HeapPop(heads) /\ UNCHANGED rest

-----------------------------------------------------------------------------
(* Init: genesis; the pool holds, per sender, up to MaxPending            *)
(* transactions with consecutive nonces.                                   *)

BodySeqs == BoundedSeq(TxBodies, MaxPending)

Init ==
  /\ height = 0
  /\ chainState = [nonce |-> [a \in Accounts |-> 0], storage |-> {}, code |-> {}]
  /\ \E bodies \in [Senders -> BodySeqs], n0 \in [Senders -> StartNonces] :
       pool = [s \in Senders |-> [i \in DOMAIN bodies[s] |-> MkTx(s, n0[s] + i - 1, bodies[s][i])]]
  /\ chainTxs = <<>>
  /\ cycles = 0
  /\ phase = "idle"
  /\ st = chainState
  /\ snap = chainState
  /\ heads = <<>>
  /\ rest = [s \in Senders |-> <<>>]
  /\ cur = RewardTx(0)
  /\ ai = 1
  /\ results = <<>>
  /\ blk = <<>>
  /\ cache = {}
  /\ last = [failed |-> FALSE, before |-> chainState, after |-> chainState]


-----------------------------------------------------------------------------
(* commitNewWork up to the loop (producer.go:427-505): the parent's state *)
(* (makeCurrent), Pending(), the reward transaction and the scheduler.    *)

\* makeCurrent (producer.go:365-394): a new Work on the parent's state
\* (StateAt(parent.Root())), with no transactions and an empty dbCache.
MakeCurrent == st' = chainState /\ blk' = <<>> /\ cache' = {}

\* (mutation) the seeded heads are left at the front of txs.
StartCycleNoAdvance ==
  /\ phase = "idle"
  /\ cycles < MaxCycles
  /\ \E order \in SetToSeqs({s \in Senders : pool[s] # <<>>}) :
       heads' = SchedHeads(pool, order, height)
  /\ rest' = pool
  /\ MakeCurrent
  /\ phase' = "loop"
  /\ cycles' = cycles + 1
  /\ UNCHANGED <<height, chainState, pool, chainTxs, snap, cur, ai, results, last>>

StartCycle ==
  /\ phase = "idle"
  /\ cycles < MaxCycles
  /\ \E order \in SetToSeqs({s \in Senders : pool[s] # <<>>}) :
       heads' = SchedHeads(pool, order, height)
  /\ rest' = [s \in Senders |-> IF pool[s] = <<>> THEN <<>> ELSE Tail(pool[s])]
  /\ MakeCurrent
  /\ phase' = "loop"
  /\ cycles' = cycles + 1
  /\ UNCHANGED <<height, chainState, pool, chainTxs, snap, cur, ai, results, last>>

-----------------------------------------------------------------------------
(* One round of commitTransactions (producer.go:531-591) on the Peek'ed   *)
(* transaction: commitTransaction takes a snapshot and runs               *)
(* ApplyTransaction -> ApplyMessage -> TransitionDb, whose preCheck        *)
(* compares nonces (statetransition.go:93-107) before anything changes.   *)

PeekTx == heads[1]
NonceOf(tx) == st.nonce[tx.sender]

\* ErrNonceTooLow: skip the transaction (Shift).
NonceTooLow ==
  /\ phase = "loop" /\ heads # <<>>
  /\ NonceOf(PeekTx) > PeekTx.nonce
  /\ Shift
  /\ UNCHANGED <<height, chainState, pool, chainTxs, cycles, phase,
                 st, snap, cur, ai, results, blk, cache, last>>

\* ErrNonceTooHigh: discard the sender's remaining queue (Pop).
NonceTooHigh ==
  /\ phase = "loop" /\ heads # <<>>
  /\ NonceOf(PeekTx) < PeekTx.nonce
  /\ Pop
  /\ UNCHANGED <<height, chainState, pool, chainTxs, cycles, phase,
                 st, snap, cur, ai, results, blk, cache, last>>

\* (mutation) the sender's nonce is not incremented.
BeginCallNoBump ==
  /\ phase = "loop" /\ heads # <<>>
  /\ NonceOf(PeekTx) = PeekTx.nonce
  /\ PeekTx.kind = "call"
  /\ cur' = PeekTx
  /\ snap' = st
  /\ ai' = 1
  /\ results' = <<>>
  /\ phase' = "act"
  /\ UNCHANGED <<height, chainState, pool, chainTxs, cycles, st,
                 heads, rest, blk, cache, last>>

\* (mutation) the snapshot is taken after the nonce increment.
BeginCallSnapLate ==
  /\ phase = "loop" /\ heads # <<>>
  /\ NonceOf(PeekTx) = PeekTx.nonce
  /\ PeekTx.kind = "call"
  /\ cur' = PeekTx
  /\ st' = [st EXCEPT !.nonce[PeekTx.sender] = @ + 1]
  /\ snap' = st'
  /\ ai' = 1
  /\ results' = <<>>
  /\ phase' = "act"
  /\ last' = [failed |-> FALSE, before |-> st, after |-> st]
  /\ UNCHANGED <<height, chainState, pool, chainTxs, cycles,
                 heads, rest, blk, cache>>

\* Normal path (statetransition.go:143-163): snapshot, then the sender's
\* nonce is incremented before any action runs.
BeginCall ==
  /\ phase = "loop" /\ heads # <<>>
  /\ NonceOf(PeekTx) = PeekTx.nonce
  /\ PeekTx.kind = "call"
  /\ cur' = PeekTx
  /\ snap' = st
  /\ st' = [st EXCEPT !.nonce[PeekTx.sender] = @ + 1]
  /\ ai' = 1
  /\ results' = <<>>
  /\ phase' = "act"
  /\ last' = [failed |-> FALSE, before |-> st, after |-> st]
  /\ UNCHANGED <<height, chainState, pool, chainTxs, cycles,
                 heads, rest, blk, cache>>

\* One action: SendWork and wait for its WorkResult (statetransition.go:
\* 164-181, inter.go:49-103).  Success collects its result keys.
\* (mutation) each action's results go to the write cache at once.
ActionOkCachesEarly ==
  /\ phase = "act" /\ ai <= Len(cur.acts)
  /\ cur.acts[ai] = "ok"
  /\ results' = Append(results, <<cur.sender, cur.nonce, ai>>)
  /\ cache' = cache \cup {<<cur.sender, cur.nonce, ai>>}
  /\ ai' = ai + 1
  /\ UNCHANGED <<height, chainState, pool, chainTxs, cycles, phase,
                 st, snap, heads, rest, cur, blk, last>>

ActionOk ==
  /\ phase = "act" /\ ai <= Len(cur.acts)
  /\ cur.acts[ai] = "ok"
  /\ results' = Append(results, <<cur.sender, cur.nonce, ai>>)
  /\ ai' = ai + 1
  /\ UNCHANGED <<height, chainState, pool, chainTxs, cycles, phase,
                 st, snap, heads, rest, cur, blk, cache, last>>

\* A handler error: RevertToSnapshot and `return nil, true, err` with the
\* named err still nil (statetransition.go:169-172).  ApplyTransaction sees
\* no error and builds a receipt with failed = true; commitTransaction
\* appends the transaction to the block; commitTransactions takes the nil
\* case: tcount++ and Shift.
ActionFails ==
  /\ phase = "act" /\ ai <= Len(cur.acts)
  /\ cur.acts[ai] = "err"
  /\ st' = snap
  /\ blk' = Append(blk, [tx |-> cur, failed |-> TRUE])
  /\ last' = [failed |-> TRUE, before |-> last.before, after |-> st']
  /\ Shift
  /\ phase' = "loop"
  /\ UNCHANGED <<height, chainState, pool, chainTxs, cycles, snap,
                 cur, ai, results, cache>>

\* All actions succeeded: every result is written to storage and to the
\* write cache (statetransition.go:184-199); the receipt is not failed,
\* the transaction is appended, tcount++ and Shift.
FinishCall ==
  /\ phase = "act" /\ ai > Len(cur.acts)
  /\ st' = [st EXCEPT !.storage = @ \cup ToSet(results)]
  /\ cache' = cache \cup ToSet(results)
  /\ blk' = Append(blk, [tx |-> cur, failed |-> FALSE])
  /\ last' = [failed |-> FALSE, before |-> last.before, after |-> st']
  /\ Shift
  /\ phase' = "loop"
  /\ UNCHANGED <<height, chainState, pool, chainTxs, cycles, snap,
                 cur, ai, results>>


\* Contract creation (statetransition.go:140-160, interface.go:38-78), one
\* step: Create increments the sender's nonce (interface.go:43) before its
\* own snapshot, runs the fee action and checks the code size.
\*  - fee action fails: Create reverts its own snapshot and returns the
\*    named err, still nil (interface.go:65-67); TransitionDb goes on with
\*    no results and reports success;
\*  - code too large: ErrContractCodeSizeTooLong; TransitionDb reverts its
\*    snapshot and returns the error, commitTransaction reverts and the
\*    default case Shifts;
\*  - otherwise the code is stored and the fee action's results are written.
CreateContract ==
  /\ phase = "loop" /\ heads # <<>>
  /\ NonceOf(PeekTx) = PeekTx.nonce
  /\ PeekTx.kind = "create"
  /\ LET tx     == PeekTx
         fee    == tx.acts[1]
         fits   == tx.acts[2]
         key    == <<tx.sender, tx.nonce, 1>>
         bumped == [st EXCEPT !.nonce[tx.sender] = @ + 1]
     IN \/ /\ fee = "err"
           /\ st' = bumped
           /\ blk' = Append(blk, [tx |-> tx, failed |-> FALSE])
           /\ last' = [failed |-> TRUE, before |-> st, after |-> st']
           /\ UNCHANGED cache
        \/ /\ fee = "ok" /\ fits = "err"
           /\ UNCHANGED <<st, blk, cache>>
           /\ last' = [failed |-> TRUE, before |-> st, after |-> st]
        \/ /\ fee = "ok" /\ fits = "ok"
           /\ st' = [bumped EXCEPT !.code = @ \cup {<<tx.sender, tx.nonce>>},
                                   !.storage = @ \cup {key}]
           /\ cache' = cache \cup {key}
           /\ blk' = Append(blk, [tx |-> tx, failed |-> FALSE])
           /\ last' = [failed |-> FALSE, before |-> st, after |-> st']
  /\ Shift
  /\ UNCHANGED <<height, chainState, pool, chainTxs, cycles, phase,
                 snap, cur, ai, results>>

\* Peek returns nil: the loop ends and the block is finalised and pushed
\* (producer.go:503-519).
FinishBlock ==
  /\ phase = "loop" /\ heads = <<>>
  /\ phase' = "done"
  /\ UNCHANGED <<height, chainState, pool, chainTxs, cycles, st, snap,
                 heads, rest, cur, ai, results, blk, cache, last>>

-----------------------------------------------------------------------------
(* What becomes of the block (blockproducer: seal, WriteBlockAndState).   *)

\* The sealed block is written and becomes the head: its state and write
\* cache are committed.
AcceptBlock ==
  /\ phase = "done"
  /\ chainState' = st
  /\ height' = height + 1
  /\ chainTxs' = chainTxs \o [i \in DOMAIN blk |-> blk[i].tx]
  /\ phase' = "idle"
  /\ UNCHANGED <<pool, cycles, st, snap, heads, rest, cur, ai,
                 results, blk, cache, last>>

\* The block is not accepted (a seal failure or another commit cycle on
\* the same head); the next cycle builds on the same parent.
DropBlock ==
  /\ phase = "done"
  /\ phase' = "idle"
  /\ UNCHANGED <<height, chainState, pool, chainTxs, cycles, st,
                 snap, heads, rest, cur, ai, results, blk, cache, last>>

\* The pool's reset on a new head (spec-modelled: the pool is not in this
\* repository) drops transactions whose nonce the chain has consumed.  It
\* runs asynchronously and may come after the next cycle has read Pending().
PoolReset ==
  /\ pool' = [s \in Senders |-> SelectSeq(pool[s], LAMBDA t : t.nonce >= chainState.nonce[s])]
  /\ pool' # pool
  /\ UNCHANGED <<height, chainState, chainTxs, cycles, cycleVars>>

CommitTxStep ==
  \/ NonceTooLow \/ NonceTooHigh \/ BeginCall \/ ActionOk \/ ActionFails
  \/ FinishCall \/ CreateContract \/ FinishBlock

Next ==
  \/ StartCycle \/ CommitTxStep
  \/ AcceptBlock \/ DropBlock \/ PoolReset

\* commitTransactions runs on one goroutine that only waits for the VM's
\* result, which DealActions always sends: its steps are weakly fair.
Fairness == WF_vars(CommitTxStep)

Spec == Init /\ [][Next]_vars /\ Fairness


-----------------------------------------------------------------------------
(* Properties.                                                             *)

Tx == [sender : Accounts, nonce : Nat, prio : Prios \cup {RewardPrio},
       kind : {"call", "create"}, acts : Seq({"ok", "err"})]
State == [nonce : [Accounts -> Nat], storage : SUBSET (Accounts \X Nat \X Nat),
          code : SUBSET (Accounts \X Nat)]

\* Every variable has its type, and the heap holds at most one head per
\* sender: NewTransactionsByPriorityAndNonce seeds one per account and Shift
\* replaces the root (transaction.go:415-452).
TypeOK ==
  /\ height \in Nat /\ cycles \in 0..MaxCycles
  /\ chainState \in State /\ st \in State /\ snap \in State
  /\ pool \in [Senders -> Seq(Tx)]
  /\ chainTxs \in Seq(Tx)
  /\ phase \in {"idle", "loop", "act", "done"}
  /\ heads \in Seq(Tx) /\ rest \in [Senders -> Seq(Tx)]
  /\ \A i, j \in DOMAIN heads : i # j => heads[i].sender # heads[j].sender
  /\ cur \in Tx /\ ai \in Nat \ {0}
  /\ blk \in Seq([tx : Tx, failed : BOOLEAN])
  /\ cache \subseteq Accounts \X Nat \X Nat
  /\ last \in [failed : BOOLEAN, before : State, after : State]

\* Spec 8, nonce ordering: the transactions of one sender in a block built
\* by commitTransactions have strictly increasing nonces.
BlockNonceOrder ==
  \A s \in Accounts :
    LET mine == SelectSeq([i \in DOMAIN blk |-> blk[i].tx], LAMBDA t : t.sender = s)
    IN \A i \in 1..Len(mine) - 1 : mine[i].nonce < mine[i + 1].nonce

\* Spec 4.4 and 8, atomicity: when a transaction fails, the state after
\* its attempt is the state the loop had before it started the attempt:
\* the snapshot TransitionDb reverts to must be taken before anything of
\* the transaction, the nonce increment included, touched the state.
Atomicity == last.failed => last.after = last.before

\* The write cache (Work.dbCache, not covered by the state snapshot) holds
\* only results that are also in the work's state: what WriteBlockAndState
\* persists from the cache agrees with the state root.
CacheMatchesState == cache \subseteq st.storage

\* Every commit cycle's transaction loop ends: each round Shifts or Pops
\* the heap, and every VM round trip answers.
CycleTerminates == phase \in {"loop", "act"} ~> phase = "done"

\* The scheduler's queue of an account: its entry in the heap, then its
\* tail in txs; an account without an entry has nothing left (a Pop leaves
\* txs[acc] behind, never read again).
SchedQueue ==
  [a \in Accounts |->
     LET at == {i \in DOMAIN heads : heads[i].sender = a}
     IN IF at = {} THEN <<>>
        ELSE <<heads[CHOOSE i \in at : TRUE]>> \o (IF a \in Senders THEN rest[a] ELSE <<>>)]

\* What the next cycle loads: the pool's pending lists and the reward.
SchedPending == [a \in Accounts |-> IF a = Reward THEN <<RewardTx(height)>> ELSE pool[a]]

Sched == INSTANCE TxScheduler WITH queue <- SchedQueue, pending <- SchedPending

\* The heap, its seeding and Shift/Pop implement the abstract scheduler:
\* every Peek offers a highest-priority next transaction of some account,
\* Shift advances exactly that account to its next nonce, Pop discards the
\* account's remaining queue, and a cycle loads exactly the pool and the
\* reward once the previous loop drained (NewTransactionsByPriorityAndNonce,
\* Peek, Shift, Pop, commitTransactions).
SchedulerSpec == Sched!Spec

\* Spec 4.3: every block the loop finishes carries exactly one reward
\* transaction, the one signed for its parent's number, and it succeeded.
\* The reward's nonce is the parent's number (producer.go:491), so this
\* needs the reward account's nonce in the state to equal the height after
\* every accepted and every dropped block (preCheck, TransitionDb's nonce
\* increment, the heap putting the reward first).
RewardEveryBlock ==
  phase = "done" =>
    \E i \in DOMAIN blk :
      /\ blk[i] = [tx |-> RewardTx(height), failed |-> FALSE]
      /\ \A j \in DOMAIN blk : blk[j].tx.sender = Reward => j = i

\* Nonces are a strictly increasing per-account sequence: no (sender,
\* nonce) is in two accepted blocks.
NoReplay ==
  \A i, j \in DOMAIN chainTxs :
    i < j => <<chainTxs[i].sender, chainTxs[i].nonce>> # <<chainTxs[j].sender, chainTxs[j].nonce>>

=============================================================================
