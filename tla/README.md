# TLA+ models of the mjoy block-production core

This directory models the block-production core of the mjoy node
(`src/mjoy-go-master/src/mjoy.io/`) in TLA+ and checks it with TLC. The
models cover:

- the facade and its one-shot sync guard;
- the producer's goroutines;
- the unconfirmed-block tracker;
- the transaction scheduler;
- the state-transition executor;
- the built-in balance contract, checked against an abstract ledger;
- the consensus engine's parallel batch header verification.

`PROJECT.json` lists every component, every run and its mutants, the map
from each definition to the source lines it translates, the findings and
the hazards.

## 1. The system

| Part | Source | State | Operations |
|---|---|---|---|
| Facade (`Blockproducer`) | `blockproducer/blockproducer.go` | atomic `producing`, `canStart`, `shouldStart` | `New`, `Start`, `Stop`, `Register`, `Unregister`, the sync guard goroutine `update` |
| Producer | `blockproducer/producer.go` | agent set under `mu`, `producing`, `atWork`, `recv` (result channel, 10), `chainHeadCh` (10), `current` under `currentMu` | `start`, `stop`, `register`, `unregister`, `push`, `update` goroutine, `wait` goroutine, `commitNewWork` |
| Unconfirmed tracker | `blockproducer/unconfirmed.go` | ring of `(index, hash)`, depth 5 | `Insert`, `Shift` |
| Sealing agents | not in this repository (CpuAgent) | per-work sealing goroutine | `Start`, `Stop`, `Work`, result on `recv` |
| Scheduler | `core/transaction/transaction.go` | heap `heads`, per-sender tails `txs` | `NewTransactionsByPriorityAndNonce`, `Peek`, `Shift`, `Pop` |
| Executor | `core/stateprocessor/statetransition.go`, `stateprocessor.go`, `core/interpreter/interface.go` | the Work's StateDB with snapshots, the write cache `dbCache` | `preCheck`, `TransitionDb`, `ApplyTransaction`, `Create` |
| VM dispatch | `core/interpreter/inter.go` | one goroutine and result channel per action | `SendWork`, `DealActions` |
| Balance contract | `core/interpreter/balancetransfer/` | balances through the SDK | `TransferBalance`, `TransferFee`, `RewordBlockProducer`, `CheckFee` |
| Consensus engine | `consensus/basic_engine.go` | signing key | `Prepare`, `Finalize`, `Seal`, `VerifyHeaders` |

How the parts interact:

- `Mjoy.StartProducing` runs `go Blockproducer.Start(coinbase)`. Start sets
  the flags, starts the agents and runs the first `commitNewWork`.
- `commitNewWork` reads the head and builds a `Work`. It seeds the scheduler
  with the pool's pending transactions and a reward transaction, then runs
  `commitTransactions`. That loop calls the executor, which dispatches each
  action to the VM.
- It then finalises the block, shifts the tracker and pushes the work to
  every registered agent.
- Agents send results to `recv`. The `wait` goroutine writes each result to
  the chain, posts a ChainHeadEvent when the block became the head, and
  inserts the block into the tracker. The `update` goroutine runs
  `commitNewWork` on each ChainHeadEvent.
- The facade's guard goroutine listens for the downloader's Start, Done and
  Failed events. It stops production during a sync and resumes it once,
  then unsubscribes.

The hard behaviours are these:
- Start runs on its own goroutine and races Stop and the guard. (Register
  is modelled too, but with the CpuAgent registered by `New` and two API
  calls it never runs beside a Start.)
- Several agents may seal the same work.
- Results arrive late and out of order, and compete with peer blocks.
- The executor must be all-or-nothing per transaction across blocking VM
  round trips.
- VerifyHeaders' workers finish in any order, and their verdicts must
  still reach the caller in header order.
- The heap's tie order depends on Go map iteration order.
- Failed transactions interact with nonces across successive blocks.
- The balance contract takes its accounts and amounts from the call's
  parameters, so what one transaction may do to whose balance depends on
  every early return of its handlers.

## 2. Modules

| Module | Models | Kind |
|---|---|---|
| `BlockProducer.tla` | facade, guard, producer goroutines, agents, chain | concurrent state machine, one action per atomic step of each goroutine |
| `Unconfirmed.tla` | the tracker | pure operators `Insert`, `Shift`, `Classify`, used by BlockProducer through `INSTANCE` |
| `BlockAssembly.tla` | scheduler, `commitTransactions`, executor, VM round trip | state machine over repeated commit cycles; heap operators are RECURSIVE |
| `BalanceContract.tla` | the balance contract, its dispatch and TransitionDb's action loop | state machine of blocks and user transactions over the contract's store; handlers are operators returning `[error, store]` |
| `TxScheduler.tla` | what the transaction scheduler promises the commit loop | abstract specification, implemented by BlockAssembly's heap through `INSTANCE ... WITH` |
| `Ledger.tla` | what the balance contract promises | abstract specification, implemented by BalanceContract through `INSTANCE ... WITH` |
| `VerifyHeaders.tla` | `Engine_basic.VerifyHeaders` with `verifyHeaderWorker` and `verifyHeader` | concurrent state machine: a dispatcher, one process per worker, channels as sequences |
| `MC_BlockProducer.tla`, `MC_BlockAssembly.tla`, `MC_BalanceContract.tla`, `MC_VerifyHeaders.tla` | model-checking instances | definitions for the cfgs |

### BlockProducer

Threads `starter` (the goroutine StartProducing spawns), `caller`
(Stop/Register from the API) and `guard` (the facade's update loop) run
Start and Stop as procedures, using a `pc` and a return label `ret`:

- Start takes one step per atomic access: `StartCheck` (S1), `StartFlag`
  (S2), `StartProducer` (S3) and `StartCommit` (S4).
- Stop takes two: `StopProducer` (T1) and `StopFlags` (T2).
- The guard runs `GuardOnSyncStart` and `GuardLatch` for a StartEvent.
  For a Done/Failed event it runs `GuardOnSyncDone` (load `shouldStart`,
  line 108; the label D0/D1 holds the local it read) and then
  `GuardClear` (the stores at 110-111, Start, unsubscribe). A user Start
  can fall between the two steps.
  `Post` blocks until delivery, so each event is a one-slot mailbox.

The producer's goroutines and the agents:

- `HandleChainHead` is producer.update.
- `WaitReceive` covers producer.wait. It branches to `WaitSkip`/`WaitWrite`,
  and `WaitCommit` is the `mustCommitNewWork` call.
- `Seal(j)` is the agent sealing goroutine, one per dispatched work.

The environment adds peer blocks (`ImportPeerBlock`) and downloader events
(`SyncStart`, `SyncDone`).

The chain is a sequence of blocks `[num, parent, origin]`. The head follows
longest-chain fork choice. `Canon` gives the canonical block per number,
through the RECURSIVE `AncestorAt`.

`commitNewWork` runs under `mu` and `currentMu`, so it is one step
(`CommitNewWork`). It either succeeds (`CommitOk`: a new block on the head;
if producing, `Shift` and `push`) or aborts at one of its error returns
(`CommitAborted`).

### BlockAssembly

The model has three layers:

- **Cycle.** A cycle starts with `StartCycle`. This is commitNewWork up to
  the loop: the parent state, the pool as read, and the reward transaction
  with nonce = parent number and priority 10. The heap is seeded in a map
  iteration order chosen by `\E` over all permutations, because the Go
  runtime randomises it.
- **Loop.** Each round of `commitTransactions` takes the heap's root:
  - `NonceTooLow` → `Shift`;
  - `NonceTooHigh` → `Pop`;
  - `BeginCall` increments the nonce after the snapshot;
  - `ActionOk`/`ActionFails` run one VM round trip per action;
  - `FinishCall` writes storage and the write cache;
  - `CreateContract` is the contract-creation path;
  - `FinishBlock` runs when Peek returns nil.
- **Block outcome.** The built block is accepted (`AcceptBlock`) or a new
  cycle is built on the same parent (`DropBlock`). The pool is
  spec-modelled: it is not in this repository. Its `PoolReset` runs
  asynchronously.

The heap is Go's `container/heap` over `TxByPriority`, written exactly:
`HeapDown` is `down`, `Heapify` is `heap.Init`, `HeapPop` is `heap.Pop`, and
`ShiftHeads` is root replacement plus `heap.Fix(0)`.

Data abstraction:
- A handler's verdict is part of the transaction (`acts`), because handlers
  are deterministic in the state.
- Storage keys are `<<sender, nonce, action>>`.
- A contract address is `<<sender, nonce>>` (CreateAddress).

### TxScheduler: the scheduler's promise

`TxScheduler` describes the scheduler without a heap. Each account has a
queue of pending transactions, and the loop is offered the next transaction
of some account (`Offered`). The offered transaction must have the highest
priority among all accounts' next transactions. After an offer:

- `Advance` drops the head of that account's queue (Shift);
- `Discard` drops the account's whole queue (Pop);
- `Load` replaces the queues with what is pending, and only once they are
  drained (a new cycle);
- `Refill` lets the pool change without touching the queues.

BlockAssembly maps onto it as follows:

- `SchedQueue` gives an account's heap entry followed by its tail in `txs`.
  An account with no heap entry has an empty queue: Pop leaves `txs[acc]`
  behind, and nothing reads it again.
- `SchedPending` gives the pool's lists plus the reward transaction.

`SchedulerSpec` (the abstract spec as a PROPERTY of ba_core) checks several
things:

- `heap.Init` and `heap.Fix` keep a highest-priority head on top whatever
  the seeding order;
- Shift promotes exactly the sender's next nonce;
- Pop loses nothing but that sender's queue;
- `NewTransactionsByPriorityAndNonce` loads exactly the pool and one reward.

### BalanceContract and Ledger

The contract keeps one JSON record `{"amount": n}` per address in the SDK
store. `store[a]` is that amount, or `Nil` when there is no record. A call's
JSON parameters are a record with a field for each key:
- a field is `Nil` when the key is absent;
- `Junk` is a string that strconv.Atoi cannot parse.

The handlers are operators, each an if-chain in the order of the Go early
returns:
- `TransferBalance`, `TransferFee`, `RewordBlockProducer` and `GetBalance`;
- `Pay` is the part the two transfers share.

`DealAction` is `Vms.DealAction` plus `ContractBalancer.DoFun`.
`RunActions` is TransitionDb's action loop. There are two actions:
- `ApplyTransaction(s, as)` applies a transaction of signer `s`; an error
  reverts it to the snapshot. A transaction of two actions whose second has
  no address is a contract creation (`Create`): its fee action is sent with
  a nil sysparam;
- `ProduceBlock(p)` opens a block by `p`, which is then the coinbase the
  fees go to, and applies the block's reward call.

`SendWork` runs each action on a goroutine without `recover`. A nil action
address, or a nil sysparam reaching the handler's first SDK call
(`ReachesSdk`), panics. `crashed` records that the node process ended;
every action then stops.

`Ledger` is the promise:
- a transaction of `s` keeps the total supply, leaves every balance
  non-negative and lowers no balance but `s`'s;
- only a new block mints, once, the reward to its producer.

The refinement mapping is:
- `balance` is the balances GetBalance reports (0 without a record);
- `height` is the number of blocks;
- `signer` is the signer of the last transaction, a history variable.

### VerifyHeaders

The state is what each goroutine holds:
- `wpc[w]`/`widx[w]`: worker `w` in its `range inputs` loop, verifying an
  index, or sending it on `done`. Workers above
  `min(GOMAXPROCS, len(headers))` are `"none"`.
- `done`: the buffered channel as a sequence, capacity `NumWorkers`.
- `in`, `out`, `checked`: the dispatcher's locals. `inputs` is nil once
  `in` passes the last header.
- `dpc`, `closed`: the dispatcher has returned, and its deferred
  `close(inputs)` has run.
- `aborted`: the caller closed `abort`. `errorsOut`: the verdicts sent.

The unbuffered send `inputs <- in` is one joint step, `Send(w)`, of the
dispatcher and the receiving worker. A worker writes `errors[index]` in
`Verify(w)`, then sends on `done` in `SendDone(w)`. `RecvDone` is the
`done` case of the select, including its flush loop (`Flush`). That loop
only touches the dispatcher's locals and a channel that never blocks, so it
is one step. A header is a record of the outcomes of the checks: whether
its parent is found, whether it is known, whether its number, time and
signature are valid. `verifyHeaderWorker` and `verifyHeader` apply these
in the code's order.

## 3. Runs

| Run | Cfg | Expect | What it shows |
|---|---|---|---|
| bp_core | BlockProducer_core | pass | `TrackedExactlyOnce`: each produced block is tracked once with one agent. `OneShotGuard`: the guard disengages for good. |
| bp_liveness | BlockProducer_liveness | pass | `ProductionProgress`: with the agent running, the head advances up to the bound. `ResumeAfterSync`: a sync that stopped production resumes it, unless the user stopped it. |
| bp_syncrace | BlockProducer_syncrace | violation | `NoProducingWhileSyncing`: Start on its goroutine passes `canStart` before a sync starts and turns production on during the sync. |
| bp_stoprace | BlockProducer_stoprace | violation | `FlagsAgree`: Stop during an in-flight Start leaves `Producing()` false while producing. |
| ba_core | BlockAssembly_core | pass | `BlockNonceOrder`, `Atomicity` (a failed ordinary transaction leaves the state it found when its attempt began, so TransitionDb's snapshot must precede the nonce increment), `CacheMatchesState`, `RewardEveryBlock` (each finished block carries exactly one successful reward for its parent's number), `SchedulerSpec` (the heap refines TxScheduler). |
| ba_terminates | BlockAssembly_terminates | pass | `CycleTerminates`: every transaction loop ends. |
| ba_replay | BlockAssembly_replay | violation | `NoReplay`: a transaction whose action fails is included in the block with its nonce reverted, and the next block includes it again. |
| ba_create | BlockAssembly_create | violation | `Atomicity`: a contract creation whose fee action fails keeps the nonce increment and counts as success. |
| bc_core | BalanceContract_core | pass | `LedgerSpec`: with the calls a wallet sends (`from` is the signer, amounts not negative, no reward call), the contract implements `Ledger`. This covers every error path, self-transfers, absent records, fees to the coinbase and two-action transactions that fail halfway. `TypeOK`: no balance goes negative. |
| vh_core | VerifyHeaders_core | pass | `InOrder`: the i-th verdict on `errorsOut` is header i's own, however workers and `done` reports interleave, aborts included. `Completes`: without an abort, every verdict is delivered and every goroutine ends. |
| bc_create | BalanceContract_create | violation | `NoCrash`: a contract creation whose fee action is a fee from its signer panics on the nil sysparam `Create` passes, and the node process ends. |
| bc_anycaller | BalanceContract_anycaller | violation | `LedgerSpec`: with any parameters, one transfer of amount −1 passes the balance check, leaves the account it debits at −1 and credits the other. Depending on the trace TLC reports, the debited account is the non-signer (from = signer) or the signer itself (from = another account). |

Every property of a passing run has a mutant in `PROJECT.json`: a plausible
bug in the definition it names, under which TLC finds the property
violated.

### Bounds

BlockProducer:

| Bound | Value | Why it is enough |
|---|---|---|
| `MaxBlocks` | 5 | Enough for the tracker depth, which is 5 as in the code. |
| `MaxPeerBlocks` | 1 | One competing peer block gives a side fork. |
| `MaxUserOps` | 2 | One Start and one Stop (or a Register, which cannot then overlap a Start); the Start/Stop and Start/guard races need only two API calls. |
| `MaxSyncRounds` | 2 | A second sync round after the guard disengaged is what `OneShotGuard` needs. |
| `Agents` | `{cpu}` | The node registers exactly one agent, the CpuAgent (blockproducer.go:83). |
| channel capacities | 10 | As in the code. |

BlockAssembly:

| Bound | Value | Why it is enough |
|---|---|---|
| senders | two, plus the reward sender | Two heads plus the reward exercise the heap's sift paths. |
| pending per sender | up to 2 | Shift promotes a tail. |
| start nonces | 0 or 1 | Nonce 1 makes a nonce gap. |
| priorities | {1, 2} | Ties and precedence. |
| action verdicts | `<<ok>>`, `<<err>>`, `<<ok, err>>` | A partial failure after a successful action. |
| cycles | 2 | Pool-reset lag (nonce too low), replay and rebuilds on the same parent. |

BalanceContract:

| Bound | Value | Why it is enough |
|---|---|---|
| `Accounts` | 3 | A signer, a receiver and a third party whose balance must not change. |
| `InitBalances` | no record, or 1 | An absent sender record, an absent receiver record, and an overdraft with amount 2. |
| amounts | 1, 2, unparsable (−1 in `anycaller`) | Enough, overdraft, Atoi's 0, and a negative amount. |
| transactions | one action, or a transfer of 1 and then a second action, or a creation | A second action sees the first one's writes, or fails and reverts them. The creations' fee actions are a fee from the signer (panics), a fee without `from` (fails early) and a self-transfer (succeeds without the SDK). |
| `MaxBlocks`, `MaxTxs` | 2, 3 | Two coinbases, and transactions before and after a fee changes hands. |

VerifyHeaders:

| Bound | Value | Why it is enough |
|---|---|---|
| `MaxHeaders` | 4 (batches of 1 to 4) | Batches shorter than `GOMAXPROCS` take the `len < GOMAXPROCS` branch (fewer workers). Four headers on three workers let `done` fill up, let reports arrive in any order, and make the dispatcher flush several verdicts at once. |
| `MaxProcs` | 3 | Three workers race. |
| header kinds | valid, no parent (`MC_TwoKinds`) | Two distinct verdicts, so a verdict forwarded at the wrong position is seen. The verdict function is not what the run checks. With all four kinds of `MC_HeaderKinds`, 4 headers on 3 workers take 7.9M states, against 524k with two. |

### Fairness

Every goroutine of the program is scheduled by the Go runtime, so each
goroutine's steps are weakly fair:
- the Start/Stop threads;
- the guard;
- producer.update and producer.wait;
- each agent's sealing goroutine;
- commitTransactions, whose VM round trips always answer, because
  `DealActions` always sends.

In VerifyHeaders the dispatcher and every worker are weakly fair. The
caller's abort is not fair.

`SyncDone` is fair because a sync ends by Done or Failed. The user's API
calls and peer blocks are not fair.

`CHECK_DEADLOCK FALSE` is set in every cfg because the node legitimately
idles: no user request, no event, or a bound reached.

## 4. Not modelled

- In BlockAssembly, the balance contract is abstracted to action verdicts.
  BalanceContract models it on its own.
- CheckFee/GetPriority. Priorities are abstract constants in BlockAssembly.
- The JSON encoding of GetBalance's result. A parameter of the wrong JSON
  type fails a Go type assertion and panics, which TLC cannot observe.
- VerifyHeaders after an abort. If the caller closes `abort` while `done`
  is full, the workers blocked on `done <- index` never return. TLC shows
  this when `Completes` is stated without its `[]~aborted` premise. No
  caller in this repository calls VerifyHeaders, so nothing closes abort;
  the run checks only the premise-guarded form. An empty batch (no workers,
  the dispatcher blocks on `inputs <- 0`) is outside the model's batches.
- The single-header `VerifyHeader`, `VerifySeal` (a no-op) and signature
  recovery.
- Late entries in the tracker. A seal result that arrives after a newer
  block was inserted goes behind it in the ring. `Shift` stops at the first
  entry that is not deep enough, so the late entry stays past its depth,
  against spec 4.5 ("evicts every entry whose index + depth <= height").
  The tracker only feeds logs, so no run is spent on it. The nine-block run
  that shows it is `MaxBlocks = 9`, `MaxPeerBlocks = 1`, `MaxUserOps = 1`
  with the invariant `\A i \in DOMAIN window : ~U!Overdue(window[i], lastShift)`.
- Two sealing agents. With a second agent, each result for the same work
  is inserted into the tracker. The node registers only the CpuAgent.
- Block and transaction encoding, signing and hashing.
- Genesis. `Commit` (genesis.go:172-200) makes seven separate writes. A
  crash between `WriteCanonicalHash` and `WriteChainConfig` leaves a stored
  genesis without a config. On restart, `SetupGenesisBlock` repairs this
  only when it is given a nil genesis. The node always passes
  `DefaultGenesisBlock`, and then Setup returns nil without looking further.
  The writes and `NewBlockChain`, which decides what the restarted node
  does, are in the blockchain package. That package is not in this
  repository, and the spec puts genesis construction out of scope.
- The clock. If the parent's timestamp is in the future, commitNewWork
  sleeps until that time while holding `mu` (producer.go:443-447), and
  `verifyHeader` sets no upper bound on a header's time. The models have no
  time, so the sleep is one step.
- Reward-account transactions in the pool. The reward transaction is
  signed with `params.RewordPrikey`, a key every node holds, and its nonce
  is the parent's number (producer.go:491). BlockAssembly assumes the pool
  never holds a transaction signed with that key
  (`ASSUME Reward \notin Senders`): the pool is not in this repository.
  If that account is made a pool sender as well, `heads` gets two entries
  for the account. TLC then finds `RewardEveryBlock` violated in the first
  block: the pool's transaction of the reward account joins the reward in
  the block. After that the account's nonce runs ahead of the height, and
  every later reward fails with `ErrNonceTooLow`.
- The RPC API's nonce handling. SendTransaction and SignTransaction take a
  per-address lock, but only when the caller gives no nonce (api.go:926).
  The lock type `AddrLocker`, the registration that would share one lock
  between the personal_ and mjoy_ APIs, and the pool behind `GetPoolNonce`
  are not in this repository. `submitTransaction` hands the transaction to
  the pool before it recovers the creator's address (api.go:903). If that
  recovery fails, the client gets an error for a transaction that is
  already pending. Both are listed as hazards without a property.
- The pending-block view. `makeCurrent` replaces `producer.current` before
  the steps of commitNewWork that may still fail. An aborted cycle therefore
  leaves `current.Block` nil, and `pendingBlock()` returns nil while
  producing (producer.go:181-207). Before the first cycle `current` is nil
  itself, because the call in `newProducer` is commented out. Nothing in
  this repository queries the pending block, so no run is spent on it; it
  is listed as a hazard.
- Coinbase selection. `StartProducing` calls `Coinbase()`, which always
  resets the coinbase to the first wallet account (backend.go:257-266,
  284). A coinbase set earlier with `SetCoinbase` is lost when production
  starts. Neither function has a caller in this repository.
- A lost user Start after a sync. The guard loads `shouldStart` (line
  108) before it clears it (line 111). A user Start between the two finds
  `canStart = 0` and returns, and then its request is cleared. The model
  explores this window, but no property states that a Start requested
  during a sync is honoured. Such a property would fail, and every run
  slot is in use. It is listed as a hazard.
- The daemon and metrics.
- The validation-side `StateProcessor.Process`.
- The SDK status manager (`core/sdk`) is not in this repository. The model
  assumes that handler writes live in the state that TransitionDb's
  snapshot reverts. So a transaction whose action fails leaves no write
  behind. BlockAssembly keeps these writes in the action results.
  BalanceContract keeps them in `store`, which is reverted.

## 5. Plan

Modules in order of importance. Items 1-6 exist.

1. `BlockProducer` (done): the facade, guard, producer goroutines, agents and
   tracker.
2. `BlockAssembly` (done): the scheduler, commitTransactions, the executor
   and the VM round trip over repeated cycles.
3. `Unconfirmed` (done): the tracker operators.
4. `TxScheduler` (done): the abstract scheduler. BlockAssembly's heap is
   checked to refine it (`SchedulerSpec` in ba_core).
5. `BalanceContract` and `Ledger` (done): the handlers, dispatch and
   TransitionDb's action loop. They are checked to refine the abstract
   ledger. Still left: the contract composed into BlockAssembly's cycles.
6. `VerifyHeaders` (done): parallel workers with ordered output and abort.
7. BlockProducer extensions:
   - an `AgentsRunningIffProducing` property for the Register race;
   - the user-stop-versus-guard-resume question;
   - an abstract producer spec ("produce only when the facade says so")
     with a refinement mapping.
8. Validation replay (`StateProcessor.Process`) composed with BlockAssembly.
   Question: does a block the producer builds replay identically?
