--------------------------- MODULE BlockProducer ---------------------------
(***************************************************************************)
(* The block-production core of mjoy-go (src/.../mjoy.io/blockproducer):  *)
(*   - the Blockproducer facade (blockproducer.go): Start, Stop, Register, *)
(*     Unregister and the one-shot downloader guard `update`;              *)
(*   - the producer (producer.go): start/stop/register under `mu`, the     *)
(*     chain-head loop `update`, the result loop `wait`, commitNewWork     *)
(*     and push;                                                           *)
(*   - the sealing agents (CpuAgent, not in this repository: modelled     *)
(*     from the spec), the chain store and the downloader, as the         *)
(*     environment the producer runs in.                                   *)
(*                                                                         *)
(* Goroutines: the facade's API callers (a `go Start(...)` goroutine from *)
(* Mjoy.StartProducing and a synchronous caller of Stop/Register), the    *)
(* guard goroutine, producer.update, producer.wait, one sealing goroutine *)
(* per dispatched work, the peer-block importer and the downloader.       *)
(* Start and Stop are not atomic: each atomic load/store or locked section *)
(* is one step, and a thread's position is pc[t].                         *)
(***************************************************************************)
EXTENDS Integers, Sequences, FiniteSets

CONSTANTS
  Agents,            \* sealing agents (model values)
  CpuAgent,          \* the agent New() registers (blockproducer.go:83)
  Nil,               \* a nil *Result on the return channel
  NoHeader,          \* GetHeaderByNumber found no header
  Depth,             \* producingLogAtDepth (producer.go:51)
  ResultQueueSize,   \* resultQueueSize, capacity of producer.recv (producer.go:50)
  ChainHeadChanSize, \* chainHeadChanSize (producer.go:57)
  MaxBlocks,         \* bound: blocks ever created (works and peer blocks)
  MaxPeerBlocks,     \* bound: blocks imported from peers
  MaxUserOps,        \* bound: API calls (Start, Stop, Register, Unregister)
  MaxSyncRounds,     \* bound: downloader sync rounds
  CycleCanFail,      \* may StateAt/Pending/Finalize/WriteBlockAndState fail?
  SealCanFail        \* may an agent return a nil result?

ASSUME CpuAgent \in Agents
ASSUME MaxBlocks \in Nat \ {0}

U == INSTANCE Unconfirmed

\* The facade's threads: the `go Start()` goroutine, a synchronous API
\* caller, and the downloader guard `Blockproducer.update`.
Starter == "starter"
Caller  == "caller"
Guard   == "guard"
Threads == {Starter, Caller, Guard}

VARIABLES
  bpProducing,   \* Blockproducer.producing
  canStart,      \* Blockproducer.canStart
  shouldStart,   \* Blockproducer.shouldStart
  pc,            \* position of each facade thread
  ret,           \* where a thread continues after Start or Stop returns
  regAgent,      \* the agent the caller is registering
  prodProducing, \* producer.producing
  atWork,        \* producer.atWork
  registered,    \* keys of producer.agents
  running,       \* agents whose Start() was called and not Stop()
  headEvents,    \* ChainHeadEvents queued in producer.chainHeadCh
  recv,          \* producer.recv, results from agents
  mustCommit,    \* wait()'s local mustCommitNewWork
  waitPc,        \* "recv" or "commit": where wait() is
  jobs,          \* <<agent, work>>: dispatched works being sealed
  blocks,        \* every block ever built: id -> [num, parent, origin]
  head,          \* id of the canonical head (chain.CurrentBlock())
  written,       \* ids written to the chain store
  window,        \* unconfirmed.blocks
  classified,    \* history: entries Shift has evicted, with their verdict
  lastShift,     \* history: height of the last Shift call
  syncing,       \* the downloader is between StartEvent and Done/Failed
  syncRounds,    \* sync rounds so far
  syncMail,      \* the event being posted to the guard (TypeMux.Post blocks)
  userOps,       \* API calls so far
  userStopped    \* history: the caller's Stop returned after the last Start

facade   == <<bpProducing, canStart, shouldStart, pc, ret, regAgent>>
producer == <<prodProducing, atWork, registered, running, headEvents, recv,
              mustCommit, waitPc, jobs>>
chain    == <<blocks, head, written, window, classified, lastShift>>
env      == <<syncing, syncRounds, syncMail, userOps, userStopped>>
vars     == <<facade, producer, chain, env>>

Labels == {"idle", "S1", "S2", "S3", "S4", "T1", "T2", "R2", "latch", "D0", "D1",
           "exited"}

-----------------------------------------------------------------------------
(* The chain store (not in this repository).                               *)

Num(b) == blocks[b].num
HeadNum == Num(head)

RECURSIVE AncestorAt(_, _)
\* The ancestor of block b at number n (n <= Num(b)).
AncestorAt(b, n) == IF Num(b) = n THEN b ELSE AncestorAt(blocks[b].parent, n)

\* GetHeaderByNumber over the canonical chain, as a function of numbers.
Canon == [n \in 0..MaxBlocks |-> IF n <= HeadNum THEN AncestorAt(head, n)
                                 ELSE NoHeader]

PeerBlocks == {b \in 1..Len(blocks) : blocks[b].origin = "peer"}
LocalWritten == {b \in written : blocks[b].origin = "local"}

\* WriteBlockAndState / InsertChain fork choice: a block becomes the head
\* iff it is longer than the current head (equal difficulty per block).
BecomesHead(b) == Num(b) > HeadNum

-----------------------------------------------------------------------------
(* producer.commitNewWork (producer.go:427-519), run under mu and         *)
(* currentMu, hence one step.  The parent is the current head; the work's *)
(* block (Finalize) gets a new id.  If producing, unconfirmed.Shift(n-1)  *)
(* and push, which adds one to atWork per registered agent and hands the *)
(* work to every started agent (a stopped agent drops it).  A failing     *)
(* StateAt, Pending or Finalize aborts the cycle with nothing done.       *)

Push(w) ==
  /\ atWork' = atWork + Cardinality(registered)
  /\ jobs' = jobs \cup {<<a, w>> : a \in registered \cap running}

CommitOk ==
  LET w == Len(blocks) + 1
      n == HeadNum + 1
  IN /\ Len(blocks) < MaxBlocks
     /\ blocks' = Append(blocks, [num |-> n, parent |-> head, origin |-> "local"])
     /\ IF prodProducing = 1
          THEN /\ window' = U!Shift(window, n - 1)
               /\ classified' = classified \o U!Classify(window, n - 1, Canon)
               /\ lastShift' = n - 1
               /\ Push(w)
          ELSE UNCHANGED <<window, classified, lastShift, atWork, jobs>>

CommitAborted ==
  /\ CycleCanFail \/ Len(blocks) = MaxBlocks
  /\ UNCHANGED <<blocks, window, classified, lastShift, atWork, jobs>>

CommitNewWork == CommitOk \/ CommitAborted

-----------------------------------------------------------------------------
(* Init: the state New() leaves (blockproducer.go:74-87, producer.go:138- *)
(* 168): canStart = 1, nothing producing, the CpuAgent registered but not *)
(* started, the chain at genesis.                                          *)

Init ==
  /\ bpProducing = 0
  /\ canStart = 1
  /\ shouldStart = 0
  /\ pc = [t \in Threads |-> "idle"]
  /\ ret = [t \in Threads |-> "idle"]
  /\ regAgent = CpuAgent
  /\ prodProducing = 0
  /\ atWork = 0
  /\ registered = {CpuAgent}
  /\ running = {}
  /\ headEvents = 0
  /\ recv = <<>>
  /\ mustCommit = TRUE
  /\ waitPc = "recv"
  /\ jobs = {}
  /\ blocks = <<[num |-> 0, parent |-> 1, origin |-> "genesis"]>>
  /\ head = 1
  /\ written = {1}
  /\ window = <<>>
  /\ classified = <<>>
  /\ lastShift = 0
  /\ syncing = FALSE
  /\ syncRounds = 0
  /\ syncMail = <<>>
  /\ userOps = 0
  /\ userStopped = FALSE

Goto(t, l) == pc' = [pc EXCEPT ![t] = l]
Call(t, l, r) == pc' = [pc EXCEPT ![t] = l] /\ ret' = [ret EXCEPT ![t] = r]
Return(t) == pc' = [pc EXCEPT ![t] = ret[t]]

-----------------------------------------------------------------------------
(* Blockproducer.Start (blockproducer.go:124-139), one step per atomic    *)
(* access or locked call.                                                  *)

\* shouldStart := 1, set the coinbase; return at once if canStart = 0.
StartCheck(t) ==
  /\ pc[t] = "S1"
  /\ shouldStart' = 1
  /\ IF canStart = 0 THEN Return(t) ELSE Goto(t, "S2")
  /\ userStopped' = (userStopped /\ t # Starter)
  /\ UNCHANGED <<bpProducing, canStart, ret, regAgent, producer, chain,
                 syncing, syncRounds, syncMail, userOps>>

\* atomic.StoreInt32(&self.producing, 1)
StartFlag(t) ==
  /\ pc[t] = "S2"
  /\ bpProducing' = 1
  /\ Goto(t, "S3")
  /\ UNCHANGED <<canStart, shouldStart, ret, regAgent, producer, chain, env>>

\* producer.start() under mu (producer.go:209-219).
StartProducer(t) ==
  /\ pc[t] = "S3"
  /\ prodProducing' = 1
  /\ running' = running \cup registered
  /\ Goto(t, "S4")
  /\ UNCHANGED <<bpProducing, canStart, shouldStart, ret, regAgent, atWork,
                 registered, headEvents, recv, mustCommit, waitPc, jobs,
                 chain, env>>

\* (mutation) Start returns without a first commitNewWork.
StartCommitNoWork(t) ==
  /\ pc[t] = "S4"
  /\ Return(t)
  /\ UNCHANGED <<bpProducing, canStart, shouldStart, ret, regAgent, producer,
                 chain, env>>

\* producer.commitNewWork(), then Start returns.
StartCommit(t) ==
  /\ pc[t] = "S4"
  /\ CommitNewWork
  /\ Return(t)
  /\ UNCHANGED <<bpProducing, canStart, shouldStart, ret, regAgent,
                 prodProducing, registered, running, headEvents, recv,
                 mustCommit, waitPc, head, written, env>>

(* Blockproducer.Stop (blockproducer.go:141-145).                          *)

\* producer.stop() under mu (producer.go:221-233); wg is never added to.
StopProducer(t) ==
  /\ pc[t] = "T1"
  /\ running' = IF prodProducing = 1 THEN running \ registered ELSE running
  /\ prodProducing' = 0
  /\ atWork' = 0
  /\ Goto(t, "T2")
  /\ UNCHANGED <<bpProducing, canStart, shouldStart, ret, regAgent,
                 registered, headEvents, recv, mustCommit, waitPc, jobs,
                 chain, env>>

\* producing := 0; shouldStart := 0; Stop returns.
StopFlags(t) ==
  /\ pc[t] = "T2"
  /\ bpProducing' = 0
  /\ shouldStart' = 0
  /\ Return(t)
  /\ userStopped' = (userStopped \/ t = Caller)
  /\ UNCHANGED <<canStart, ret, regAgent, producer, chain,
                 syncing, syncRounds, syncMail, userOps>>

-----------------------------------------------------------------------------
(* The API callers.  Mjoy.StartProducing runs `go Start(eb)`              *)
(* (backend.go:306); Stop, Register and Unregister are called             *)
(* synchronously.                                                          *)

StartRequest ==
  /\ pc[Starter] = "idle"
  /\ userOps < MaxUserOps
  /\ userOps' = userOps + 1
  /\ Call(Starter, "S1", "idle")
  /\ UNCHANGED <<bpProducing, canStart, shouldStart, regAgent, producer,
                 chain, syncing, syncRounds, syncMail, userStopped>>

StopRequest ==
  /\ pc[Caller] = "idle"
  /\ userOps < MaxUserOps
  /\ userOps' = userOps + 1
  /\ Call(Caller, "T1", "idle")
  /\ UNCHANGED <<bpProducing, canStart, shouldStart, regAgent, producer,
                 chain, syncing, syncRounds, syncMail, userStopped>>

\* Register (blockproducer.go:147-152): start the agent if Producing(),
\* then producer.register under mu.
RegisterRequest(a) ==
  /\ pc[Caller] = "idle"
  /\ userOps < MaxUserOps
  /\ a \notin registered
  /\ userOps' = userOps + 1
  /\ regAgent' = a
  /\ running' = IF bpProducing = 1 THEN running \cup {a} ELSE running
  /\ Goto(Caller, "R2")
  /\ UNCHANGED <<bpProducing, canStart, shouldStart, ret, prodProducing,
                 atWork, registered, headEvents, recv, mustCommit, waitPc,
                 jobs, chain, syncing, syncRounds, syncMail, userStopped>>

RegisterAgent ==
  /\ pc[Caller] = "R2"
  /\ registered' = registered \cup {regAgent}
  /\ Goto(Caller, "idle")
  /\ UNCHANGED <<bpProducing, canStart, shouldStart, ret, regAgent,
                 prodProducing, atWork, running, headEvents, recv, mustCommit,
                 waitPc, jobs, chain, env>>

\* producer.unregister under mu (producer.go:242-247): delete, agent.Stop().
Unregister(a) ==
  /\ pc[Caller] = "idle"
  /\ userOps < MaxUserOps
  /\ a \in registered
  /\ userOps' = userOps + 1
  /\ registered' = registered \ {a}
  /\ running' = running \ {a}
  /\ UNCHANGED <<facade, prodProducing, atWork, headEvents, recv, mustCommit,
                 waitPc, jobs, chain, syncing, syncRounds, syncMail,
                 userStopped>>

-----------------------------------------------------------------------------
(* The one-shot downloader guard Blockproducer.update                      *)
(* (blockproducer.go:95-122).  It reads one event at a time from its       *)
(* TypeMux subscription; Post blocks until the event is read.              *)

\* StartEvent: canStart := 0; if Producing(), Stop() then shouldStart := 1.
GuardOnSyncStart ==
  /\ pc[Guard] = "idle"
  /\ syncMail = <<"start">>
  /\ syncMail' = <<>>
  /\ canStart' = 0
  /\ IF bpProducing = 1 THEN Call(Guard, "T1", "latch") ELSE UNCHANGED <<pc, ret>>
  /\ UNCHANGED <<bpProducing, shouldStart, regAgent, producer, chain,
                 syncing, syncRounds, userOps, userStopped>>

GuardLatch ==
  /\ pc[Guard] = "latch"
  /\ shouldStart' = 1
  /\ Goto(Guard, "idle")
  /\ UNCHANGED <<bpProducing, canStart, ret, regAgent, producer, chain, env>>

\* DoneEvent or FailedEvent: the guard takes the event and loads
\* shouldStart into its local (line 108); the label records what it read.
\* (mutation) shouldStart is read after it is cleared.
GuardOnSyncDoneReadsCleared ==
  /\ pc[Guard] = "idle"
  /\ syncMail = <<"done">>
  /\ syncMail' = <<>>
  /\ Goto(Guard, "D0")
  /\ UNCHANGED <<bpProducing, canStart, shouldStart, ret, regAgent, producer,
                 chain, syncing, syncRounds, userOps, userStopped>>

GuardOnSyncDone ==
  /\ pc[Guard] = "idle"
  /\ syncMail = <<"done">>
  /\ syncMail' = <<>>
  /\ Goto(Guard, IF shouldStart = 1 THEN "D1" ELSE "D0")
  /\ UNCHANGED <<bpProducing, canStart, shouldStart, ret, regAgent, producer,
                 chain, syncing, syncRounds, userOps, userStopped>>

\* (mutation) the loop goes on listening instead of unsubscribing.
GuardClearStaysSubscribed ==
  /\ pc[Guard] \in {"D0", "D1"}
  /\ canStart' = 1
  /\ shouldStart' = 0
  /\ IF pc[Guard] = "D1" THEN Call(Guard, "S1", "idle")
                          ELSE Goto(Guard, "idle") /\ UNCHANGED ret
  /\ UNCHANGED <<bpProducing, regAgent, producer, chain, env>>

\* canStart := 1, shouldStart := 0, Start() if the local was set, then
\* unsubscribe and leave the loop (lines 110-119).  A user Start between
\* the load and these stores sets shouldStart, finds canStart = 0 and
\* returns; the store here then clears its request.
GuardClear ==
  /\ pc[Guard] \in {"D0", "D1"}
  /\ canStart' = 1
  /\ shouldStart' = 0
  /\ IF pc[Guard] = "D1" THEN Call(Guard, "S1", "exited")
                          ELSE Goto(Guard, "exited") /\ UNCHANGED ret
  /\ UNCHANGED <<bpProducing, regAgent, producer, chain, env>>

-----------------------------------------------------------------------------
(* producer.update (producer.go:249-290): each ChainHeadEvent runs        *)
(* commitNewWork.  TxPreEvents are read and ignored.                       *)

HandleChainHead ==
  /\ headEvents > 0
  /\ headEvents' = headEvents - 1
  /\ CommitNewWork
  /\ UNCHANGED <<facade, prodProducing, registered, running, recv, mustCommit,
                 waitPc, head, written, env>>

(* producer.wait (producer.go:292-349).  mustCommitNewWork is set to true *)
(* once, before the inner `for result := range self.recv` loop, and the   *)
(* inner loop never ends: once a canonical block is written it stays      *)
(* false for the life of the producer.                                     *)

\* Receive one result: atWork -= 1; skip nil; WriteBlockAndState (which may
\* fail: log and continue); post the ChainHeadEvent if the block became the
\* head; unconfirmed.Insert(number, hash).

\* GetHeaderByNumber once block r has been written.
CanonAfterWrite(r) ==
  LET h == IF BecomesHead(r) THEN r ELSE head
  IN [n \in 0..MaxBlocks |-> IF n <= Num(h) THEN AncestorAt(h, n) ELSE NoHeader]

\* (mutation) a failed write is still tracked as produced.
WaitSkipTracked(r) ==
  /\ r = Nil \/ CycleCanFail
  /\ IF r # Nil
       THEN /\ window' = U!Insert(window, Num(r), r)
            /\ classified' = classified \o U!Classify(window, Num(r), Canon)
            /\ lastShift' = Num(r)
       ELSE UNCHANGED <<window, classified, lastShift>>
  /\ UNCHANGED <<mustCommit, waitPc, headEvents, blocks, head, written>>

\* A nil result, or a failed WriteBlockAndState: `continue`.
WaitSkip(r) ==
  /\ r = Nil \/ CycleCanFail
  /\ UNCHANGED <<mustCommit, waitPc, headEvents, chain>>

WaitWrite(r) ==
  /\ r # Nil
  /\ written' = written \cup {r}
  /\ IF BecomesHead(r)
       THEN /\ headEvents < ChainHeadChanSize
            /\ head' = r
            /\ headEvents' = headEvents + 1
            /\ mustCommit' = FALSE
       ELSE UNCHANGED <<head, headEvents, mustCommit>>
  /\ window' = U!Insert(window, Num(r), r)
  /\ classified' = classified \o U!Classify(window, Num(r), CanonAfterWrite(r))
  /\ lastShift' = Num(r)
  /\ waitPc' = IF mustCommit' THEN "commit" ELSE "recv"
  /\ UNCHANGED blocks

WaitReceive ==
  /\ waitPc = "recv"
  /\ recv # <<>>
  /\ recv' = Tail(recv)
  /\ atWork' = atWork - 1
  /\ WaitSkip(Head(recv)) \/ WaitWrite(Head(recv))
  /\ UNCHANGED <<facade, prodProducing, registered, running, jobs, env>>

WaitCommit ==
  /\ waitPc = "commit"
  /\ waitPc' = "recv"
  /\ CommitNewWork
  /\ UNCHANGED <<facade, prodProducing, registered, running, headEvents, recv,
                 mustCommit, head, written, env>>

-----------------------------------------------------------------------------
(* Sealing agents (CpuAgent; modelled from the spec).  Each dispatched    *)
(* work is sealed by its own goroutine, which sends a Result, or nil on a *)
(* Seal error, on the shared return channel; sends block while recv is    *)
(* full.  Stopping an agent does not recall works already dispatched.     *)

Seal(j) ==
  /\ Len(recv) < ResultQueueSize
  /\ jobs' = jobs \ {j}
  /\ \/ recv' = Append(recv, j[2])
     \/ SealCanFail /\ recv' = Append(recv, Nil)
  /\ UNCHANGED <<facade, prodProducing, atWork, registered, running,
                 headEvents, mustCommit, waitPc, chain, env>>

-----------------------------------------------------------------------------
(* Environment: blocks from peers (InsertChain) and the downloader.       *)

ImportPeerBlock ==
  \E p \in written :
    /\ Num(p) + 1 >= HeadNum
    /\ Len(blocks) < MaxBlocks
    /\ Cardinality(PeerBlocks) < MaxPeerBlocks
    /\ LET b == Len(blocks) + 1 IN
       /\ blocks' = Append(blocks, [num |-> Num(p) + 1, parent |-> p, origin |-> "peer"])
       /\ written' = written \cup {b}
       /\ IF Num(p) + 1 > HeadNum
            THEN /\ headEvents < ChainHeadChanSize
                 /\ head' = b
                 /\ headEvents' = headEvents + 1
            ELSE UNCHANGED <<head, headEvents>>
    /\ UNCHANGED <<facade, prodProducing, atWork, registered, running, recv,
                   mustCommit, waitPc, jobs, window, classified, lastShift, env>>

\* The downloader posts StartEvent; once the guard has unsubscribed the
\* post reaches nobody.
SyncStart ==
  /\ ~syncing
  /\ syncRounds < MaxSyncRounds
  /\ syncMail = <<>>
  /\ syncing' = TRUE
  /\ syncMail' = IF pc[Guard] = "exited" THEN <<>> ELSE <<"start">>
  /\ UNCHANGED <<facade, producer, chain, syncRounds, userOps, userStopped>>

\* DoneEvent or FailedEvent (the guard treats them alike).
SyncDone ==
  /\ syncing
  /\ syncMail = <<>>
  /\ syncing' = FALSE
  /\ syncRounds' = syncRounds + 1
  /\ syncMail' = IF pc[Guard] = "exited" THEN <<>> ELSE <<"done">>
  /\ UNCHANGED <<facade, producer, chain, userOps, userStopped>>

-----------------------------------------------------------------------------
ThreadStep(t) ==
  \/ StartCheck(t) \/ StartFlag(t) \/ StartProducer(t) \/ StartCommit(t)
  \/ StopProducer(t) \/ StopFlags(t)

Next ==
  \/ \E t \in Threads : ThreadStep(t)
  \/ StartRequest \/ StopRequest \/ RegisterAgent
  \/ \E a \in Agents : RegisterRequest(a) \/ Unregister(a)
  \/ GuardOnSyncStart \/ GuardLatch \/ GuardOnSyncDone \/ GuardClear
  \/ HandleChainHead \/ WaitReceive \/ WaitCommit
  \/ \E j \in jobs : Seal(j)
  \/ ImportPeerBlock \/ SyncStart \/ SyncDone

\* Every goroutine of the program is scheduled by the Go runtime, so each
\* of its enabled steps eventually runs: the facade threads, the guard, the
\* two producer loops and the sealing goroutines.  The downloader always
\* ends a sync (Done or Failed).  API calls, peer blocks and new syncs are
\* up to the environment and carry no fairness.
Fairness ==
  /\ \A t \in Threads : WF_vars(ThreadStep(t))
  /\ WF_vars(RegisterAgent)
  /\ WF_vars(GuardOnSyncStart) /\ WF_vars(GuardLatch) /\ WF_vars(GuardOnSyncDone)
  /\ WF_vars(GuardClear)
  /\ WF_vars(HandleChainHead) /\ WF_vars(WaitReceive) /\ WF_vars(WaitCommit)
  /\ \A a \in Agents, w \in 1..MaxBlocks : WF_vars(<<a, w>> \in jobs /\ Seal(<<a, w>>))
  /\ WF_vars(SyncDone)

Spec == Init /\ [][Next]_vars /\ Fairness


-----------------------------------------------------------------------------
(* Properties.                                                             *)

\* No thread is inside Start, Stop or Register.
Quiescent == \A t \in Threads : pc[t] \in {"idle", "exited"}

\* unconfirmed.go, producer.go:342 and spec section 8: every block this
\* node produced and wrote to the chain is reported exactly once: it is
\* either still in the unconfirmed window or has been evicted and
\* classified, never both, never twice, and nothing else is tracked.
TrackedExactlyOnce ==
  /\ \A b \in LocalWritten :
       Cardinality({i \in DOMAIN window : window[i].hash = b})
         + Cardinality({i \in DOMAIN classified : classified[i].hash = b}) = 1
  /\ \A i \in DOMAIN window : window[i].hash \in LocalWritten

\* blockproducer.go:89-122: the guard is one-shot.  Once the first sync
\* has ended and the guard has acted on its Done/Failed, the guard has
\* unsubscribed: no later StartEvent can clear canStart and hold
\* production back again.
OneShotGuard ==
  (syncRounds > 0 /\ syncMail = <<>> /\ pc[Guard] \notin {"D0", "D1"}) => canStart = 1

\* While producing with the CpuAgent started, the Start/commitNewWork ->
\* agent -> wait -> ChainHeadEvent -> update -> commitNewWork cycle keeps
\* extending the chain: from any such state the head eventually grows,
\* unless production stops or the block bound is reached.
Steady == prodProducing = 1 /\ CpuAgent \in registered \cap running
ProductionProgress ==
  \A k \in 0..MaxBlocks :
    (Steady /\ HeadNum = k) ~> (HeadNum > k \/ ~Steady \/ Len(blocks) = MaxBlocks)

\* blockproducer.go:100-114: when a sync start stopped production, the
\* sync's end restarts it, unless the user stopped production meanwhile.
ResumeAfterSync ==
  (pc[Guard] = "latch") ~> (prodProducing = 1 \/ userStopped)

\* Spec 4.1: while a sync is outstanding production is force-stopped: once
\* the guard has taken the StartEvent and no API call is in flight, the
\* producer is not producing.
NoProducingWhileSyncing ==
  (pc[Guard] = "idle" /\ canStart = 0 /\ Quiescent) => prodProducing = 0

\* Blockproducer.Producing() reports the producer's state once no Start or
\* Stop is in flight.
FlagsAgree == Quiescent => bpProducing = prodProducing

=============================================================================
