---------------------------- MODULE VerifyHeaders ----------------------------
(***************************************************************************)
(* Engine_basic.VerifyHeaders (consensus/basic_engine.go): a batch of      *)
(* headers is verified by min(GOMAXPROCS, len) worker goroutines fed by a  *)
(* dispatcher goroutine over the unbuffered channel `inputs`; a worker     *)
(* writes its verdict to errors[index] and reports the index on `done`     *)
(* (buffered to the number of workers); the dispatcher marks it checked    *)
(* and forwards the verdicts in header order on `errorsOut` (buffered to   *)
(* len), returns after the last one or when the caller closes `abort`, and *)
(* closes `inputs` on return, which ends the workers' range loops.         *)
(*                                                                         *)
(* Header indices are 1-based here (Go's index i is i+1).  A header is a   *)
(* record of the outcomes of the checks verifyHeaderWorker and             *)
(* verifyHeader make on it: whether its parent is found, whether the chain *)
(* already knows it, whether its number, time and signature are valid.     *)
(***************************************************************************)
EXTENDS Naturals, Sequences

CONSTANTS
  Nil,          \* a nil error
  HeaderKinds,  \* the headers a batch may hold (records, see Verdict)
  MaxHeaders,   \* bound on len(headers)
  MaxProcs      \* runtime.GOMAXPROCS(0)

ASSUME MaxHeaders >= 1 /\ MaxProcs >= 1

VARIABLES
  headers,   \* the batch
  errors,    \* errors[i]: the verdict a worker wrote for header i
  wpc,       \* wpc[w]: where worker w is ("range", "verify", "done", "exited", "none")
  widx,      \* widx[w]: the index worker w received
  done,      \* the `done` channel, a sequence of indices
  in,        \* the dispatcher's next index to send; `inputs` is nil past len
  out,       \* the next index the dispatcher forwards
  checked,   \* checked[i]: the dispatcher received i on `done`
  dpc,       \* the dispatcher: "select" or "returned"
  closed,    \* `inputs` is closed
  aborted,   \* the caller has closed `abort`
  errorsOut  \* the verdicts forwarded on `errorsOut`, in order

vars == <<headers, errors, wpc, widx, done, in, out, checked, dpc, closed,
          aborted, errorsOut>>

Procs == 1..MaxProcs

N == Len(headers)

\* workers = min(GOMAXPROCS, len(headers)) (basic_engine.go:127-130).
NumWorkers == IF N < MaxProcs THEN N ELSE MaxProcs

\* verifyHeader (basic_engine.go:81-105): a known header passes, then the
\* number, the time and the signature are checked in that order.
verifyHeader(h) ==
  IF h.known THEN Nil
  ELSE IF ~h.numberOk THEN "ErrInvalidNumber"
  ELSE IF ~h.timeOk THEN "ErrBlockTime"
  ELSE IF ~h.sigOk THEN "ErrSignature"
  ELSE Nil

\* verifyHeaderWorker (basic_engine.go:107-121): the parent of the first
\* header comes from the chain, of any other the header before it when the
\* hashes link; no parent is ErrUnknownAncestor.
verifyHeaderWorker(hs, i) ==
  IF ~hs[i].parent THEN "ErrUnknownAncestor"
  ELSE IF hs[i].known THEN Nil
  ELSE verifyHeader(hs[i])

\* The setup of VerifyHeaders (lines 127-147): the channels are empty, the
\* workers wait in their range loops, the dispatcher in its select.
Init ==
  /\ headers \in UNION {[1..n -> HeaderKinds] : n \in 1..MaxHeaders}
  /\ errors = [i \in 1..N |-> Nil]
  /\ wpc = [w \in Procs |-> IF w <= NumWorkers THEN "range" ELSE "none"]
  /\ widx = [w \in Procs |-> 0]
  /\ done = <<>>
  /\ in = 1
  /\ out = 1
  /\ checked = [i \in 1..N |-> FALSE]
  /\ dpc = "select"
  /\ closed = FALSE
  /\ aborted = FALSE
  /\ errorsOut = <<>>

(***************************************************************************)
(* Worker goroutine (lines 139-144).                                       *)
(***************************************************************************)

\* Mutant: the `if in++; in == len(headers) { inputs = nil }` end check
\* left out, so indices past the batch are handed to the workers.
SendNoEnd(w) ==
  /\ dpc = "select"
  /\ wpc[w] = "range"
  /\ wpc' = [wpc EXCEPT ![w] = "verify"]
  /\ widx' = [widx EXCEPT ![w] = in]
  /\ in' = in + 1
  /\ UNCHANGED <<headers, errors, done, out, checked, dpc, closed, aborted,
                 errorsOut>>

\* The case `inputs <- in` of the select meets worker w's receive; after
\* the last index the dispatcher's copy of `inputs` is nil (lines 157-161).
Send(w) ==
  /\ dpc = "select"
  /\ in <= N
  /\ wpc[w] = "range"
  /\ wpc' = [wpc EXCEPT ![w] = "verify"]
  /\ widx' = [widx EXCEPT ![w] = in]
  /\ in' = in + 1
  /\ UNCHANGED <<headers, errors, done, out, checked, dpc, closed, aborted,
                 errorsOut>>

\* errors[index] = basic.verifyHeaderWorker(...)
Verify(w) ==
  /\ wpc[w] = "verify"
  /\ errors' = [errors EXCEPT ![widx[w]] = verifyHeaderWorker(headers, widx[w])]
  /\ wpc' = [wpc EXCEPT ![w] = "done"]
  /\ UNCHANGED <<headers, widx, done, in, out, checked, dpc, closed, aborted,
                 errorsOut>>

\* done <- index: blocks while `done` holds NumWorkers indices.
SendDone(w) ==
  /\ wpc[w] = "done"
  /\ Len(done) < NumWorkers
  /\ done' = Append(done, widx[w])
  /\ wpc' = [wpc EXCEPT ![w] = "range"]
  /\ UNCHANGED <<headers, errors, widx, in, out, checked, dpc, closed, aborted,
                 errorsOut>>

\* The range loop ends once `inputs` is closed.
Exit(w) ==
  /\ wpc[w] = "range"
  /\ closed
  /\ wpc' = [wpc EXCEPT ![w] = "exited"]
  /\ UNCHANGED <<headers, errors, widx, done, in, out, checked, dpc, closed,
                 aborted, errorsOut>>

(***************************************************************************)
(* Dispatcher goroutine (lines 148-173).                                   *)
(***************************************************************************)

\* The flush loop of the `done` case (lines 163-168) from out on: forward
\* errors[out] while checked[out] holds; after the last header return.
RECURSIVE FlushNoReturn(_, _, _)
\* Mutant: the `if out == len(headers)-1 { return }` left out.
FlushNoReturn(chk, o, em) ==
  IF ~chk[o] THEN [out |-> o, sent |-> em, ret |-> FALSE]
  ELSE IF o = Len(chk) THEN [out |-> o, sent |-> Append(em, errors[o]), ret |-> FALSE]
  ELSE FlushNoReturn(chk, o + 1, Append(em, errors[o]))

RECURSIVE Flush(_, _, _)
Flush(chk, o, em) ==
  IF ~chk[o] THEN [out |-> o, sent |-> em, ret |-> FALSE]
  ELSE IF o = Len(chk) THEN [out |-> o, sent |-> Append(em, errors[o]), ret |-> TRUE]
  ELSE Flush(chk, o + 1, Append(em, errors[o]))

\* Mutant: the verdict is forwarded as soon as its index arrives, without
\* the checked/out reordering.
RecvDoneUnordered ==
  /\ dpc = "select"
  /\ done # <<>>
  /\ checked' = [checked EXCEPT ![Head(done)] = TRUE]
  /\ errorsOut' = Append(errorsOut, errors[Head(done)])
  /\ done' = Tail(done)
  /\ dpc' = IF Len(errorsOut') = N THEN "returned" ELSE dpc
  /\ closed' = (dpc' = "returned")
  /\ UNCHANGED <<headers, errors, wpc, widx, in, out, aborted>>

\* The case `index := <-done`; a return closes `inputs` (defer, line 149).
RecvDone ==
  /\ dpc = "select"
  /\ done # <<>>
  /\ LET chk == [checked EXCEPT ![Head(done)] = TRUE]
         f == Flush(chk, out, <<>>)
     IN /\ checked' = chk
        /\ out' = f.out
        /\ errorsOut' = errorsOut \o f.sent
        /\ dpc' = IF f.ret THEN "returned" ELSE dpc
        /\ closed' = f.ret
  /\ done' = Tail(done)
  /\ UNCHANGED <<headers, errors, wpc, widx, in, aborted>>

\* The case `<-abort` returns at once.
RecvAbort ==
  /\ dpc = "select"
  /\ aborted
  /\ dpc' = "returned"
  /\ closed' = TRUE
  /\ UNCHANGED <<headers, errors, wpc, widx, done, in, out, checked, aborted,
                 errorsOut>>

\* The caller closes the abort channel it was handed, at any time.
Abort ==
  /\ ~aborted
  /\ aborted' = TRUE
  /\ UNCHANGED <<headers, errors, wpc, widx, done, in, out, checked, dpc,
                 closed, errorsOut>>

Worker(w) == Verify(w) \/ SendDone(w) \/ Exit(w)

Dispatcher == (\E w \in Procs : Send(w)) \/ RecvDone \/ RecvAbort

Next == (\E w \in Procs : Worker(w)) \/ Dispatcher \/ Abort

\* Every goroutine runs when it can; the caller need not abort.
Fairness == (\A w \in Procs : WF_vars(Worker(w))) /\ WF_vars(Dispatcher)

Spec == Init /\ [][Next]_vars /\ Fairness

(***************************************************************************)
(* Properties                                                              *)
(***************************************************************************)

TypeOK ==
  /\ N \in 1..MaxHeaders
  /\ wpc \in [Procs -> {"range", "verify", "done", "exited", "none"}]
  /\ widx \in [Procs -> 0..N]
  /\ done \in Seq(1..N)
  /\ in \in 1..N + 1 /\ out \in 1..N
  /\ checked \in [1..N -> BOOLEAN]
  /\ dpc \in {"select", "returned"}
  /\ closed \in BOOLEAN /\ aborted \in BOOLEAN
  /\ Len(errorsOut) <= N

\* The caller reads the verdicts in header order: the i-th value received
\* from errorsOut is the verdict of header i, however the workers'
\* verifications and `done` reports interleave (the checked/out loop of
\* the dispatcher, and each worker's write of errors[index] before it
\* sends the index on `done`).
InOrder ==
  \A i \in 1..Len(errorsOut) : errorsOut[i] = verifyHeaderWorker(headers, i)

\* Unless the caller aborts, every header's verdict is delivered and all
\* goroutines end: the dispatcher returns after the last header and its
\* deferred close(inputs) ends every worker's range loop.
Completes ==
  []~aborted => <>(/\ Len(errorsOut) = N
                   /\ dpc = "returned"
                   /\ \A w \in Procs : wpc[w] \in {"exited", "none"})

=============================================================================
