---------------------------- MODULE Unconfirmed ----------------------------
(***************************************************************************)
(* The set of locally produced blocks awaiting confirmation                *)
(* (blockproducer/unconfirmed.go).  The Go code keeps a container/ring of  *)
(* unconfirmedBlock{index, hash}; here the ring is a sequence whose head   *)
(* is the ring's current element, so "set.blocks.Move(-1).Link(item)"      *)
(* (append at the end) is Append and unlinking the current element is     *)
(* Tail.                                                                    *)
(*                                                                         *)
(* The canonical chain is passed in as a function `canon` from block       *)
(* numbers to the canonical block's hash, or NoHeader when                 *)
(* GetHeaderByNumber finds no header at that number.                       *)
(***************************************************************************)
EXTENDS Naturals, Sequences

CONSTANTS
  Depth,     \* producingLogAtDepth (producer.go:51), 5 in the code
  NoHeader   \* GetHeaderByNumber returned nil

ASSUME Depth \in Nat \ {0}

\* The three log lines of Shift (unconfirmed.go:107-114).
Verdicts == {"lost", "canonical", "sidefork"}

\* An entry is too old to keep once index + depth <= height
\* (the loop's exit test at unconfirmed.go:101 negated).
Overdue(e, height) == e.index + Depth <= height

\* Classification of an evicted entry against the canonical chain.
Verdict(e, canon) ==
  IF e.index \notin DOMAIN canon \/ canon[e.index] = NoHeader THEN "lost"
  ELSE IF canon[e.index] = e.hash THEN "canonical"
  ELSE "sidefork"

\* Shift pops from the front of the ring while the front entry is overdue
\* and stops at the first fresh one: the evicted entries are the longest
\* overdue prefix of the window.
EvictCount(w, height) ==
  CHOOSE k \in 0..Len(w) :
    /\ \A i \in 1..k : Overdue(w[i], height)
    /\ k < Len(w) => ~Overdue(w[k + 1], height)

\* unconfirmedBlocks.Shift(height): the window left after the loop.
Shift(w, height) == SubSeq(w, EvictCount(w, height) + 1, Len(w))

\* The entries Shift(height) classifies, in eviction order, each with the
\* verdict it logs.
Classify(w, height, canon) ==
  [i \in 1..EvictCount(w, height) |->
     [index |-> w[i].index, hash |-> w[i].hash, verdict |-> Verdict(w[i], canon)]]

\* unconfirmedBlocks.Insert(index, hash): Shift(index) first, then append.
Insert(w, index, hash) ==
  Append(Shift(w, index), [index |-> index, hash |-> hash])

=============================================================================
