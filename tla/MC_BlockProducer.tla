------------------------- MODULE MC_BlockProducer -------------------------
(* Model-checking instance of BlockProducer: the agent and sentinel       *)
(* constants are model values given in the .cfg files.                     *)
EXTENDS BlockProducer

\* The history and counters only grow within the named bounds; this
\* constraint keeps TLC from exploring beyond the block bound.
Bounded == Len(blocks) <= MaxBlocks
=============================================================================
