\* Up to four headers on three processors (fewer workers for shorter
\* batches); two header kinds whose verdicts differ.
CONSTANTS
  Nil = Nil
  HeaderKinds <- MC_TwoKinds
  MaxHeaders = 4
  MaxProcs = 3
SPECIFICATION Spec
INVARIANT TypeOK InOrder
PROPERTY Completes
CHECK_DEADLOCK FALSE
