--------------------------- MODULE MC_VerifyHeaders ---------------------------
(***************************************************************************)
(* Headers for VerifyHeaders.  MC_HeaderKinds: one passes, one is already *)
(* known, one has no parent, one has a bad time stamp (four verdicts).     *)
(* MC_TwoKinds: a header that passes and one without a parent; two        *)
(* distinct verdicts are enough for a verdict out of place to show.       *)
(***************************************************************************)
EXTENDS VerifyHeaders

Good == [parent |-> TRUE, known |-> FALSE, numberOk |-> TRUE, timeOk |-> TRUE, sigOk |-> TRUE]

MC_HeaderKinds ==
  {Good,
   [Good EXCEPT !.known = TRUE, !.timeOk = FALSE],
   [Good EXCEPT !.parent = FALSE],
   [Good EXCEPT !.timeOk = FALSE]}

MC_TwoKinds == {Good, [Good EXCEPT !.parent = FALSE]}

=============================================================================
