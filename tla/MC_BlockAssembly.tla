------------------------- MODULE MC_BlockAssembly -------------------------
(* Model-checking instance of BlockAssembly: two senders, the reward     *)
(* sender, and small sets of action verdicts.                             *)
EXTENDS BlockAssembly

MC_ActLists == {<<"ok">>, <<"err">>, <<"ok", "err">>}
MC_ActListsOk == {<<"ok">>, <<"ok", "ok">>}
=============================================================================
