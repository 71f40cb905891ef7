------------------------------ MODULE MCTasks ------------------------------
(***************************************************************************)
(* What the jobs of Tasks may be.                                          *)
(***************************************************************************)
EXTENDS Tasks

\* Two jobs of one store, or one of each; a job of the clock or none.
MCKinds == {<<"retrain", "drift">>, <<"beat", "loop">>}
=============================================================================
