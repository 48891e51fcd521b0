---------------------------- MODULE MCEvalRunner ----------------------------
(* EvalRunner for TLC.  The bounds of each run are in its .cfg. *)
EXTENDS EvalRunner, TLC
=============================================================================
