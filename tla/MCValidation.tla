---------------------------- MODULE MCValidation ----------------------------
(* Module Validation for TLC: a run over three rows with a window of two,   *)
(* started after a run whose answers to rows 0 and 1 may still arrive.      *)
EXTENDS Validation

MCStale == {<<>>, <<1>>, <<1, 0>>}

(* The broker delivers nothing from before the run.                         *)
MCNoStale == {<<>>}
=============================================================================
