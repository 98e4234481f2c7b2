------------------------------ MODULE MCSystem ------------------------------
(* Module System for TLC, with small queues and windows.                    *)
EXTENDS System

(* The broker delivers nothing from before the run.                         *)
MCNoStale == {<<>>}
=============================================================================
