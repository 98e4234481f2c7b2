----------------------------- MODULE Collection -----------------------------
(* What a validation run promises to whoever reads its report: the rows are *)
(* issued in order, at most Window of them at a time are without a          *)
(* prediction, each prediction is collected once, and the report is made    *)
(* when every row has one.                                                  *)
EXTENDS Naturals, FiniteSets

CONSTANTS Rows, Window

VARIABLES
  issued,      \* how many rows have been sent at least once
  collected,   \* the rows that have a prediction
  reported     \* the report has been made

CollectionInit ==
  /\ issued = 0
  /\ collected = {}
  /\ reported = FALSE

Issue ==
  /\ issued < Rows
  /\ Cardinality((0..(issued - 1)) \ collected) < Window
  /\ issued' = issued + 1
  /\ UNCHANGED <<collected, reported>>

CollectRow ==
  /\ \E r \in (0..(issued - 1)) \ collected : collected' = collected \cup {r}
  /\ UNCHANGED <<issued, reported>>

MakeReport ==
  /\ collected = 0..(Rows - 1)
  /\ reported' = TRUE
  /\ UNCHANGED <<issued, collected>>

CollectionNext == Issue \/ CollectRow \/ MakeReport

CollectionSpec ==
  CollectionInit /\ [][CollectionNext]_<<issued, collected, reported>>
=============================================================================
