----------------------------- MODULE Validation -----------------------------
(* The validation run: the script of module Driver against a device that    *)
(* keeps no more than the promise of module EchoDevice.  toDevice holds the *)
(* requests from their publication until the device has answered them.      *)
EXTENDS Driver

CONSTANT
  MaxCopies    \* model bound: no retransmission while this many requests and
               \* answers travel

ASSUME ValidationAssumption == MaxCopies \in Nat

Device == INSTANCE EchoDevice WITH Id <- Ids, pending <- toDevice

vars == <<main, row, sent, timer, handler, answer, index, results,
          toDevice, toHost, online>>

Init ==
  /\ DriverInit
  /\ toDevice = <<>>
  /\ online \in BOOLEAN

Room == Len(toDevice) + Len(toHost) < MaxCopies

DeviceAnswers ==
  /\ Device!Answer
  /\ UNCHANGED <<driverVars, online>>

(* Messages are lost, the device leaves or comes back.                      *)
DeviceLoses ==
  /\ Device!Lose
  /\ online' \in BOOLEAN
  /\ UNCHANGED driverVars

Timers(r) ==
  \/ Expire(r)
  \/ Room /\ Resend(r)
  \/ Rearm(r)

Next ==
  \/ Main
  \/ OnMessage
  \/ \E r \in Ids : Timers(r)
  \/ DeviceAnswers
  \/ DeviceLoses

Spec == Init /\ [][Next]_vars

-----------------------------------------------------------------------------
(* The promise of the run.  A row counts as issued from its publication, and*)
(* as collected from the moment on_message has taken it out of sent.        *)

Promise == INSTANCE Collection WITH
  issued    <- IF main \in {"append", "start"} THEN row + 1 ELSE row,
  collected <- Recorded,
  reported  <- main \in {"report", "done"}

(* The three kinds of threads, the retransmissions and the losses together  *)
(* keep the promise: rows are issued in order within the window, collected  *)
(* once each, and reported only when all are collected.                     *)
KeepsPromise == Promise!CollectionSpec
=============================================================================
