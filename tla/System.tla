------------------------------- MODULE System -------------------------------
(* The validation setup as it runs: the script of module Driver and the     *)
(* firmware of module Firmware, joined by the broker of module Network.     *)
EXTENDS Driver, Firmware

CONSTANT
  MaxCopies    \* model bound: no retransmission while this many requests and
               \* answers are on their way

ASSUME SystemAssumption == MaxCopies \in Nat

vars == <<driverVars, firmwareVars, toDevice, toHost, online>>

Init == DriverInit /\ FirmwareInit

TypeOK == DriverTypeOK /\ FirmwareTypeOK

Room == Len(Pipeline) + Len(toHost) < MaxCopies

ScriptStep ==
  /\ Main \/ OnMessage
  /\ UNCHANGED firmwareVars

TimerStep(r) ==
  /\ \/ Expire(r)
     \/ Room /\ Resend(r)
     \/ Rearm(r)
  /\ UNCHANGED firmwareVars

FirmwareStep == FirmwareNext /\ UNCHANGED driverVars

Next ==
  \/ ScriptStep
  \/ \E r \in Ids : TimerStep(r)
  \/ FirmwareStep

Spec == Init /\ [][Next]_vars

(* The system as long as every answer comes within ANSWER_TIMEOUT_S, so     *)
(* that no timer of the script fires.                                       *)
PromptSpec == Init /\ [][ScriptStep \/ FirmwareStep]_vars

-----------------------------------------------------------------------------
(* Fairness: every thread and task runs, a broken connection is noticed (by *)
(* a read, a write or the keepalive at the latest), the time to wait before *)
(* a reconnection passes, and a task that waits for the api_lock gets it, if*)
(* it is free again and again: the MQTT task leaves it free while it polls  *)
(* the socket.                                                              *)
Fairness ==
  /\ WF_vars(Main /\ UNCHANGED firmwareVars)
  /\ WF_vars(OnMessage /\ UNCHANGED firmwareVars)
  /\ \A r \in Ids :
       /\ WF_vars(Expire(r) /\ UNCHANGED firmwareVars)
       /\ SF_vars(Room /\ Resend(r) /\ UNCHANGED firmwareVars)
       /\ WF_vars(Rearm(r) /\ UNCHANGED firmwareVars)
  /\ WF_vars((BeginPass \/ Pass) /\ UNCHANGED driverVars)
  /\ SF_vars(Reconnect /\ UNCHANGED driverVars)
  /\ SF_vars((ReceiveFails \/ SendFails \/ PollFails) /\ UNCHANGED driverVars)
  /\ WF_vars(TakeRequest /\ UNCHANGED driverVars)
  /\ SF_vars(LockForEnqueue /\ UNCHANGED driverVars)
  /\ WF_vars(EnqueueAnswer /\ UNCHANGED driverVars)

FairSpec == Spec /\ Fairness

-----------------------------------------------------------------------------
(* Properties.                                                              *)

(* The device with its two tasks, its queue and its outbox is the FIFO      *)
(* server the script was checked against in module Validation: a request    *)
(* keeps its place in line from the socket to the outbox, is answered once, *)
(* and what expires or dies with the connection is one end of that line.    *)
Abstract == INSTANCE Validation WITH toDevice <- Pipeline

ImplementsValidation == Abstract!Spec

(* Requests and answers on their way, with the one on_message is handling.  *)
Travelling ==
  Len(Pipeline) + Len(toHost) + (IF handler \in {"found", "cancelled"} THEN 1 ELSE 0)

(* As long as no timer fires, each message on its way belongs to another    *)
(* row the script waits for: the window of the script also limits the load  *)
(* of the device, its queue and its outbox.                                 *)
LoadWithinWindow == Travelling <= Outstanding

(* As long as no timer fires, predictions are recorded in the order of the  *)
(* rows, faults or not.                                                     *)
RecordedInOrder ==
  \A j, k \in DOMAIN results : j < k => results[j] < results[k]

(* Every validation run ends, whatever connections break and resets happen, *)
(* unless the device locks itself up.                                       *)
FinishesOrDeadlocks == <>(main = "done" \/ Deadlocked)

(* The header of esp-mqtt says of esp_mqtt_client_enqueue that it can serve *)
(* as a non-blocking version of esp_mqtt_client_publish: mqtt_publish_task  *)
(* always comes back from it.                                               *)
EnqueueReturns == pubTask = "enqueue" ~> pubTask = "receive"
=============================================================================
