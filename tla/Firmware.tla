------------------------------ MODULE Firmware ------------------------------
(* RandomForest/mqtt/main/app_main.c on the ESP32: the MQTT task of esp-mqtt,*)
(* which delivers requests into mqtt_queue from the event handler and sends *)
(* what the outbox holds, and mqtt_publish_task, which takes a request from *)
(* the queue, predicts, and enqueues the answer in the outbox.  The MQTT    *)
(* task runs each pass of its loop, the event handler included, with the    *)
(* client's api_lock held; esp_mqtt_client_enqueue takes the same lock.     *)
EXTENDS Network

CONSTANTS
  QueueLength,   \* 10, in xQueueCreate
  MaxFaults      \* model bound on faults: lost connections, failed attempts to
                 \* connect, resets, expiries of outbox items

ASSUME FirmwareAssumption ==
  /\ QueueLength \in Nat \ {0}
  /\ MaxFaults \in Nat

VARIABLES
  state,        \* client->state, between two passes of the MQTT task's loop
  lock,         \* the holder of client->api_lock
  mqttTask,     \* where the MQTT task is
  delivering,   \* <<id>> while the event handler is in xQueueSend
  queue,        \* mqtt_queue
  pubTask,      \* where mqtt_publish_task is
  predicting,   \* <<id>> while it holds a request
  outbox,       \* the QUEUED items of client->outbox: the answers
  faults        \* faults so far

firmwareVars == <<state, lock, mqttTask, delivering, queue, pubTask,
                  predicting, outbox, faults>>

FirmwareTypeOK ==
  /\ NetworkTypeOK
  /\ state \in {"init", "connected", "wait"}
  /\ lock \in {"free", "mqtt", "pub"}
  /\ mqttTask \in {"poll", "pass", "deliver", "send"}
  /\ delivering \in Seq(Ids)
  /\ queue \in Seq(Ids)
  /\ pubTask \in {"receive", "enqueue", "locked"}
  /\ predicting \in Seq(Ids)
  /\ outbox \in Seq(Ids)
  /\ faults \in 0..MaxFaults

(* app_main, up to the start of the two tasks.                              *)
Booted ==
  /\ state' = "init"
  /\ lock' = "free"
  /\ mqttTask' = "poll"
  /\ delivering' = <<>>
  /\ queue' = <<>>
  /\ pubTask' = "receive"
  /\ predicting' = <<>>
  /\ outbox' = <<>>

FirmwareInit ==
  /\ state = "init"
  /\ lock = "free"
  /\ mqttTask = "poll"
  /\ delivering = <<>>
  /\ queue = <<>>
  /\ pubTask = "receive"
  /\ predicting = <<>>
  /\ outbox = <<>>
  /\ faults = 0
  /\ toDevice = <<>>
  /\ online = FALSE

Fault ==
  /\ faults < MaxFaults
  /\ faults' = faults + 1

-----------------------------------------------------------------------------
(* The MQTT task: esp_mqtt_task, one pass of its loop after the other.      *)

(* MQTT_API_LOCK, then mqtt_delete_expired_messages: items are in the order *)
(* of their ticks, so those older than 30 s are the first ones.             *)
BeginPass ==
  /\ mqttTask = "poll"
  /\ lock = "free"
  /\ lock' = "mqtt"
  /\ mqttTask' = "pass"
  /\ \/ UNCHANGED <<outbox, faults>>
     \/ /\ \E n \in 1..Len(outbox) : outbox' = SubSeq(outbox, n + 1, Len(outbox))
        /\ Fault
  /\ UNCHANGED <<state, delivering, queue, pubTask, predicting,
                 toDevice, toHost, online>>

(* MQTT_API_UNLOCK, then the poll of the socket or of the status bits.      *)
EndPass ==
  /\ lock' = "free"
  /\ mqttTask' = "poll"

(* MQTT_STATE_INIT: CONNECT is accepted, and the handler of                 *)
(* MQTT_EVENT_CONNECTED subscribes.                                         *)
Connect ==
  /\ mqttTask = "pass"
  /\ state = "init"
  /\ state' = "connected"
  /\ online' = TRUE
  /\ EndPass
  /\ UNCHANGED <<delivering, queue, pubTask, predicting, outbox, faults,
                 toDevice, toHost>>

(* The transport or CONNECT fails: esp_mqtt_abort_connection.               *)
ConnectFails ==
  /\ mqttTask = "pass"
  /\ state = "init"
  /\ Fault
  /\ state' = "wait"
  /\ EndPass
  /\ UNCHANGED <<delivering, queue, pubTask, predicting, outbox,
                 toDevice, toHost, online>>

(* MQTT_STATE_WAIT_RECONNECT when the time to wait is over.                 *)
Reconnect ==
  /\ mqttTask = "pass"
  /\ state = "wait"
  /\ state' = "init"
  /\ EndPass
  /\ UNCHANGED <<delivering, queue, pubTask, predicting, outbox, faults,
                 toDevice, toHost, online>>

(* ... and when it is not.                                                  *)
KeepWaiting ==
  /\ mqttTask = "pass"
  /\ state = "wait"
  /\ EndPass
  /\ UNCHANGED <<state, delivering, queue, pubTask, predicting, outbox, faults,
                 toDevice, toHost, online>>

(* mqtt_process_receive reads one PUBLISH; the handler of MQTT_EVENT_DATA   *)
(* calls xQueueSend with portMAX_DELAY, the lock still held.                *)
Receive ==
  /\ mqttTask = "pass"
  /\ state = "connected"
  /\ toDevice # <<>>
  /\ delivering' = <<Head(toDevice)>>
  /\ toDevice' = Tail(toDevice)
  /\ mqttTask' = "deliver"
  /\ UNCHANGED <<state, lock, queue, pubTask, predicting, outbox, faults,
                 toHost, online>>

(* Nothing to read; with a dead connection the task may not know yet.       *)
ReceiveNothing ==
  /\ mqttTask = "pass"
  /\ state = "connected"
  /\ toDevice = <<>>
  /\ mqttTask' = "send"
  /\ UNCHANGED <<state, lock, delivering, queue, pubTask, predicting, outbox,
                 faults, toDevice, toHost, online>>

(* mqtt_process_receive fails: esp_mqtt_abort_connection.                   *)
ReceiveFails ==
  /\ mqttTask = "pass"
  /\ state = "connected"
  /\ ~online
  /\ state' = "wait"
  /\ EndPass
  /\ UNCHANGED <<delivering, queue, pubTask, predicting, outbox, faults,
                 toDevice, toHost, online>>

(* esp_transport_poll_read fails between two passes.                        *)
PollFails ==
  /\ mqttTask = "poll"
  /\ lock = "free"
  /\ state = "connected"
  /\ ~online
  /\ state' = "wait"
  /\ UNCHANGED <<lock, mqttTask, delivering, queue, pubTask, predicting, outbox,
                 faults, toDevice, toHost, online>>

(* Mutant: xQueueSendToFront.                                               *)
DeliverToFront ==
  /\ mqttTask = "deliver"
  /\ Len(queue) < QueueLength
  /\ queue' = delivering \o queue
  /\ delivering' = <<>>
  /\ mqttTask' = "send"
  /\ UNCHANGED <<state, lock, pubTask, predicting, outbox, faults,
                 toDevice, toHost, online>>

(* xQueueSend returns once the queue has room.                              *)
Deliver ==
  /\ mqttTask = "deliver"
  /\ Len(queue) < QueueLength
  /\ queue' = queue \o delivering
  /\ delivering' = <<>>
  /\ mqttTask' = "send"
  /\ UNCHANGED <<state, lock, pubTask, predicting, outbox, faults,
                 toDevice, toHost, online>>

SendNothing ==
  /\ mqttTask = "send"
  /\ outbox = <<>>
  /\ EndPass
  /\ UNCHANGED <<state, delivering, queue, pubTask, predicting, outbox, faults,
                 toDevice, toHost, online>>

(* Mutant: the item stays in the outbox, as one with QoS 1 would.           *)
SendAndKeep ==
  /\ mqttTask = "send"
  /\ outbox # <<>>
  /\ IF online THEN RouteToHost(Head(outbox)) ELSE UNCHANGED toHost
  /\ EndPass
  /\ UNCHANGED <<state, delivering, queue, pubTask, predicting, outbox, faults,
                 toDevice, online>>

(* outbox_dequeue, mqtt_resend_queued, outbox_delete_item: a QoS 0 item     *)
(* leaves the outbox when it is written to the socket.  On a dead connection*)
(* the write may still succeed, and the answer is lost.                     *)
SendAnswer ==
  /\ mqttTask = "send"
  /\ outbox # <<>>
  /\ IF online THEN RouteToHost(Head(outbox)) ELSE UNCHANGED toHost
  /\ outbox' = Tail(outbox)
  /\ EndPass
  /\ UNCHANGED <<state, delivering, queue, pubTask, predicting, faults,
                 toDevice, online>>

(* The write fails: the item stays, esp_mqtt_abort_connection.              *)
SendFails ==
  /\ mqttTask = "send"
  /\ outbox # <<>>
  /\ ~online
  /\ state' = "wait"
  /\ EndPass
  /\ UNCHANGED <<delivering, queue, pubTask, predicting, outbox, faults,
                 toDevice, toHost, online>>

Pass ==
  \/ Connect \/ ConnectFails \/ Reconnect \/ KeepWaiting
  \/ Receive \/ ReceiveNothing \/ ReceiveFails \/ Deliver
  \/ SendNothing \/ SendAnswer \/ SendFails

-----------------------------------------------------------------------------
(* mqtt_publish_task.                                                       *)

(* xQueueReceive, predict and sprintf: none touches anything shared.        *)
TakeRequest ==
  /\ pubTask = "receive"
  /\ queue # <<>>
  /\ predicting' = <<Head(queue)>>
  /\ queue' = Tail(queue)
  /\ pubTask' = "enqueue"
  /\ UNCHANGED <<state, lock, mqttTask, delivering, outbox, faults,
                 toDevice, toHost, online>>

(* Mutant: esp_mqtt_client_enqueue does not wait for the lock.              *)
EnqueueUnlocked ==
  /\ pubTask = "enqueue"
  /\ lock' = "pub"
  /\ pubTask' = "locked"
  /\ UNCHANGED <<state, mqttTask, delivering, queue, predicting, outbox, faults,
                 toDevice, toHost, online>>

(* esp_mqtt_client_enqueue: MQTT_API_LOCK, with portMAX_DELAY.              *)
LockForEnqueue ==
  /\ pubTask = "enqueue"
  /\ lock = "free"
  /\ lock' = "pub"
  /\ pubTask' = "locked"
  /\ UNCHANGED <<state, mqttTask, delivering, queue, predicting, outbox, faults,
                 toDevice, toHost, online>>

(* outbox_enqueue, MQTT_API_UNLOCK.                                         *)
EnqueueAnswer ==
  /\ pubTask = "locked"
  /\ outbox' = outbox \o predicting
  /\ predicting' = <<>>
  /\ lock' = "free"
  /\ pubTask' = "receive"
  /\ UNCHANGED <<state, mqttTask, delivering, queue, faults,
                 toDevice, toHost, online>>

-----------------------------------------------------------------------------
(* The surroundings.                                                        *)

(* Wi-Fi or the broker drops the connection; the task learns of it later.   *)
LoseConnection ==
  /\ online
  /\ Fault
  /\ DropSession
  /\ UNCHANGED <<state, lock, mqttTask, delivering, queue, pubTask, predicting,
                 outbox, toHost>>

(* The ESP32 is flashed again, as README.md advises, or restarts.           *)
Reset ==
  /\ Fault
  /\ DropSession
  /\ Booted
  /\ UNCHANGED toHost

FirmwareNext ==
  \/ BeginPass \/ Pass \/ PollFails
  \/ TakeRequest \/ LockForEnqueue \/ EnqueueAnswer
  \/ LoseConnection \/ Reset

-----------------------------------------------------------------------------
(* Properties.                                                              *)

(* The api_lock is what keeps the two tasks apart: its holder is the task   *)
(* inside its critical section, and never both are.  The event handler      *)
(* waits for the queue inside it.                                           *)
LockDiscipline ==
  /\ lock = "mqtt" <=> mqttTask # "poll"
  /\ lock = "pub" <=> pubTask = "locked"
  /\ delivering # <<>> <=> mqttTask = "deliver"
  /\ predicting # <<>> <=> pubTask # "receive"

(* The requests the device has accepted and not yet sent an answer to, the  *)
(* oldest first, wherever they are.                                         *)
Pipeline == outbox \o predicting \o queue \o delivering \o toDevice

(* The MQTT task waits for room in the queue with the lock held, and the    *)
(* only task that makes room waits for the lock.                            *)
Deadlocked ==
  /\ mqttTask = "deliver"
  /\ Len(queue) = QueueLength
  /\ pubTask = "enqueue"

NoDeadlock == ~Deadlocked
=============================================================================
