----------------------------- MODULE Lifecycle -----------------------------
(* The life of an esp-mqtt client: esp_mqtt_task and the functions that     *)
(* start, stop, disconnect, reconnect and destroy it from other threads.    *)
(* api_lock is held by the task for a whole pass of its loop; a function    *)
(* that takes it is one action.  disconnect(), reconnect() and the last     *)
(* steps of the task take no lock.  Ticks are abstracted: a wait may be     *)
(* over or not.                                                             *)
EXTENDS Integers, FiniteSets

CONSTANTS
  Tasks,        \* bound: the MQTT tasks esp_mqtt_client_start may create
  Settings,     \* clients: records of the four operators below
  AppWaits      \* whether the application starts a client once until it has
                \* stopped it, and stops and destroys one whose task has sent
                \* an event and is not ending by itself

ASSUME LifecycleAssumption ==
  Settings \subseteq
    [autoReconnect : BOOLEAN, publishFails : BOOLEAN, five : BOOLEAN, maxRequests : Nat]

VARIABLES
  setting,   \* which client this is
  state,     \* client->state
  run,       \* client->run
  bits,      \* client->status_bits
  hurry,     \* client->wait_timeout_ms is 0
  open,      \* the transport is connected
  task,      \* where each task is
  lock,      \* the task that holds api_lock, if any
  seen,      \* tasks that have dispatched an event
  drops,     \* MQTT_EVENT_DISCONNECTED since MQTT_EVENT_BEFORE_CONNECT, 2 for more
  owner,     \* the thread that starts, stops and destroys
  other,     \* the thread that disconnects, reconnects and publishes
  requests,  \* calls it has made
  asked      \* reconnect() returned ESP_OK and no attempt followed yet

lifecycleVars == <<setting, state, run, bits, hurry, open, task, lock, seen, drops,
          owner, other, requests, asked>>
apis == <<owner, other, requests>>

AutoReconnect == setting.autoReconnect  \* config->auto_reconnect
PublishFails == setting.publishFails    \* another thread publishes and may fail to write
ProtocolFive == setting.five            \* the protocol is MQTT 5
MaxRequests == setting.maxRequests      \* bound: calls of disconnect() and reconnect()

(* A pass holds the lock from its head on: "connecting" while the client    *)
(* connects; once it is connected, where the pass is behind its receiving.  *)
Passing == {"pass", "connecting", "resending", "releasing", "keeping", "refreshing"}
TaskPc == Passing \cup {"none", "created", "starting", "loop", "polling", "waiting",
                       "closing", "closed", "ended", "done"}
Alive == {t \in Tasks : task[t] \notin {"none", "done"}}

LifecycleTypeOK ==
  /\ setting \in Settings
  /\ state \in {"init", "disconnected", "connected", "wait"}
  /\ {run, hurry, open, asked} \subseteq BOOLEAN
  /\ bits \subseteq {"stopped", "reconnect", "disconnect"}
  /\ task \in [Tasks -> TaskPc]
  /\ lock = {t \in Tasks : task[t] \in Passing}
  /\ Cardinality(lock) <= 1
  /\ seen \subseteq Tasks
  /\ drops \in 0..2
  /\ owner \in {"ready", "running", "stopping", "stopped", "destroying", "destroyed"}
  /\ other \in {"idle", "reconnecting"}
  /\ requests \in 0..MaxRequests

LifecycleInit ==
  /\ setting \in Settings
  /\ state = "init"
  /\ run = FALSE /\ hurry = FALSE /\ open = FALSE /\ asked = FALSE
  /\ bits = {} /\ lock = {} /\ seen = {}
  /\ drops = 0 /\ requests = 0
  /\ task = [t \in Tasks |-> "none"]
  /\ owner = "ready" /\ other = "idle"

Goto(t, pc) == task' = [task EXCEPT ![t] = pc]

(* MQTT_EVENT_DISCONNECTED is dispatched.                                   *)
ReportDisconnected == drops' = IF drops < 2 THEN drops + 1 ELSE 2

(* Mutant: the state stays as it was.                                       *)
AbortKeepsState(next) ==
  /\ open' = FALSE
  /\ hurry' = FALSE
  /\ state' = state
  /\ ReportDisconnected

(* esp_mqtt_abort_connection, with the event it dispatches.                 *)
Abort(next) ==
  /\ open' = FALSE
  /\ hurry' = FALSE
  /\ state' = next
  /\ ReportDisconnected

-----------------------------------------------------------------------------
(* esp_mqtt_task.                                                           *)

TaskRuns(t) ==
  /\ task[t] = "created"
  /\ run' = TRUE
  /\ state' = "init"
  /\ Goto(t, "starting")
  /\ UNCHANGED <<bits, hurry, open, lock, seen, drops, apis, asked>>

(* Mutant: the bit of the task before is left.                              *)
TaskKeepsStopped(t) ==
  /\ task[t] = "starting"
  /\ Goto(t, "loop")
  /\ UNCHANGED <<state, run, bits, hurry, open, lock, seen, drops, apis, asked>>

TaskClearsStopped(t) ==
  /\ task[t] = "starting"
  /\ bits' = bits \ {"stopped"}
  /\ Goto(t, "loop")
  /\ UNCHANGED <<state, run, hurry, open, lock, seen, drops, apis, asked>>

(* The head of the loop, and the end of it when run is false.               *)
BeginPass(t) ==
  /\ task[t] = "loop"
  /\ \/ /\ run /\ lock = {}
        /\ lock' = {t}
        /\ Goto(t, "pass")
     \/ /\ ~run
        /\ UNCHANGED lock
        /\ Goto(t, "closing")
  /\ UNCHANGED <<state, run, bits, hurry, open, seen, drops, apis, asked>>

(* The end of a pass: unlock, and poll the transport of a connected client. *)
EndPass(t, s) ==
  /\ lock' = {}
  /\ Goto(t, IF s = "connected" THEN "polling" ELSE "loop")

PassDisconnected(t) ==
  /\ task[t] = "pass" /\ state = "disconnected"
  /\ EndPass(t, state)
  /\ UNCHANGED <<state, run, bits, hurry, open, seen, drops, apis, asked>>

PassInit(t) ==
  /\ task[t] = "pass" /\ state = "init"
  /\ bits' = bits \ {"reconnect", "disconnect"}
  /\ Goto(t, "connecting")
  /\ seen' = seen \cup {t}   \* MQTT_EVENT_BEFORE_CONNECT
  /\ drops' = 0 /\ asked' = FALSE
  /\ UNCHANGED <<state, run, hurry, open, lock, apis>>

NoTransport(t) ==
  /\ task[t] = "pass" /\ state = "init"
  /\ bits' = bits \ {"reconnect", "disconnect"}
  /\ run' = FALSE
  /\ EndPass(t, state)
  /\ UNCHANGED <<state, hurry, open, seen, drops, apis, asked>>

Connect(t) ==
  /\ task[t] = "connecting"
  /\ \/ /\ state' = "connected" /\ open' = TRUE
        /\ UNCHANGED <<hurry, drops>>
     \/ Abort("wait")
  /\ EndPass(t, state')
  /\ UNCHANGED <<run, bits, seen, apis, asked>>

(* Mutant: the bit is read and left set.                                    *)
PassDisconnectIgnored(t) ==
  /\ task[t] = "pass" /\ state = "connected"
  /\ "disconnect" \in bits
  /\ EndPass(t, state)
  /\ UNCHANGED <<state, run, bits, hurry, open, seen, drops, apis, asked>>

PassDisconnect(t) ==
  /\ task[t] = "pass" /\ state = "connected"
  /\ "disconnect" \in bits
  /\ bits' = bits \ {"disconnect"}
  /\ Abort("wait")
  /\ EndPass(t, state')
  /\ UNCHANGED <<run, seen, apis, asked>>

(* mqtt_process_receive: a failure ends the pass.  A DISCONNECT of an MQTT 5*)
(* broker is reported, and the connection stays as it is.                   *)
PassReceives(t) ==
  /\ task[t] = "pass" /\ state = "connected"
  /\ "disconnect" \notin bits
  /\ \/ /\ Goto(t, "resending")
        /\ UNCHANGED drops \/ (ProtocolFive /\ ReportDisconnected)
        /\ UNCHANGED <<state, hurry, open, lock>>
     \/ Abort("wait") /\ EndPass(t, state')
  /\ UNCHANGED <<run, bits, seen, apis, asked>>

(* What the outbox has to send is sent.  When that fails the connection is  *)
(* aborted and the pass goes on: a PUBREL is sent again after a PUBLISH,    *)
(* over a transport that is closed by now or not.                           *)
Sends(t, pc, next) ==
  /\ task[t] = pc
  /\ UNCHANGED <<state, hurry, open, drops>> \/ Abort("wait")
  /\ Goto(t, next)
  /\ UNCHANGED <<run, bits, lock, seen, apis, asked>>
PassResends(t) == Sends(t, "resending", "releasing")
PassReleases(t) == Sends(t, "releasing", "keeping")

(* process_keepalive: no PINGRESP, or no PINGREQ that can be written.       *)
PassKeepsAlive(t) ==
  /\ task[t] = "keeping"
  /\ \/ Goto(t, "refreshing") /\ UNCHANGED <<state, hurry, open, drops, lock>>
     \/ Abort("wait") /\ EndPass(t, state')
  /\ UNCHANGED <<run, bits, seen, apis, asked>>

(* refresh_connection_after_ms may be over, connected or not.               *)
PassRefreshes(t) ==
  /\ task[t] = "refreshing"
  /\ UNCHANGED <<state, hurry, open, drops>> \/ Abort("init")
  /\ EndPass(t, state')
  /\ UNCHANGED <<run, bits, seen, apis, asked>>

WaitOver(t) ==
  /\ task[t] = "pass" /\ state = "wait"
  /\ \/ /\ ~AutoReconnect /\ "reconnect" \in bits
        /\ bits' = bits \ {"reconnect"}
        /\ hurry' = FALSE
     \/ AutoReconnect /\ UNCHANGED <<bits, hurry>>
  /\ state' = "init"
  /\ EndPass(t, state')
  /\ UNCHANGED <<run, open, seen, drops, apis, asked>>

(* Mutant: the lock is kept while the task waits.                           *)
KeepWaitingLocked(t) ==
  /\ task[t] = "pass" /\ state = "wait"
  /\ IF AutoReconnect THEN ~hurry ELSE "reconnect" \notin bits
  /\ Goto(t, "waiting")
  /\ UNCHANGED <<state, run, bits, hurry, open, lock, seen, drops, apis, asked>>

KeepWaiting(t) ==
  /\ task[t] = "pass" /\ state = "wait"
  /\ IF AutoReconnect THEN ~hurry ELSE "reconnect" \notin bits
  /\ lock' = {}
  /\ Goto(t, "waiting")
  /\ UNCHANGED <<state, run, bits, hurry, open, seen, drops, apis, asked>>

Wakes(t) ==
  /\ task[t] = "waiting"
  /\ Goto(t, "loop")
  /\ UNCHANGED <<state, run, bits, hurry, open, lock, seen, drops, apis, asked>>

(* The poll ends with data or a timeout, or fails.                          *)
Poll(t) ==
  /\ task[t] = "polling"
  /\ Goto(t, "loop")
  /\ \/ UNCHANGED <<state, hurry, open, drops>>
     \/ lock = {} /\ Abort("wait")
  /\ UNCHANGED <<run, bits, lock, seen, apis, asked>>

TaskCloses(t) ==
  /\ task[t] = "closing"
  /\ open' = FALSE
  /\ Goto(t, "closed")
  /\ UNCHANGED <<state, run, bits, hurry, lock, seen, drops, apis, asked>>

TaskSetsState(t) ==
  /\ task[t] = "closed"
  /\ state' = "disconnected"
  /\ Goto(t, "ended")
  /\ UNCHANGED <<run, bits, hurry, open, lock, seen, drops, apis, asked>>

(* The last thing the task does with the client.                            *)
TaskEnds(t) ==
  /\ task[t] = "ended"
  /\ bits' = bits \cup {"stopped"}
  /\ Goto(t, "done")
  /\ UNCHANGED <<state, run, hurry, open, lock, seen, drops, apis, asked>>

Task(t) ==
  \/ TaskRuns(t) \/ TaskClearsStopped(t) \/ BeginPass(t)
  \/ PassDisconnected(t) \/ PassInit(t) \/ NoTransport(t) \/ Connect(t)
  \/ PassDisconnect(t) \/ PassReceives(t) \/ PassResends(t) \/ PassReleases(t)
  \/ PassKeepsAlive(t) \/ PassRefreshes(t)
  \/ WaitOver(t) \/ KeepWaiting(t) \/ Wakes(t) \/ Poll(t)
  \/ TaskCloses(t) \/ TaskSetsState(t) \/ TaskEnds(t)

-----------------------------------------------------------------------------
(* The application.                                                         *)

Settled == AppWaits => Alive \subseteq seen /\ (run \/ Alive = {})
MayStart == owner \in {"ready", "stopped"} \cup (IF AppWaits THEN {} ELSE {"running"})

(* esp_mqtt_client_start.                                                   *)
Start ==
  /\ MayStart
  /\ lock = {}
  /\ state \in {"init", "disconnected"}
  /\ \E t \in Tasks : task[t] = "none" /\ Goto(t, "created")
  /\ owner' = "running"
  /\ UNCHANGED <<state, run, bits, hurry, open, lock, seen, drops, other, requests, asked>>

(* esp_mqtt_client_stop, called also by esp_mqtt_client_destroy: when run   *)
(* is false it returns at once, ESP_FAIL for the one and on for the other.  *)
Stop ==
  /\ owner \in {"ready", "running", "stopped"} /\ Settled
  /\ lock = {} /\ run
  /\ run' = FALSE
  /\ state' = "disconnected"
  /\ owner' \in {"stopping", "destroying"}
  /\ UNCHANGED <<bits, hurry, open, task, lock, seen, drops, other, requests, asked>>

StopReturns ==
  /\ owner \in {"stopping", "destroying"}
  /\ "stopped" \in bits
  /\ owner' = IF owner = "stopping" THEN "stopped" ELSE "destroyed"
  /\ UNCHANGED <<state, run, bits, hurry, open, task, lock, seen, drops, other, requests, asked>>

DestroyIdle ==
  /\ owner \in {"ready", "running", "stopped"} /\ Settled
  /\ ~run
  /\ owner' = "destroyed"
  /\ UNCHANGED <<state, run, bits, hurry, open, task, lock, seen, drops, other, requests, asked>>

(* esp_mqtt_client_disconnect and esp_mqtt_client_reconnect take no lock;   *)
(* reconnect() looks at the state first and sets the bit later.             *)
Disconnect ==
  /\ other = "idle" /\ owner # "destroyed" /\ requests < MaxRequests
  /\ bits' = bits \cup {"disconnect"}
  /\ requests' = requests + 1
  /\ UNCHANGED <<state, run, hurry, open, task, lock, seen, drops, owner, other, asked>>

ReconnectLooks ==
  /\ other = "idle" /\ owner # "destroyed" /\ requests < MaxRequests
  /\ state = "wait"
  /\ other' = "reconnecting"
  /\ requests' = requests + 1
  /\ UNCHANGED <<state, run, bits, hurry, open, task, lock, seen, drops, owner, asked>>

ReconnectSets ==
  /\ other = "reconnecting"
  /\ hurry' = TRUE
  /\ bits' = bits \cup {"reconnect"}
  /\ other' = "idle"
  /\ asked' = TRUE
  /\ UNCHANGED <<state, run, open, task, lock, seen, drops, owner, requests>>

(* esp_mqtt_client_publish on another thread: the write fails.              *)
PublishAborts ==
  /\ PublishFails /\ owner # "destroyed"
  /\ lock = {} /\ state = "connected"
  /\ Abort("wait")
  /\ UNCHANGED <<run, bits, task, lock, seen, apis, asked>>

LifecycleNext ==
  /\ UNCHANGED setting
  /\ \/ \E t \in Tasks : Task(t)
     \/ Start \/ Stop \/ StopReturns \/ DestroyIdle
     \/ Disconnect \/ ReconnectLooks \/ ReconnectSets \/ PublishAborts

Lives(A) == A /\ UNCHANGED setting

(* FreeRTOS runs the task; a wait for the reconnection ends some time; the  *)
(* threads that called a function go on.                                    *)
LifecycleSpec ==
  /\ LifecycleInit /\ [][LifecycleNext]_lifecycleVars
  /\ \A t \in Tasks : WF_lifecycleVars(Lives(Task(t))) /\ SF_lifecycleVars(Lives(WaitOver(t)))
  /\ WF_lifecycleVars(Lives(StopReturns)) /\ WF_lifecycleVars(Lives(ReconnectSets))

-----------------------------------------------------------------------------
(* Properties.                                                              *)

(* A client has one MQTT task at a time, however often it is started.       *)
OneTask == Cardinality(Alive) <= 1

(* When stop() has returned ESP_OK, or the client is destroyed, no task     *)
(* uses the client any more.                                                *)
StopEnds == owner \in {"stopped", "destroyed"} => Alive = {}

(* Between MQTT_EVENT_BEFORE_CONNECT and the next one of the same task there*)
(* is an MQTT_EVENT_DISCONNECTED; a client that waits has dispatched it and *)
(* closed its transport.  An application that has seen it finds the         *)
(* connection gone, but for one to an MQTT 5 broker that sent a DISCONNECT. *)
EndReported ==
  /\ state = "wait" => drops > 0 /\ ~open
  /\ drops > 0 /\ ~ProtocolFive => state # "connected" /\ ~open
  /\ \A t \in seen : task[t] = "pass" /\ state = "init" => drops > 0

(* The documentation says of the event that the client has aborted the      *)
(* connection: it comes once for each.                                      *)
OneDisconnected == ~PublishFails => drops <= 1

(* A client whose tasks have ended can be started again: its state says so, *)
(* whatever the last pass and the other threads left there.                 *)
Restartable ==
  Alive = {} /\ seen # {} => state = "disconnected" /\ ~open /\ lock = {}

(* What a thread that stops or destroys a client relies on.                 *)
TasksEnd == OneTask /\ StopEnds /\ Restartable

(* Without auto_reconnect the client leaves WAIT_RECONNECT only because     *)
(* reconnect() was called since the last attempt.                           *)
OnlyOnRequest ==
  [][\A t \in Tasks : ~AutoReconnect /\ WaitOver(t) => asked]_lifecycleVars

(* A request to disconnect made while connected is served.                  *)
DisconnectServed ==
  (state = "connected" /\ "disconnect" \in bits) ~> state # "connected"

(* A call of stop() or destroy() returns.                                   *)
StopIsOver == owner \in {"stopping", "destroying"} ~> owner \in {"stopped", "destroyed"}

(* With auto_reconnect the client does not stay waiting.                    *)
TriesAgain == AutoReconnect => (state = "wait" ~> state # "wait")
=============================================================================
