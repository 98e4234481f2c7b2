# Verification of the embedded random forest, its validation run and its MQTT client

The repository trains detectors of attacks in IoT traffic. Most of it is
sequential data science (MLP, SVM, preprocessing). The part with behaviour of its
own is in `RandomForest/`: a random forest compiled into an ESP32, and a Python
script that streams the test rows to it over MQTT and collects its predictions.
Threads, timers, two FreeRTOS tasks, a queue, an outbox, a lock, lossy connections
and restarts take part. The firmware carries its MQTT client (esp-mqtt) and its
Ethernet initialisation as source, most of the repository's concurrent code.
This directory models these parts in TLA+, checks them with TLC and proves the
main results with TLAPS.

Paths below are relative to `src/`; `E/` stands for
`RandomForest/mqtt/managed_components/espressif__mqtt/` and `N/` for
`RandomForest/mqtt/managed_components/espressif__ethernet_init/`.

## 1. Inventory

| Component | State | Operations | Hard behaviour |
|---|---|---|---|
| Validation script, `RandomForest/mqtt.py` | `sent`, `ypred`/`ytest`/`pred_time`, the loop counter | main thread: window, publish, append, start timer, drain, stop, report; `on_message` in the thread of paho | three kinds of threads share lists without a lock; answers lost, duplicated, or left over from an earlier run |
| `RandomForest/RepeatingTimer.py` | `self.timer` | `start`, `_run`, `cancel` | `cancel` races with `_run` and with the first `start` |
| Device application, `RandomForest/mqtt/main/app_main.c` | `mqtt_queue`, the request being predicted | event handler, `mqtt_publish_task`, boot | the handler blocks inside the MQTT task |
| Vote, `predict()` in `app_main.c` | `results`, `highest`, `tie_amount`, `ret` | one vote per tree, tie loop | 8-bit counters, a tie loop that does not stop |
| esp-mqtt as the device uses it, `E/mqtt_client.c` | `state`, `api_lock`, outbox | task loop, enqueue, abort, reconnect, expiry | lock held across callbacks; answers lost between outbox and broker |
| esp-mqtt: life of a client | `state`, `run`, `status_bits` | start, stop, disconnect, reconnect, destroy, the task | a task, an owner and other threads; some steps take no lock; a pass goes on after it has aborted |
| esp-mqtt: receiving | `in_buffer`, `in_buffer_read_len` | `mqtt_message_receive`, `deliver_publish` | messages in pieces, timeouts between any two reads, messages longer than the buffer |
| esp-mqtt: keepalive | `keepalive_tick`, `wait_for_ping_resp` | `process_keepalive` | a late answer behind other messages, a silent broker |
| esp-mqtt: session, with `E/lib/mqtt_outbox.c` and the counter of `E/mqtt5_client.c` | outbox, message ids, `send_publish_packet_count` | publish, enqueue, subscribe, unsubscribe, handshakes of QoS 1 and 2, retransmission, expiry | a connection that breaks between any two packets; enqueue looks at the limit before it takes the lock |
| Custom outbox, `E/examples/custom_outbox` | `queue`, `total_size` | the outbox interface | must agree with the library's |
| esp-mqtt: configuration | everything the client allocates | init, set_config, set_uri, connect and disconnect properties, destroy | any allocation fails; memory lent to the transport |
| `N/ethernet_init.c` | devices, handles, bus, interrupt service | init_all, deinit_all, event handler | any step fails; resources shared with other components |
| Broker and network (external) | what travels on two topics, the device's session | route, drop | QoS 0, clean session |
| Forest on a PC, `RF.cpp`, `RF-arena.cpp` | `results` | `fit` | a second implementation of the same election |
| Tree exporter, `iTreeFile.py`, `RF.py` | stack of nodes, the file | leaf marking, node records | leaves are told by `left == right`; thresholds lose half their bits, indices have 16 |
| esp-mqtt: encoding and decoding | none | packets to bytes and back | none: straight-line code |
| `main.py`, `SVM/`, `Preprocessing/` | none beyond data frames | library calls | none: sequential and numeric |

How they interact: the main thread of the script publishes a request on
`/esp32/sub`; the broker forwards it to the device if it has a session; the MQTT
task reads it and calls the event handler, which puts it into `mqtt_queue`;
`mqtt_publish_task` takes it, predicts, and enqueues the answer in the outbox of
the client; the MQTT task sends it; the broker forwards it on `/esp32/pub`; the
thread of paho runs `on_message`, which cancels the row's timer, removes the row
from `sent` and records the prediction. A timer per row publishes the request
again every 5 s until it is cancelled.

What makes each part correct:

* script: every row recorded once, none forgotten, a complete report, at most
  `Window` rows without a prediction, and an end;
* device: its two tasks exclude each other, never wait for each other, and answer
  requests in order, at most once each;
* prediction: a tree decides on the device as it was trained, within its records;
  the class returned has the most votes, and ties are resolved as intended;
* MQTT client: one task at a time and none after stop(); messages handled whole, in
  order and once; the end of a connection reported; QoS 1 delivered at least once,
  QoS 2 exactly once, and reported after that; a silent broker noticed and a live one
  not cut off; nothing leaked, freed twice or used after it was freed;
* Ethernet: what a step made is undone when a later one fails, and nothing else is.

The hazards behind these properties, each at its line, are listed in
`PROJECT.json`.

## 2. Modules

| Module | Models | Role |
|---|---|---|
| `Network` | broker and connection (external) | two FIFO pipes, the session of the device |
| `Driver` | `mqtt.py`, `RepeatingTimer.py` | one action per step of a thread between accesses to shared state |
| `EchoDevice` | what the script relies on | abstract lossy FIFO server |
| `Collection` | what a run promises | abstract: issue rows in order, collect each once, report |
| `Validation` | `Driver` against `EchoDevice` | composition; refines `Collection` |
| `Firmware` | `app_main.c` and the esp-mqtt parts it uses | the two tasks, lock, queue, outbox |
| `System` | `Driver` with `Firmware` over `Network` | composition; refines `Validation` |
| `Forest` | `exportClassifierTreeToFile`; the descent in `predict()` | one tree from the trained classifier through the file to a leaf |
| `Vote` | the election in `predict()`; `fit` of `RF.cpp` as reference | pure algorithm, one action per iteration |
| `Lifecycle` | `esp_mqtt_task`, start, stop, disconnect, reconnect, destroy | every step between two looks of another thread |
| `Receive` | `mqtt_message_receive`, `mqtt_process_receive`, `deliver_publish` | one action per transport read |
| `Keepalive` | `process_keepalive` | in ticks |
| `Outbox` | `lib/mqtt_outbox.c` as operators on sequences, with what expiry leaves and the bytes held | used by `Session`, `Retransmission`, `OutboxStore` |
| `Session` | publish to PUBCOMP, both directions; subscriptions; MQTT 5 counter | refines `Delivery` |
| `Delivery` | what a publisher is promised | abstract: at least once, exactly once, reported once |
| `Retransmission` | when the task sends what is in the outbox | in ticks |
| `OutboxStore` | the outbox with its size | abstract for `CustomOutbox` |
| `CustomOutbox` | `custom_outbox.cpp` | refines `OutboxStore` |
| `Config` | ownership of memory in `mqtt_client.c`, `mqtt5_client.c` | one action per function |
| `Ethernet` | `ethernet_init.c` | one action per step of init_all |
| `MCValidation`, `MCSystem` | values of constants for TLC | |
| `MCDevice` | seven parts of the device's program side by side; an initial state chooses one | extends `Lifecycle`, `Receive`, `Keepalive`, `Config`, `Ethernet`, `Forest`, `Vote` |
| `MCSession` | five parts side by side, in the same way | extends `Session` and `Retransmission` and instantiates the outboxes |
| `DriverProofs`, `ValidationProofs`, `SystemProofs`, `PredictionProofs`, `ClientProofs`, `SessionProofs`, `OutboxProofs`, `SetupProofs` | theorems | one module per part or group of parts a run checks; `PredictionProofs` is about `Forest` and `Vote` |

`Firmware` and the `E/` modules look at the same client from two sides. `Firmware` has
what this application uses of it (QoS 0, one subscription) together with the
application's own task. `Lifecycle`, `Receive`, `Keepalive` and `Session` take one
concern of the library each, with the uses the application makes no use of. They
share `api_lock`, which makes a pass of the task and a call of the API exclude each
other: in each of these modules what is done under the lock without a callback is
one action, and the other concerns appear as what may happen between two actions (a
connection that fails, a message handled, a tick).

### Correspondence with the code

**Network.** A message is its row number: the `i` packed last (`mqtt.py:97`), which
the device copies to the answer (`app_main.c:147`). Features, label, prediction and
cycle count are functions of the row and nothing here depends on them.
`RouteToDevice` appends only while `online` holds, as a QoS 0 publication without a
subscriber is dropped. The script's own connection (localhost) is assumed not to
break.

**Driver.** `main` is the program counter of the main thread; its actions follow
`mqtt.py:80-126`. `publish`, `sent.append` and `timer.start` are separate actions,
since the answer may arrive between any two of them. `handler` is the program
counter of `on_message`: `FindRow` is the search (line 42), `CancelTimer`,
`DeleteSent`, `RecordResult` lines 43, 44 and 46-48; `IgnoreAnswer` is the
`StopIteration` branch; `HandlerDies` is the `NameError` when an answer arrives
before `sent` exists (lines 78-84), which is not caught and ends the thread.
`timer[r]` is the `RepeatingTimer` of row r: `Expire` is the moment its
`threading.Timer` no longer heeds `cancel`, `Resend` the publication in `_run`,
`Rearm` the following `start`. The window is a constant (11 in the code: the loop
waits while `len(sent) > 10`). The two sleeps and the polling intervals have no
counterpart: a thread may be slow at any point.

**Firmware.** `mqttTask` and `pubTask` are the program counters of the two tasks,
`lock` the holder of `api_lock`. A pass of `esp_mqtt_task` is `BeginPass` (lock,
expiry of old outbox items), then by `state` either a connection attempt, the wait
for a reconnection, or receive and send. `Receive` is split from `Deliver`, because
the handler waits inside `xQueueSend` (`app_main.c:101`) with the lock held.
`SendAnswer` covers dequeue, write and deletion; on a dead connection the write may
succeed and the answer is gone, or `SendFails` keeps the item and aborts.
`TakeRequest`, `LockForEnqueue`, `EnqueueAnswer` are the loop of
`mqtt_publish_task`; the prediction touches nothing shared and is part of
`TakeRequest`. `Reset` is a restart of the chip at any point. The subscription is
part of `Connect`: the handler of `MQTT_EVENT_CONNECTED` runs inside that pass.

**EchoDevice, Collection.** Abstract specifications. In `System`, `Abstract` is
`Validation` with the whole line of requests inside the device (`Pipeline`: socket,
handler, queue, task, outbox) for its `toDevice`. In `Validation`, `Promise` maps
`issued`, `collected` and `reported` to the program counter of the main thread, the
recorded rows and the report.

**Forest.** One tree goes through all three phases. `VisitSplit` and `VisitLeaf` are
the loop over the stack (`iTreeFile.py:79-93`); the depths it also computes are never
used. `WriteLeaf`, `WriteSplit` and `WriteFails` write one record each (lines 96-101),
the last being the `struct.error` of an index that does not fit. `Embed` stands for the
build, which links the file into the firmware. `Descend` is one iteration of the while
loop of `predict()` (`app_main.c:237-251`), which moves before it tests. A well-formed
tree is what scikit-learn guarantees (external). The numbers are a stretch of the axis
of 32-bit floats: feature values are neighbouring floats, thresholds lie on or halfway
between them, and `ToFloat32` rounds half to even as `struct.pack` does.

**Lifecycle.** `task[t]` is the program counter of the t-th task that was started. A
pass begins with `BeginPass`; `PassInit` and `Connect` are the two halves of
`MQTT_STATE_INIT` (the event `BEFORE_CONNECT` is between them). A pass of a connected
task goes through `PassReceives`, `PassResends`, `PassReleases`, `PassKeepsAlive` and
`PassRefreshes`. Each may abort the connection, and after a failed resend or PUBREL the
pass goes on over the closed transport, as the code does
(`E/mqtt_client.c:1569-1572`, `1595-1598`, `714-718`, `1796-1800`), so it may abort again.
`PassReceives` also has the DISCONNECT of an MQTT 5 broker, which is reported and leaves
the connection as it is (`1539-1548`). `drops` counts the DISCONNECTED events of an attempt.
`Poll` is the `esp_transport_poll_read` after the lock is released, with the abort that
takes it again. `TaskCloses`, `TaskSetsState`, `TaskEnds` are the last lines of the task,
which hold no lock. `Stop` ends where `stop()` begins to wait for `STOPPED_BIT`, and
`StopReturns` is the end of the wait; `ReconnectLooks` and `ReconnectSets` are the two
halves of `reconnect()`. `setting` says which client it is: whether it connects again by
itself, speaks MQTT 5, whether another thread publishes and may fail, how many calls are
made. `AppWaits` is what the application has to respect (section 5). `TasksEnd` is the
conjunction of `OneTask`, `StopEnds` and `Restartable`.

**Receive.** One action is one `esp_transport_read` and what follows it up to the
next: type byte, remaining length byte by byte, topic, the rest, then the payload of
a long message in `deliver_publish`. `Timeout` leaves the pass with what is in the
buffer and `EnterReceive` resumes from `in_buffer_read_len`. The only thing the
reader looks at while it frames a message is bit 7 of a byte, so a byte is a
Boolean, and a message is its lengths and the set of its bytes with bit 7. `Starts` says
where each message of `Stream` begins; `pausing` whether the timeout may also pass inside
a payload. `taken` is the message the reader takes the bytes in its buffer for. Where the
broker began one, it is that message; behind a pause inside a payload the reader has lost
its place and goes on, and `taken` is any of `Strays` whose fixed header has the bits of the
bytes that come. `GiveUp` is the abort, `Reopen` the next connection. `HandledInOrder`
consists of `InOrder` and `Framing` (between messages the reader stands where one begins).

**Keepalive.** `Tick` advances every clock; a pass reads at most one message and then
runs `process_keepalive` (`PassReads`, `PassPings`, `PassGivesUp`, `PassFails`).
`PeerWatched` has two conjuncts: a silent broker is given up in time (`DeadPeerDetected`),
and one that works hears of the client in time.

**Session.** What a function does under `api_lock` is one action: `Publish`,
`EnqueuePublish`, `EnqueueStored`, `Subscribe`, the handlers of the packets, and the
sending part of a pass (`SendQueued`, `Resend`). `esp_mqtt_client_enqueue` compares the size
of the outbox with the limit before it takes the lock (`E/mqtt_client.c:2292-2299`):
`EnqueueChecks` is that comparison, `inside` counts the threads that have passed it,
and anything may happen before they go on (`Checked`, `EnqueueLeaves`). Packets travel in two sequences in order and are cut
off with the connection. The broker keeps the session. `setting` holds what a
client is configured with (limit, Receive Maximum, retransmission, expiry) and how often
its connection may break. `Retransmission` looks at the same sending part in ticks.

**OutboxStore, CustomOutbox.** Every function of the outbox interface is an action on
the sequence of items and the size. `Clears` allows the call of
`outbox_delete_all_items` at the end of the task.

**Config.** `heap.own` gives the pointer to each block: null, live or dangling;
`heap.lost` the blocks no pointer leads to, `heap.fault` whether one was misused. An
action is a whole function of the API; an allocation that fails is a choice from
`scarce`, the blocks that may not be had in this behaviour, and the action stops where the
code stops. `lent` is what the transport has of the configuration since
`SetSslProperties`; in state "before" the task is in `MQTT_EVENT_BEFORE_CONNECT`.
`Careful` limits the application and nothing else; which allocations fail is `Failing`.

**Ethernet.** `step` walks through `Steps`, the `#if` branches of one build. A failing
step runs the error path of its function and then that of `ethernet_init_all`. Another
component may take the GPIO interrupt service or the SPI bus (`Other`). The event
handler runs in the task of the event loop, between any two steps of
the other threads: it finds its device (`Event`) and asks the driver later (`AskDriver`).
`faults` names what was misused, `trouble` what may happen in this behaviour to lead
there: "chip", an ENC28J60 that fails its check while `eth_handle` holds what the stack
held (`N/ethernet_init.c:495-497`); "service", another component that installs the
interrupt service which `deinit_all` uninstalls (`:821`, `:372`); "handler", a
`deinit_all` while the event handler is about to ask a driver.

**Vote.** `CountVote` is one iteration of the first loop from the leaf on
(`app_main.c:253-264`), `ClearWinner` and `DrawLots` the test of `tie_amount` with
`rand()`, `VisitClass` one iteration of the second loop. The leaf is any class.
Counters are taken modulo 256 as in the code.

## 3. Runs

| Run | Instance | What it shows |
|---|---|---|
| `validation` | 3 rows, window 2, resend while fewer than 2 messages travel, stale answers `<<>>`, `<<1>>`, `<<1,0>>` | the safety of the script against any lossy FIFO device, and that it implements `Collection` |
| `validation_leak` | the same without stale answers | violated: a timer survives the answer of its row |
| `system_prompt` | 4 rows, window 3, queue 2, 1 fault, no timers | the window bounds the load, no deadlock, results in order |
| `system` | 2 rows, window 2, queue 1, 1 fault, resend while fewer than 3 messages travel | lock discipline; script with firmware implements script with `EchoDevice` |
| `system_live` | 2 rows, window 1, queue 1, 1 fault, fair | every run ends or the device is deadlocked |
| `system_enqueue` | 2 rows, window 2, queue 1, no fault, fair | violated: `esp_mqtt_client_enqueue` may never return |
| `session` | five parts: the session under four settings (two messages with room for two and one broken connection; the same with expiry and room for one; both with a thread between check and lock of `enqueue`; three messages and a Receive Maximum of 1; a QoS 2 message of the broker over three connections); three unacknowledged messages in ticks; the outbox, and the custom outbox with three messages, never emptied and emptied | delivery guarantees, the limit kept but for the threads in `enqueue`, the counter exact on one connection, handshakes end, nothing expires, the custom outbox agrees with the library's |
| `device` | seven parts. Life of a client: three tasks, an MQTT 5 client with auto_reconnect and three requests, or one without it, with two requests and a publisher. Receiving: a stream of five messages over two connections with a buffer of 8, three stray messages, pausing inside a payload or not. Keepalive: `Half` 7, passes of 2 ticks, an answer after 1, one message before it. Configuration: four configurations, four calls, no allocation failing or any of sixteen. Ethernet: an internal, an ENC28J60 and an OpenETH device, without trouble or with all three. Forest: all trees of 1, 3 and 5 nodes, 2 features, 3 classes, 3 values; one tree of 7 nodes with indices up to 5. Vote: 10 trees, 5 classes | one task, `stop()` ends, the end of a connection reported; handled in order and whole; no false alarm, a silent broker noticed; requests served; no double free, no leak, no stale pointer; initialisation undone on failure; marking, file, descent and its end, agreement with the trained tree outside the rounding gap; counting, plurality, agreement with the PC program |
| `client_disconnected` | an MQTT 3.1.1 client with auto_reconnect, nobody else publishing | violated: one lost connection is reported more than once |
| `config_before_connect` | TLS with an ALPN list, two calls, every allocation succeeds, any conduct | violated: a connection is made with what was replaced in `MQTT_EVENT_BEFORE_CONNECT` |
| `config_no_buffer` | the same configuration, one call, a careful application, no memory for a buffer | violated: `set_config` returns ESP_OK and `init` follows a NULL pointer |
| `vote_tie` | 4 trees, 3 classes | violated: the draw does not decide the tie |

**Bounds.** `MaxCopies` bounds how many messages travel when a retransmission is
made; `MaxFaults` bounds lost connections, failed connection attempts, restarts and
expiries together. Both are guards, named in the modules, and neither restricts
the first publication of a row. Three rows with a window of two make the
main thread wait for the window, delete from the middle of `sent` and append while
`on_message` holds an index. A queue of one with a window of two keeps the relation
`Window = QueueLength + 1` of the code (11 and 10), which decides the deadlock; the
proofs cover the real numbers. One fault is enough for every kind of loss; the
liveness argument repeats after each. The vote in `device` covers ties of two to five
classes and every order in which the lead changes.

In `device`, three tasks are two restarts: what the second task leaves behind is met by
the third. The stream holds a message that fits the buffer, two without payload and one
of more than twice the buffer, and ends in an acknowledgement whose id has bit 7 set in its
first byte, which the reader may take for more of the remaining length; the second
connection shows what the first leaves in `in_buffer_read_len`. The strays are a whole
acknowledgement, a message that ends inside the payload, and one whose end never comes.
`Half` 7 is the least with time for one message before the answer. Four calls let a
configuration fail, be replaced, fail again and be destroyed. `Board` has each of the
three functions that make a device and every shared step between them.
In `session`, two messages are the one being sent and the one behind it in the
outbox; a QoS 2 handshake has four packets, and a break
between any two is one break, with two for a message of the broker, whose retransmission
may be cut off again. `Expiry` 19 is exactly what `Enough` asks for with these periods.

`CHECK_DEADLOCK FALSE` in the `System` runs: the device may really lock up, and with
no room for a retransmission a model run may stop. Vote and forest end; in the other
parts of `device` and in `session` the application makes a bounded number of calls. In
`MCValidation` deadlock is checked.

**Fairness** (`System!Fairness`): weak fairness for each thread and task, justified by
the preemptive schedulers of Python and FreeRTOS and by timers that expire. Strong
fairness where a step waits for something that comes and goes: taking `api_lock`
(FreeRTOS hands a mutex to the waiting task, and the MQTT task releases it in every
pass before it polls), a resend that needs room, the end of the reconnection wait
(time passes), noticing a broken connection (keepalive at the latest).
`Forest` is sequential and only assumed to run on (`WF_vars(Next)`).
`LifecycleSpec` and `ReceiveSpec`: FreeRTOS runs the MQTT task and the threads that
wait; the reconnection timeout passes (strong, since the lock comes and goes); the rest
of a message arrives on a connection that stays up. `MCDevice` states the same, and that of
`Forest`, for the part it has chosen. `SessionFairness`: the client
reconnects, the broker answers, and passes that write, resend and handle come through
as long as the connection is up again and again (strong); connections that end are
bounded, so the last one stays.
`Validation`, `Vote`, `Config` and `Ethernet` make no fairness assumption. `system_live` and
`system_enqueue` start without stale answers: with them `HandlerDies` leaves the
script waiting for ever, which run `validation` shows to be harmless for safety only.

## 4. Findings

1. *Leaked timers* (`RepeatingTimer.py:12`, run `validation_leak`). `README.md:170`
   says unanswered messages are retransmitted. An answered row is retransmitted for
   ever if its answer was handled between `resend` and `start` of `_run`, or before
   the first `start` (`mqtt.py:106-107`). The thread also keeps the process alive.
2. *Enqueue may block for ever* (`E/mqtt_client.c:2299`, run `system_enqueue`). The
   header calls the function a non-blocking alternative. With a full `mqtt_queue` the
   handler waits with `api_lock` held and `mqtt_publish_task` waits for the lock. It
   takes 12 requests inside the device, one more than the window: the theorem
   `NoDeadlockWhilePrompt` shows it cannot happen before a timer fires.
3. *The draw does not decide* (`app_main.c:277`, run `vote_tie`). The last tied class
   is always returned.
4. *One lost connection is reported several times* (`E/mqtt_client.c:1571`, run
   `client_disconnected`). `E/docs/en/index.rst:197` says of `MQTT_EVENT_DISCONNECTED`
   that the client has aborted the connection. A resend that fails aborts it, and the
   pass goes on to the PUBREL, the ping and the refresh, each of which aborts it again
   and dispatches the event again. With MQTT 5 the DISCONNECT of a broker is reported
   while the connection is still up, and its end once more. That the end is always
   reported, and that an application that was told finds the connection gone, is
   `EndReported`, which holds but for that DISCONNECT.
5. *`MQTT_EVENT_BEFORE_CONNECT` comes too late for TLS* (`E/mqtt_client.c:1694`, run
   `config_before_connect`). `E/include/mqtt_client.h:613-614` names it as the typical
   place for `esp_mqtt_set_config`. The transport has its pointers to the certificate and
   to the ALPN list by then, and connects with the old certificate and the freed list.
6. *No memory for a buffer is taken for success* (`E/mqtt_client.c:430`, run
   `config_no_buffer`). `E/include/mqtt_client.h:623` promises `ESP_ERR_NO_MEM`.
   `set_config` frees the configuration and returns ESP_OK, and `esp_mqtt_client_init`
   follows `client->config`, which is NULL, at line 902.

Seen while reading, not checked by a run: `RF.cpp:28` and `RF-arena.cpp:27` read a
two-byte record count at the start of a tree file. `iTreeFile.py:95-101` writes none,
and the files in `binTrees` have none (their sizes are multiples of nine), so the
programs on the PC read every record two bytes off. `RF.cpp` also expects 50 files.
The firmware reads the files as they are written.

The following were met while modelling the library. They are described here because
the runs exclude them by a constant (named where there is one), or because they show
up as the exact bound of a property.

* *Life of a client.* With `AppWaits` FALSE, `StopEnds` and `OneTask` fail: `stop()`
  called before the new task has cleared `STOPPED_BIT` returns at once
  (`E/mqtt_client.c:1655`), and a second `start()` is accepted while the state is still
  `INIT` (`:1852`). A failing `publish()` of another thread may also report an attempt as
  over while the task polls (`:1830`), and the task then reports it again.
* *Receiving.* The length byte loop looks at the last byte alone after a pause
  (`:1283`): an acknowledgement whose id has bit 7 set in both bytes, split after its
  third byte, is framed wrongly (`EndIsClear`). A pause inside a payload ends
  `deliver_publish`, and the message is acknowledged although incomplete (`:1162`). The
  code then takes the rest of the payload for messages, and dispatches and acknowledges
  them; where it stands in the stream is left to the bytes. The model goes on in the
  same way (`Strays`). `HandledInOrder` and `AcknowledgedIsWhole` fail there and are
  about behaviours without such a pause (`~pausing`); of the others only the types are
  checked. The test that the header of a message with an id fits the buffer is off by
  two (`:1328`, `HeaderFits`).
* *Keepalive.* The PINGRESP is waited for from the last PINGRESP and not from the
  PINGREQ; a pass held up for half the keepalive gives up right after the ping. `DeadPeerDetected`
  needs passes at most half the keepalive apart (section 5).
* *Session.* `publish()` and `subscribe()` may return -1 and leave the item, which is
  sent later (`refused`). Per timeout only the first unacknowledged item is sent again,
  and without a fresh tick, so many items expire behind it; a steady supply of new
  messages starves retransmission. Message ids are random by default and not compared
  with those in use. A QoS 2 PUBLISH that is repeated after a break is delivered again.
  `subscribe` looks at the state and the limit before it takes the lock, `enqueue` at the
  limit (`:2292-2299`): each thread between the two may take the outbox past
  `outbox.limit` (`E/include/mqtt_client.h:379`) by its message, although `enqueue` is to
  return -2 for a full outbox (`:593`). `WithinLimit` says that this is all, for
  publications. The test against the Receive Maximum lets one more through, and retransmissions, PUBREL and
  SUBSCRIBE also count.
* *Custom outbox.* `enqueue` ignores `remaining_data`. Emptying it keeps `total_size`,
  and the end of the task empties it (`E/mqtt_client.c:1838`): after stop and start
  `outbox_limit` counts messages that are gone (`NeverTooSmall` is what remains).
  `outbox_destroy` deletes memory resources before what uses them.
* *Configuration, allocations.* Three more the code does not survive (`Survivable`). A
  list of ALPN protocols that cannot be had leaves their number set, and the strings of
  a list that is not there are freed. A user property that cannot be copied
  (`E/mqtt5_client.c:544-549`) loses those copied before it. `connect_user` and the others
  of `set_connect_property` are survived, but a failure destroys the whole configuration.
* *Configuration, conduct.* Excluded by `Careful`. `in_buffer`, `connection.buffer`
  and what MQTT 5 owns dangle after `destroy_config`, and a later `set_config` frees them
  again. `if_name` and `clientkey_password` given twice leak, as do user and password of
  `set_uri` given to a client that has them. A configuration given to a connected client
  replaces the buffer a message is being read into. Changing the protocol version, or a
  failure while the task runs, leaves the task with what was freed. Once a transport has
  pointers, replacing the configuration in `MQTT_EVENT_BEFORE_CONNECT` is finding 5.
* *Ethernet.* `deinit_all` uninstalls the interrupt service whoever installed it
  (`N/ethernet_init.c:821`), although `:372` accepts one that was there. The early error
  exits of an ENC28J60 read `eth_handle` uninitialised (`:495-497`). The event handler
  reads the instances without a lock, and `deinit_all` does not wait for it. These
  three are in run `device`, in the behaviours with trouble, and `Undone` says of each
  that it needs its own trouble. Excluded by `CarefulDevices`: after a
  `deinit_all` that failed for one device no later one succeeds (`:807`), and `init_all`
  then writes past `eth_instance_g`, as it does when called twice.

## 5. Theorems

They hold for every number of rows, window, queue length, bound on faults and copies, for
every tree, every number of messages, tasks, calls and configurations, under the
assumptions named in the modules, which TLC evaluates in the runs:

| Assumption | Says |
|---|---|
| `NetworkAssumption`, `DriverAssumption`, `FirmwareAssumption`, `SystemAssumption`, `ValidationAssumption` | the constants are naturals; window and queue are not empty |
| `VoteAssumption` | the counts fit in eight bits |
| `ForestAssumption` | the trees are what scikit-learn ends with |
| `SessionAssumption`, `LifecycleAssumption`, `KeepaliveAssumption` | the constants have their types; half the keepalive is not 0 |
| `ReceiveAssumption` | the buffer holds a fixed header and four bytes, of a stray message too |
| `TimingAssumption`, `StoredAssumption` | times, lengths and numbers of messages are naturals; a pass takes a tick at least |
| `ConfigAssumption`, `StepsAssumption`, `TroublesAssumption` | a configuration sets what it can set; a build initialises devices the code knows; the troubles are the three named |

Where a theorem needs more, it is a hypothesis of the theorem:

* `Window <= QueueLength + 1`; the code has 11 and 10.
* `AppWaits`: the application waits for the first event of a client before it stops or
  destroys it, and does not start one that runs.
* `Careful`: the application gives an interface name or a key password once, user info
  only to a client without a user, no other protocol version, no certificate or ALPN list
  in `MQTT_EVENT_BEFORE_CONNECT`, no configuration to a connected client; it configures
  a client that has a task only with what `set_config` does not refuse and while there is
  memory; and after a failure it destroys the client (`CarefulRequest`). This is about
  the application alone but for the words "while there is memory": a failure of
  `set_config` while the task runs is fatal to the task.
* `Survivable`: the allocations that may fail are not `buffer`, `in_buffer`, the ALPN list
  and the MQTT 5 user property. The code mishandles these four (section 4, and run
  `config_no_buffer`); nothing is claimed where they fail.
* `CarefulDevices`: all devices are started before `deinit_all`, or none. Hardware
  failures, other components and the event handler are not restricted by it.
* `Clear` (`EndIsClear` of every message) and `HeaderFits` for a reader, `MaxPass <= Half`
  for the keepalive.

`~pausing` (no pause inside a payload), `Enough` in `Keepalive` and in `Retransmission`, and
`Undisturbed` in `Session` are part of the properties. The runs satisfy each hypothesis.

* **Script.** The invariants of run `validation` are not inductive. `DriverInv`
  (`DriverProofs`) adds: rows in `sent` are ascending and below the main thread's
  counter (`SentInv`), which makes the first match the only match and keeps an index
  valid under appends; what each program counter of `on_message` knows of `index` and
  `answer` (`HandlerInv`); results and `sent` disjoint and without duplicates
  (`ResultsInv`); every appended row is in one of the three places `sent`, `answer`,
  `results` (`CompleteInv`); the window counts the row being appended. Each thread's
  steps preserve it, whatever happens to the pipes (`PipesPreserve`), so the same
  lemmas serve `Validation` and `System`. `TypeCorrect`, `EachRowRecordedOnce`,
  `IndexNeverStale`, `NoRowForgotten`, `ReportsAreComplete` follow.
* **Refinement.** `ScriptKeepsPromise`: every step of `Validation` is a step of
  `Collection` or a stutter under the mapping of `Promise`.
  `SystemImplementsValidation` (`SystemProofs`): every step of `System` is a step
  of `Validation` or a stutter under the mapping of `Abstract`. A publication enters
  `Pipeline` at its end (`PublishEnters`), the tasks of the device hand requests on
  without changing it (`HandOver`, which needs `LockDiscipline`: `delivering` and
  `predicting` are empty when a request moves into them), an answer over a live
  connection is its head (`SendsTheOldest`), and every other step leaves a contiguous
  part of it (`LeavesAPart`).
* **Firmware.** `FirmwareTypeCorrect`, `ApiLockExcludes` from `FirmwareTypeOK` and
  `LockDiscipline`, inductive together.
* **While no timer fires.** `PromptInv` adds to both that the messages on their way
  are at most the rows outstanding. Each step of the script that moves a message
  moves the row's entry with it, and no step of the device creates one.
  `LoadBounded` follows, and `NoDeadlockWhilePrompt`: a deadlock holds
  `QueueLength + 2` requests, more than the window when
  `Window <= QueueLength + 1`.
* **Vote** (`PredictionProofs`). `LeadersAreCounted`, `PluralityIsElected`, `AgreementWithHost`, from an
  invariant that bounds each count by the trees that have voted and, in the second
  loop, says either that fewer leaders are to be skipped than remain or that `ret` is
  the last leader visited.
* **Forest** (`PredictionProofs`). `FileInv`: each record written points at nodes of the tree, and the file is
  complete once the descent starts. `ForestTypeCorrect` and `DescentStaysInFile` follow
  for every tree, row and index width. `LeavesAreMarked` needs that the subtrees of the
  nodes on the stack are disjoint and cover the leaves not yet marked (`MarkInv`).
  `PredictsAsTrainedAlways` needs that each record is the one meant for its node and that
  the trained tree decides from the node the descent is at as from the root (`WayInv`);
  `SameSide` says that outside the gap a threshold narrowed to 32 bits sends a value the
  same way. `Subtree`, `Decision` and `Undisputed` are recursive functions: that they exist
  and satisfy their equations is `RecursionFromTheEnd`, an induction done without the
  library's theorems, from a least element of the set of counterexamples (`Least`).
* **Order.** `RecordedInOrderWhilePrompt`: a row is in one of five stages (recorded, being
  recorded, answered, requested, not yet published) and is above every row in the stages
  before it (`LineInv`, with the whole line of requests in the device as one stage).
  The refinement lemmas reduce each step of the device to handing on the oldest row or
  leaving a contiguous part of the line; `HeadOrder`, `PartOrder` and `JoinOrder` say
  that order survives both.
* **Life of a client.** `LifeInv`: `STOPPED_BIT` is clear from the start of a task's loop
  to its last step, a task on its way out has `run` false behind it, and a thread that
  waits, waits for a task that has cleared the bit. `TasksEndAlways` follows for any
  number of restarts and requests. For `EndReportedAlways`, `EndInv` adds that no
  event was sent in the attempt that is connecting, that one that was sent left the
  connection closed (but for MQTT 5), and that a task which has dispatched an event finds
  the state `INIT` only behind a reported end. `OnlyOnRequestAlways` is the
  action property behind `EverythingServed`: `reconnect` in the status bits means that it
  was asked for since the last attempt.
* **Receiving.** `ReceiveInv`: what was handled are the first messages in order, and the
  reader is between two messages, or in the message whose turn it is, `got` bytes behind
  its start (`Place`). `Filling` says for each read which part of the message it is in; the
  lemmas named after it follow one read each through the choice of the next. The framing
  after an incomplete read looks at the last byte wherever it is, and the read that comes
  next is the right one (`NextReadIs`) only if the last two bytes of a short message
  cannot both be taken for length bytes: hence `Clear`. `AcknowledgedIsWholeAlways` needs `HeaderFits` as well, since otherwise
  the payload is counted from behind the buffer; without it TLC finds a message that is
  acknowledged with bytes missing. `ReceiveInv` is invariant only as long as no pause falls
  inside a payload, and both theorems say nothing of the other behaviours. `Buffered` is
  for all of them: whatever the bytes are taken for, the reader asks for no more than the
  buffer holds.
* **Keepalive.** `Timing`: without an outstanding PINGREQ the age of the last sign of life
  is below `Half` plus the time since the last pass; with one, what has passed since it
  is at most the broker's answer and one pass for each message in front of it.
  `NoFalseAlarmAlways` follows for every keepalive: `Enough`, that is
  `Half >= Answer + (Backlog + 2) * MaxPass`, is part of the property. The bound on a
  silent broker (`PeerWatchedAlways`) does not need `Enough`, but it does need a pass in
  each half of the keepalive (`Paced`): with slower ones the PINGREQ may go out when the
  whole keepalive is over, and the connection ends a pass after that.
* **Types.** `ClientTypeCorrect` covers client and forest as run `device` composes
  them, without a hypothesis on stream or application: `api_lock` has one holder, and the
  buffer never holds more than it can (`Buffered`).
* **Session.** `SessionInv`: ids are given out in order and are those of one item each; an
  item tells the QoS and the progress of its message (`OutboxInv`); on the way to the
  broker no PUBLISH follows a PUBREL of the same message (`UpInv`); a QoS 2 message the
  broker has released is neither on the wire nor will it be sent again (`OverInv`); a
  message handed over is published, expired or in the outbox (`KeptInv`). Lemmas about the
  outbox operators (`GetFinds`, `DeleteItemLeaves`, `SetPendingMarks` and others) say what
  searches and deletions return. `KeptUntilDoneHolds` adds the limit: the publications in
  the outbox and the threads that have found room are at most `limit + callers`, by
  counting; `SessionKeepsPromise` is the refinement of `Delivery`: a
  message accepted, passed on by the broker or reported by the client is the promised
  step, all others stutter.
  `CounterIsExact`: on a connection without retransmission each message under way is on
  the wire once at most, as its PUBLISH or as a packet that answers it (`TokensInv`), so
  each sending and each final acknowledgement changes counter and set together.
* **Sizes of the outboxes** (`OutboxProofs`). `SizesKept`: the size of the library's outbox
  is the sum of the lengths there, whatever is stored, sent, acknowledged or expired; that
  of the custom outbox is at least the sum even after it was emptied. The sum (`Bytes`) and
  what is left after several items go at once (`Without`) are recursive functions, whose
  equations are `RecursionFromZero`. The lemmas say what an operation does to them:
  appending adds a length, removing an item takes its own away, changing what is not the
  length changes nothing (`BytesAppend`, `BytesRemoved`, `BytesSame`), and deleting the
  expired items takes away the sum of theirs (`WithoutBytes`).
* **Custom outbox.** `CustomImplementsLibrary`: every function of the custom outbox
  is that of the library on the items mapped, with the same size, as long as it is not
  emptied. Both are built from the operators of `Outbox` (`SameOperators`), and mapping an
  item keeps what the searches look at (`MappedIds`, `WholeMapped`).
* **Retransmission.** `NoneExpiresHolds`, for every number of waiting and of new messages and
  all timeouts. `NoneExpires` says nothing of where a message is in its cycle, so
  `TimingInv` divides the line into four pieces (`Pieces`, `Shape`): the message sent
  again and not acknowledged, those waiting to be, the new ones sent, the new ones not
  sent. The first of the waiting ones is young enough for what is still before it: the
  time until something is due, a round of `Period + MaxPass` for each behind it and a pass
  for each new message not yet sent (`UnsentOK`, at most `Oldest`). The one that was sent
  again is acknowledged before the next is due (`ResentOK`), so there is never more than
  one of them; this is what the first conjunct of `Enough` is for. A pass reads
  one acknowledgement at most, so the bound on a new message counts those read before its
  own (`NewSentOK`, `NewQueuedOK`, with `Gone` the new messages already acknowledged). `EnoughTime` turns the bounds into `Expiry`. A pass is two steps, reading
  (`ReadTimely`) and sending (`SendNewTimely`, `YoungTimely`, `ResendTimely`), with the
  clocks of the two told apart.
  The proof corrected the condition: an earlier `Enough` held in the run but was too weak
  in general, with a message lost for instance with one waiting, none new, and
  `Period` 6, `Expiry` 9 and passes of 1. TLC has since checked `TimingInv` for seven
  sets of constants. The condition is sufficient and not necessary. With the defaults of
  the library (retransmission after 1 s, poll of up to 1 s, expiry after 30 s) a
  pass may take as long as the whole period and `Enough` is false: for the
  theorem to apply, the retransmission timeout has to cover a poll for each message
  enqueued meanwhile and one more.
* **Setup.** `EthernetInv`: the devices that are there are the first `cnt` ones, whole, and
  `cnt` is the number of device steps before `step`; the error path of the step that fails
  and `DeinitUndoesAll` then leave nothing, and each kind of misuse is counted only in a
  behaviour with its trouble (`UndoneAlways`). `ConfigInv`: a client has its
  whole configuration, with everything MQTT 5 adds or nothing of it, or it is stopped with
  nothing allocated. An allocation may fail in the middle of a function, so each helper has
  a lemma on what it leaves of a heap in order (`SetKeeps`, `DestroyEmpties`,
  `UriSetKeeps`, `ConfiguredKeeps`); `NoFaultWhenSurvivable` and `NothingLostWhenSurvivable`
  follow, under `Careful` and `Survivable`.

Every invariant and every safety action property of the passing runs is stated by a
theorem. Model-checked only: liveness (`FinishesOrDeadlocks`, `PredictionEnds`,
`EverythingServed` but for its action part, `HandshakesEnd`), as fairness and `ENABLED` are
out of the prover's reach. The theorems of `OutboxProofs` are about `Spec` of `MCSession`
itself, and `ClientTypeCorrect` about `Spec` of `MCDevice`. The others about parts that are composed side by side state that a property holds
of the component's own specification (`SessionSpec`, `LifecycleSpec`, `ReceiveSpec`,
`KeepaliveSpec`, `ConfigSpec`, `EthernetSpec`, `ForestSpec`, `VoteSpec`); the runs have the same Init and Next.

## 6. Not modelled, and the plan

Not modelled:

* the byte layout of packets (`E/lib/mqtt_msg.c`, `E/lib/mqtt5_msg.c`): straight-line
  code without state. `Receive` models the lengths that matter to the reader;
* topic aliases and the properties of PUBLISH, SUBSCRIBE and UNSUBSCRIBE in MQTT 5: the
  application speaks 3.1.1, and they change no state but the alias list;
* the event loop of ESP-IDF, TLS, and heap exhaustion outside `Config` and `Ethernet`: so
  also a `subscribe()` of the application that fails for want of memory, whose result it
  ignores (`app_main.c:71`), after which the device hears nothing;
* the allocator of the custom outbox;
* the contents of messages and the report, the CSV reader, the script's own
  reconnections;
* training and experiments in `main.py`, `SVM/` and `Preprocessing/`: sequential and
  numeric, with the behaviour in libraries.

Next steps, in this order:

1. Topic aliases with their list, lent to the packets of one connection.
2. The remaining-length codec and the message id generator as pure operators.
3. `Session` over `OutboxStore` instead of its sequence of items, so that the limit
   on bytes (`outbox_limit`) is counted in bytes and the custom outbox can take its place.
4. `Retransmission` with connections that break again, and the exact condition under
   which nothing expires.
