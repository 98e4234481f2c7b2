------------------------------ MODULE Session -------------------------------
(* The session of an esp-mqtt client: the outbox, the handshakes of QoS 1   *)
(* and 2, subscriptions, retransmission and expiry (mqtt_client.c), with    *)
(* the flow control of MQTT 5 (mqtt5_client.c).  Messages are numbered in   *)
(* the order they are made, as the ids of CONFIG_MQTT_MSG_ID_INCREMENTAL;   *)
(* id 0 is that of every QoS 0 message.  What is written arrives in order   *)
(* or is lost with the connection.  Ticks are abstracted: a message may be  *)
(* due for retransmission, or expired, or not.                              *)
EXTENDS Outbox, FiniteSets, FiniteSetsExt

CONSTANTS
  MaxId,        \* bound: messages with an id, 1..MaxId
  MaxWire,      \* bound: packets under way
  Settings      \* what a session may be set to: members of Setting

(* limit is config->outbox_limit, every item of size 1, and 0 for none;     *)
(* receiveMax the Receive Maximum of an MQTT 5 broker, and 0 for MQTT 3.1.1;*)
(* retransmits and expires say whether message_retransmit_timeout and       *)
(* OUTBOX_EXPIRED_TIMEOUT_MS ever pass.  The others are bounds: `callers`    *)
(* threads are in esp_mqtt_client_enqueue at a time, ids 1..used were used  *)
(* before the model begins, `breaks` connections end, and the broker sends  *)
(* `inbound` QoS 2 messages.                                                *)
Setting == [limit : Nat, receiveMax : Nat, retransmits : BOOLEAN, expires : BOOLEAN,
            callers : Nat, used : 0..MaxId, breaks : Nat, inbound : Nat]

ASSUME SessionAssumption == MaxId \in Nat /\ MaxWire \in Nat /\ Settings \subseteq Setting

Ids == 1..MaxId
Types == {"publish", "subscribe", "unsubscribe"}

VARIABLES
  setting,   \* which of the settings this session has
  outbox,    \* client->outbox
  lastId,    \* connection->last_message_id
  link,      \* MQTT_STATE_CONNECTED, or any other state
  count,     \* client->send_publish_packet_count
  inside,    \* threads in enqueue() that have found room and wait for api_lock
  up, down,  \* packets on the way to the broker, and to the client
  held,      \* ids of QoS 2 messages the broker has and has not released
  qos,       \* the QoS of each PUBLISH the application made, 0 before
  delivered, \* how often the broker passed it on
  published, \* ids of MQTT_EVENT_PUBLISHED
  refused,   \* ids of calls that returned -1
  expired,   \* ids of items that were too old
  breaks,
  offered,   \* how far the broker is with each message of its own
  handed     \* how often MQTT_EVENT_DATA carried it, 2 for more

client == <<outbox, lastId, link, count, breaks>>
history == <<qos, published, refused, expired>>
inbound == <<offered, handed>>
sessionVars == <<setting, client, inside, up, down, held, delivered, history, inbound>>

Packet == [type : Types \cup {"pubrel", "puback", "pubrec", "pubcomp", "suback", "unsuback"},
           id : 0..(MaxId + setting.inbound), qos : 0..2, dup : BOOLEAN]
Item == [id : 0..MaxId, type : Types, qos : 0..2,
         pending : {"queued", "transmitted", "acknowledged"}]

(* An id is that of one item at most.                                       *)
Unique(q) == \A i, j \in DOMAIN q : q[i].id = q[j].id /\ q[i].id # 0 => i = j

(* The type of every variable, and one item for an id.                      *)
SessionTypeOK ==
  /\ setting \in Settings
  /\ outbox \in Seq(Item)
  /\ Unique(outbox)
  /\ lastId \in 0..MaxId
  /\ link \in {"up", "down"}
  /\ {up, down} \subseteq Seq(Packet)
  /\ {held, published, refused, expired} \subseteq SUBSET Ids
  /\ qos \in [Ids -> 0..2] /\ delivered \in [Ids -> 0..2]
  /\ count \in Nat /\ breaks \in 0..setting.breaks /\ inside \in 0..setting.callers
  /\ offered \in [1..setting.inbound -> {"new", "sent", "received", "done"}]
  /\ handed \in [1..setting.inbound -> 0..2]

SessionInit ==
  /\ setting \in Settings
  /\ outbox = <<>> /\ lastId = setting.used /\ link = "up" /\ count = 0 /\ breaks = 0 /\ inside = 0
  /\ up = <<>> /\ down = <<>> /\ held = {}
  /\ qos = [i \in Ids |-> 0] /\ delivered = [i \in Ids |-> 0]
  /\ published = {} /\ refused = {} /\ expired = {}
  /\ offered = [k \in 1..setting.inbound |-> "new"] /\ handed = [k \in 1..setting.inbound |-> 0]

Pack(type, id, q, dup) == [type |-> type, id |-> id, qos |-> q, dup |-> dup]
Of(item, dup) == Pack(item.type, item.id, item.qos, dup)
Once(f, i) == [f EXCEPT ![i] = IF @ < 2 THEN @ + 1 ELSE 2]

(* esp_mqtt_write: all of the packets, or a failure after which the broker  *)
(* may have them all the same.                                              *)
Write(ps) == Len(up) + Len(down) + Len(ps) <= MaxWire /\ up' = up \o ps
WriteFails(ps) == Write(ps) \/ UNCHANGED up

(* esp_mqtt_abort_connection; what is on the way to the client is lost.     *)
Abort ==
  /\ breaks < setting.breaks
  /\ breaks' = breaks + 1
  /\ link' = "down"
  /\ down' = <<>>

Stay == UNCHANGED <<link, breaks, down>>

-----------------------------------------------------------------------------
(* The functions of the application.  Each holds api_lock while it changes  *)
(* the session; enqueue and subscribe look at the room, and subscribe at    *)
(* the state, before they take it.                                          *)

Room(n) == setting.limit = 0 \/ n + Len(outbox) <= setting.limit

(* esp_mqtt5_client_publish_check: one more than the maximum may be sent.   *)
PublishCheck == setting.receiveMax = 0 \/ count <= setting.receiveMax

NewItem(type, q, pending) == [id |-> lastId + 1, type |-> type, qos |-> q, pending |-> pending]

(* Mutant: the id is used and not kept.                                     *)
MadeSameId(q) ==
  /\ lastId < MaxId
  /\ UNCHANGED lastId
  /\ qos' = IF q = 0 THEN qos ELSE [qos EXCEPT ![lastId + 1] = q]

Made(q) ==
  /\ lastId < MaxId
  /\ lastId' = lastId + 1
  /\ qos' = IF q = 0 THEN qos ELSE [qos EXCEPT ![lastId + 1] = q]

Refuse(r) == refused' = IF r THEN refused \cup {lastId + 1} ELSE refused

(* esp_mqtt_client_publish with QoS 1 or 2.  QoS 0 leaves nothing behind.   *)
Publish(q) ==
  /\ PublishCheck /\ Room(1) /\ Made(q)
  /\ \/ /\ link = "down"
        /\ outbox' = Append(outbox, NewItem("publish", q, "queued"))
        /\ Refuse(FALSE)
        /\ Stay /\ UNCHANGED <<count, up>>
     \/ /\ link = "up"
        /\ Write(<<Pack("publish", lastId + 1, q, FALSE)>>)
        /\ outbox' = Append(outbox, NewItem("publish", q, "transmitted"))
        /\ count' = IF setting.receiveMax > 0 THEN count + 1 ELSE count
        /\ Refuse(FALSE)
        /\ Stay
     \/ /\ link = "up"
        /\ WriteFails(<<Pack("publish", lastId + 1, q, FALSE)>>)
        /\ outbox' = Append(outbox, NewItem("publish", q, "queued"))
        /\ Refuse(TRUE)
        /\ Abort /\ UNCHANGED count
  /\ UNCHANGED <<held, delivered, published, expired, inbound>>

(* Mutant: the size of the outbox is not looked at.                         *)
EnqueueEnters ==
  /\ setting.limit > 0
  /\ inside < setting.callers
  /\ inside' = inside + 1
  /\ UNCHANGED <<client, up, held, delivered, down, history, inbound>>

(* esp_mqtt_client_enqueue finds room.                                      *)
EnqueueChecks ==
  /\ setting.limit > 0 /\ Room(1)
  /\ inside < setting.callers
  /\ inside' = inside + 1
  /\ UNCHANGED <<client, up, held, delivered, down, history, inbound>>

(* With api_lock it does not look again.                                    *)
Checked ==
  \/ setting.limit = 0 /\ UNCHANGED inside
  \/ inside > 0 /\ inside' = inside - 1

EnqueuePublish(q) ==
  /\ Checked /\ PublishCheck /\ Made(q)
  /\ outbox' = Enqueue(outbox, NewItem("publish", q, "new"))
  /\ UNCHANGED <<link, breaks, count, up, down, held, delivered, published, refused, expired, inbound>>

(* The same with QoS 0 and store set: the item has id 0.  It uses up a      *)
(* number of the model all the same, so that there are finitely many.       *)
EnqueueStored ==
  /\ Checked /\ PublishCheck /\ Made(0)
  /\ outbox' = Enqueue(outbox, [NewItem("publish", 0, "new") EXCEPT !.id = 0])
  /\ UNCHANGED <<link, breaks, count, up, down, held, delivered, published, refused, expired, inbound>>

(* It returns without an item: QoS 0 without store, or an error.            *)
EnqueueLeaves ==
  /\ inside > 0 /\ inside' = inside - 1
  /\ UNCHANGED <<client, up, held, delivered, down, history, inbound>>

(* esp_mqtt_client_subscribe_multiple and esp_mqtt_client_unsubscribe.  A   *)
(* failure to write does not end the connection and leaves the item.  State *)
(* and room are looked at before api_lock is taken, by a thread that may    *)
(* have come when the outbox was empty: the connection may be gone by now,  *)
(* and the room too.                                                        *)
Subscribe(type) ==
  /\ link = "up" \/ breaks > 0
  /\ Made(0)
  /\ outbox' = SetPending(Enqueue(outbox, NewItem(type, 0, "new")), lastId + 1, "transmitted")
  /\ \/ link = "up" /\ Write(<<Pack(type, lastId + 1, 0, FALSE)>>) /\ Refuse(FALSE)
     \/ UNCHANGED up /\ Refuse(TRUE)
  /\ UNCHANGED <<link, breaks, count, down, held, delivered, published, expired, inbound>>

-----------------------------------------------------------------------------
(* The task: mqtt_process_receive, then the outbox.  A pass of its loop     *)
(* handles at most one packet and then sends, here two actions: between     *)
(* them nothing is possible that is not between two passes.                 *)

(* A read, or the poll, fails.                                              *)
ReceiveFails ==
  /\ link = "up"
  /\ Abort
  /\ UNCHANGED <<outbox, lastId, count, up, held, delivered, history, inbound>>

Receive(types) ==
  /\ link = "up"
  /\ down # <<>> /\ Head(down).type \in types

(* The packet has been handled.                                             *)
Handled == down' = Tail(down) /\ UNCHANGED <<lastId, link, breaks, held, delivered>>

(* Mutant: an acknowledgement is not counted.                               *)
AckedNot == UNCHANGED count

(* esp_mqtt5_decrement_packet_counter.                                      *)
Acked == count' = IF setting.receiveMax > 0 /\ count > 0 THEN count - 1 ELSE count

(* PUBACK and PUBCOMP.                                                      *)
Finish ==
  /\ Receive({"puback", "pubcomp"})
  /\ LET id == Head(down).id
     IN /\ outbox' = Delete(outbox, id, "publish")
        /\ published' = IF Initiator(outbox, id, "publish") # 0
                          THEN published \cup {id} ELSE published
  /\ Acked
  /\ Handled /\ UNCHANGED <<up, qos, refused, expired, inbound>>

(* SUBACK and UNSUBACK.                                                     *)
Suback ==
  /\ Receive({"suback", "unsuback"})
  /\ outbox' = Delete(outbox, Head(down).id,
                      IF Head(down).type = "suback" THEN "subscribe" ELSE "unsubscribe")
  /\ Handled /\ UNCHANGED <<count, up, history, inbound>>

(* Mutant: PUBREC is answered and the item stays as it is.                  *)
PubrecForgotten ==
  /\ Receive({"pubrec"})
  /\ \/ Write(<<Pack("pubrel", Head(down).id, 0, FALSE)>>)
     \/ UNCHANGED up
  /\ Handled /\ UNCHANGED <<outbox, count, history, inbound>>

(* PUBREC: the result of writing the PUBREL is not looked at.               *)
Pubrec ==
  /\ Receive({"pubrec"})
  /\ outbox' = SetPending(outbox, Head(down).id, "acknowledged")
  /\ \/ Write(<<Pack("pubrel", Head(down).id, 0, FALSE)>>)
     \/ UNCHANGED up
  /\ Handled /\ UNCHANGED <<count, history, inbound>>

(* A PUBLISH of the broker, handed to the application at once and answered. *)
(* Message k of the broker has id MaxId + k.                                *)
InPublish ==
  /\ Receive({"publish"})
  /\ LET k == Head(down).id - MaxId
     IN /\ handed' = Once(handed, k)
        /\ \/ Write(<<Pack("pubrec", MaxId + k, 0, FALSE)>>) /\ Handled
           \/ /\ WriteFails(<<Pack("pubrec", MaxId + k, 0, FALSE)>>)
              /\ Abort
              /\ UNCHANGED <<lastId, held, delivered>>
  /\ UNCHANGED <<outbox, count, offered, history>>

InPubrel ==
  /\ Receive({"pubrel"})
  /\ \/ Write(<<Pack("pubcomp", Head(down).id, 0, FALSE)>>)
     \/ UNCHANGED up
  /\ Handled /\ UNCHANGED <<outbox, count, history, inbound>>

(* The first QUEUED item is sent.                                           *)
SendQueued ==
  /\ link = "up"
  /\ LET i == Dequeue(outbox, "queued")
     IN /\ i # 0
        /\ \/ /\ Write(<<Of(outbox[i], FALSE)>>)
              /\ outbox' = IF outbox[i].qos = 0 THEN DeleteItem(outbox, i)
                           ELSE SetPending(outbox, outbox[i].id, "transmitted")
              /\ count' = IF outbox[i].qos > 0 /\ setting.receiveMax > 0 THEN count + 1 ELSE count
              /\ Stay
           \/ /\ WriteFails(<<Of(outbox[i], FALSE)>>)
              /\ Abort
              /\ UNCHANGED <<outbox, count>>
  /\ UNCHANGED <<lastId, held, delivered, history, inbound>>

(* Without one, and when it is time, the first TRANSMITTED item is sent     *)
(* again if it is due, and a PUBREL for the first ACKNOWLEDGED one.  The    *)
(* MQTT 5 counter counts what has no DUP flag, a PUBREL or a SUBSCRIBE too. *)
Again(i, j) ==
  (IF i = 0 THEN <<>> ELSE <<Of(outbox[i], outbox[i].type = "publish")>>)
  \o (IF j = 0 THEN <<>> ELSE <<Pack("pubrel", outbox[j].id, 0, FALSE)>>)
Undupped(ps) == Cardinality({n \in DOMAIN ps : ~ps[n].dup})

(* Mutant: a message that has been acknowledged is sent again as a PUBLISH. *)
ResendWrong ==
  /\ link = "up" /\ Dequeue(outbox, "queued") = 0
  /\ setting.retransmits
  /\ \E i \in {0} \cup DOMAIN outbox :
       Write(IF i = 0 THEN <<>> ELSE <<Of(outbox[i], TRUE)>>)
  /\ Stay
  /\ UNCHANGED <<outbox, lastId, count, held, delivered, history, inbound>>

(* Mutant: only a PUBREL is sent again.                                     *)
ResendReleases ==
  /\ link = "up" /\ setting.retransmits /\ Dequeue(outbox, "queued") = 0
  /\ \E j \in {0, Dequeue(outbox, "acknowledged")} :
       /\ j > 0 /\ Write(Again(0, j))
  /\ Stay
  /\ UNCHANGED <<outbox, lastId, count, held, delivered, history, inbound>>

Resend ==
  /\ link = "up" /\ setting.retransmits /\ Dequeue(outbox, "queued") = 0
  /\ \E i \in {0, Dequeue(outbox, "transmitted")}, j \in {0, Dequeue(outbox, "acknowledged")} :
       /\ i + j > 0
       /\ \/ /\ Write(Again(i, j))
             /\ count' = IF setting.receiveMax > 0 THEN count + Undupped(Again(i, j)) ELSE count
             /\ Stay
          \/ /\ WriteFails(Again(i, j))
             /\ Abort /\ UNCHANGED count
  /\ UNCHANGED <<outbox, lastId, held, delivered, history, inbound>>

(* mqtt_delete_expired_messages, one item at a time.                        *)
Expire ==
  /\ setting.expires
  /\ \E i \in DOMAIN outbox :
       /\ outbox' = DeleteItem(outbox, i)
       /\ expired' = expired \cup ({outbox[i].id} \ {0})
  /\ UNCHANGED <<lastId, link, count, breaks, up, down, held, delivered,
                 qos, published, refused, inbound>>

(* A new connection, to a broker that kept the session.                     *)
Reconnect ==
  /\ link = "down"
  /\ link' = "up"
  /\ count' = 0
  /\ up' = <<>> /\ down' = <<>>
  /\ UNCHANGED <<outbox, lastId, breaks, held, delivered, history, inbound>>

-----------------------------------------------------------------------------
(* The broker, which reads on after a break until the next connection.      *)

Reply(ps) == down' = IF link = "up" THEN down \o ps ELSE down

Take(types) == up # <<>> /\ Head(up).type \in types /\ up' = Tail(up)
Keep == UNCHANGED <<client, history, handed>>

Acknowledge(p) ==
  IF p.qos = 0 THEN <<>>
  ELSE <<Pack(IF p.qos = 1 THEN "puback" ELSE "pubrec", p.id, 0, FALSE)>>

BrokerPublish ==
  /\ Take({"publish"})
  /\ LET p == Head(up)
         new == p.id # 0 /\ p.id \notin held
     IN /\ delivered' = IF new THEN Once(delivered, p.id) ELSE delivered
        /\ held' = IF p.qos = 2 THEN held \cup {p.id} ELSE held
        /\ Reply(Acknowledge(p))
  /\ UNCHANGED offered /\ Keep

BrokerPubrel ==
  /\ Take({"pubrel"})
  /\ held' = held \ {Head(up).id}
  /\ Reply(<<Pack("pubcomp", Head(up).id, 0, FALSE)>>)
  /\ UNCHANGED <<delivered, offered>> /\ Keep

BrokerSubscribe ==
  /\ Take({"subscribe", "unsubscribe"})
  /\ Reply(<<Pack(IF Head(up).type = "subscribe" THEN "suback" ELSE "unsuback",
                  Head(up).id, 0, FALSE)>>)
  /\ UNCHANGED <<held, delivered, offered>> /\ Keep

BrokerAnswered ==
  /\ Take({"pubrec", "pubcomp"})
  /\ LET k == Head(up).id - MaxId
     IN /\ offered' = [offered EXCEPT ![k] = IF Head(up).type = "pubrec" /\ @ # "done"
                                             THEN "received" ELSE "done"]
        /\ Reply(IF Head(up).type = "pubrec" THEN <<Pack("pubrel", MaxId + k, 0, FALSE)>> ELSE <<>>)
  /\ UNCHANGED <<held, delivered>> /\ Keep

(* The broker begins with a message of its own, or goes on with one after a *)
(* break.                                                                   *)
BrokerOffers(k) ==
  /\ link = "up" /\ Len(up) + Len(down) < MaxWire
  /\ \A i \in DOMAIN down : down[i].id # MaxId + k
  /\ \A i \in DOMAIN up : up[i].id # MaxId + k
  /\ offered[k] \in {"new", "sent", "received"}
  /\ offered' = [offered EXCEPT ![k] = IF @ = "new" THEN "sent" ELSE @]
  /\ down' = Append(down, Pack(IF offered[k] = "received" THEN "pubrel" ELSE "publish",
                               MaxId + k, 2, FALSE))
  /\ UNCHANGED <<up, held, delivered>> /\ Keep

-----------------------------------------------------------------------------
Application ==
  \/ \E q \in {1, 2} : (Publish(q) /\ UNCHANGED inside) \/ EnqueuePublish(q)
  \/ EnqueueChecks \/ EnqueueStored \/ EnqueueLeaves
  \/ \E type \in {"subscribe", "unsubscribe"} : Subscribe(type) /\ UNCHANGED inside

Handle == Finish \/ Suback \/ Pubrec \/ InPublish \/ InPubrel

Broker ==
  \/ BrokerPublish \/ BrokerPubrel \/ BrokerSubscribe \/ BrokerAnswered
  \/ \E k \in DOMAIN offered : BrokerOffers(k)

SessionNext ==
  /\ UNCHANGED setting
  /\ \/ Application
     \/ /\ ReceiveFails \/ Handle \/ SendQueued \/ Resend \/ Expire \/ Reconnect \/ Broker
        /\ UNCHANGED inside

(* The task passes again and again and connects again, the broker works.  A *)
(* message whose retransmission is due often enough is retransmitted, and   *)
(* an answer that can be written often enough is written.                   *)
Keeps(A) == A /\ UNCHANGED <<setting, inside>>
SessionFairness ==
  /\ WF_sessionVars(Keeps(Reconnect)) /\ WF_sessionVars(Keeps(Broker))
  /\ SF_sessionVars(Keeps(Handle /\ link' = "up"))
  /\ SF_sessionVars(Keeps((Pubrec \/ InPubrel) /\ up' # up))
  /\ SF_sessionVars(Keeps(SendQueued /\ link' = "up"))
  /\ SF_sessionVars(Keeps(Resend /\ link' = "up"))

SessionSpec == SessionInit /\ [][SessionNext]_sessionVars
SessionFairSpec == SessionSpec /\ SessionFairness

-----------------------------------------------------------------------------
(* Properties.                                                              *)

(* What the client promises its application: see module Delivery.           *)
Promise == INSTANCE Delivery WITH Messages <- Ids
Delivers == Promise!Spec

(* A PUBREL goes out only for a message the broker has: it tells the broker *)
(* to forget the id, and the message behind it is not sent any more.        *)
ReleasedLast ==
  \A i \in DOMAIN up : up[i].type = "pubrel" =>
    /\ delivered[up[i].id] # 0
    /\ \A j \in DOMAIN up : j > i => ~(up[j].type = "publish" /\ up[j].id = up[i].id)

(* Subscriptions aside, outbox_limit is exceeded by a message for each      *)
(* thread that was in enqueue() at a time, and not by more.                 *)
WithinLimit ==
  setting.limit > 0 =>
    Cardinality({i \in DOMAIN outbox : outbox[i].type = "publish"}) + inside
      <= setting.limit + setting.callers

(* An item leaves the outbox because its message was acknowledged or too    *)
(* old; a QoS 0 item when it is sent.                                       *)
NothingForgotten ==
  \A id \in Ids : qos[id] # 0 =>
    id \in published \cup expired \/ Get(outbox, id) # 0

(* What the outbox is for: a message is kept until it may go, near enough to*)
(* the limit, and released at the broker only when it is there.             *)
KeptUntilDone == NothingForgotten /\ WithinLimit /\ ReleasedLast

(* Where nothing is sent twice or given up, the MQTT 5 counter is that of   *)
(* the messages that were sent and are not acknowledged yet.                *)
Undisturbed == setting.breaks = 0 /\ ~setting.retransmits /\ ~setting.expires
UnderWay == {id \in Ids : Get(outbox, id) # 0 /\ qos[id] # 0
                          /\ outbox[Get(outbox, id)].pending # "queued"}
CounterExact ==
  Undisturbed /\ setting.receiveMax > 0 => count = Cardinality(UnderWay)

(* Every message handed over is passed on by the broker, unless it expires. *)
EventuallyDelivered ==
  \A id \in Ids : (qos[id] # 0) ~> (delivered[id] # 0 \/ id \in expired)

(* Every handshake ends: the outbox becomes and stays empty.                *)
OutboxEmpties == setting.retransmits => <>[](outbox = <<>>)

(* The messages the broker sends with QoS 2 reach the application, and the  *)
(* handshakes end.                                                          *)
Unended == {k \in DOMAIN offered :
              offered[k] # "new" /\ ~(offered[k] = "done" /\ handed[k] # 0)}
InboundEnds == Unended # {} ~> Unended = {}
=============================================================================
