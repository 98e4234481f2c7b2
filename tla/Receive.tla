------------------------------ MODULE Receive ------------------------------
(* How esp-mqtt takes messages off a TCP connection: mqtt_message_receive,  *)
(* the part of mqtt_process_receive around it, and the loop of              *)
(* deliver_publish that reads a message longer than the input buffer.       *)
(* One action is one esp_transport_read with what the code does up to the   *)
(* next one.  Of a byte the model keeps bit 7: it is all the reader looks   *)
(* at to find where a fixed header ends.  The bytes of a connection are     *)
(* numbered from 1; the buffer holds those after `begin`.  A payload that is *)
(* cut short by a pause is not skipped: the next read takes its bytes for a *)
(* message of their own, with whatever type and lengths they show.          *)
EXTENDS Integers, Sequences, FiniteSetsExt

CONSTANTS
  Stream,          \* the messages the broker sends, its CONNACK first
  Buffer,          \* in_buffer_length
  Pauses,          \* whether network_timeout_ms may pass inside a payload
  Strays,          \* messages that bytes of a payload may be taken for
  MaxConnections   \* bound: connections the model follows

(* A message is [type, fixed, topic, qos, payload, high]: the bytes of its  *)
(* fixed header and of its topic, the bytes that follow them, and which of  *)
(* the bytes after the fixed header have bit 7 set.                         *)
Message == [type : STRING, fixed : 2..5, topic : Nat, qos : 0..2, payload : Nat,
            high : SUBSET Nat]

(* A fixed header and what ReadTopic may read after it fit into the buffer. *)
ASSUME ReceiveAssumption ==
  /\ Stream \in Seq(Message)
  /\ Strays \subseteq Message
  /\ Buffer \in Nat
  /\ \A k \in DOMAIN Stream : Buffer >= Stream[k].fixed + 4
  /\ \A m \in Strays : Buffer >= m.fixed + 4
  /\ Pauses \subseteq BOOLEAN
  /\ MaxConnections \in Nat \ {0}

Header(m) ==
  m.fixed + (IF m.type = "publish" THEN 2 + m.topic + (IF m.qos > 0 THEN 2 ELSE 0)
                                   ELSE 0)
Total(m) == Header(m) + m.payload

(* Bit 7 of each byte: of the remaining length, all but the last have it.   *)
HighBits(m) ==
  [i \in 1..Total(m) |-> IF i <= m.fixed THEN i \in 2..(m.fixed - 1) ELSE i \in m.high]

(* The number of bytes before message k.                                    *)
Starts[k \in 1..(Len(Stream) + 1)] ==
  IF k = 1 THEN 0 ELSE Starts[k - 1] + Total(Stream[k - 1])

Wire ==
  [i \in 1..Starts[Len(Stream) + 1] |->
     \E k \in DOMAIN Stream :
       i \in (Starts[k] + 1)..Starts[k + 1] /\ HighBits(Stream[k])[i - Starts[k]]]

VARIABLES
  pausing, \* whether it does
  phase,   \* "connecting" until the CONNACK is accepted, "closed" once aborted
  pc,      \* the next transport read of the pass
  wire,    \* bytes read from this connection
  taken,   \* the message the bytes after `begin` are taken for
  begin,   \* bytes of this connection before in_buffer[0]
  got,     \* in_buffer_read_len
  before,  \* previous_in_buffer_read_len of mqtt_process_receive
  passed,  \* payload bytes of this message handed to MQTT_EVENT_DATA
  handled, \* bytes before the messages handled so far, in order
  conn     \* number of this connection

receiveVars == <<pausing, phase, pc, wire, taken, begin, got, before, passed, handled, conn>>

Nothing == [type |-> "none", fixed |-> 2, topic |-> 0, qos |-> 0, payload |-> 0, high |-> {}]

ReceiveTypeOK ==
  /\ pausing \in Pauses
  /\ phase \in {"connecting", "connected", "closed"}
  /\ pc \in {"idle", "type", "length", "topic", "rest", "deliver", "payload", "respond"}
  /\ wire \in 0..Len(Wire)
  /\ taken \in Message \cup {Nothing}
  /\ begin \in 0..Len(Wire)
  /\ got \in 0..Buffer
  /\ before \in 0..Buffer
  /\ passed \in Nat
  /\ handled \in Seq(0..Len(Wire))
  /\ conn \in 1..MaxConnections

ReceiveInit ==
  /\ pausing \in Pauses
  /\ phase = "connecting" /\ pc = "idle" /\ taken = Nothing
  /\ wire = 0 /\ begin = 0 /\ got = 0 /\ before = 0 /\ passed = 0
  /\ handled = <<>>
  /\ conn = 1

(* The message the broker began at the first byte the buffer will hold, if  *)
(* it began one there; of another the bits that end a fixed header are those*)
(* of the bytes that came.                                                  *)
Numbers == {k \in DOMAIN Stream : Starts[k] = begin}
Looks(m) ==
  \A i \in 2..m.fixed : begin + i <= Len(Wire) => Wire[begin + i] = (i < m.fixed)
Taken == IF Numbers # {} THEN {Stream[k] : k \in Numbers} ELSE {m \in Strays : Looks(m)}

-----------------------------------------------------------------------------
(* mqtt_message_receive.                                                    *)

(* How much of m the buffer is to hold before m is handled: all of it, or,  *)
(* of a PUBLISH that is longer, as much as fits.                            *)
Target(m) == Min({Total(m), Buffer})

(* total_len of a long PUBLISH; the two bytes of the topic's length are not *)
(* counted.                                                                 *)
CorrectedLength(m) == m.fixed + m.topic + (IF m.qos > 0 THEN 2 ELSE 0)

(* What the code does next with g bytes of m in the buffer.                 *)
AfterLength(g, m) ==
  CASE Total(m) > Buffer /\ m.type # "publish" -> "error"
    [] Total(m) > Buffer /\ m.type = "publish" /\ g < m.fixed + 2 -> "topic"
    [] Total(m) > Buffer /\ m.type = "publish" /\ g >= m.fixed + 2
         /\ CorrectedLength(m) > Buffer -> "error"
    [] OTHER -> IF g < Target(m) THEN "rest" ELSE "deliver"

(* Another byte of the remaining length is read while the last byte read,   *)
(* byte w, has bit 7 set, wherever in the message that byte is.             *)
NextRead(g, w, m) ==
  IF g = 1 \/ (g < 6 /\ Wire[w]) THEN "length" ELSE AfterLength(g, m)

EnterReceive ==
  /\ pc = "idle" /\ phase # "closed"
  /\ before' = got
  /\ begin' = IF got = 0 THEN wire ELSE begin
  /\ IF got = 0 THEN pc' = "type" ELSE pc' = NextRead(got, wire, taken)
  /\ UNCHANGED <<phase, wire, taken, got, passed, handled, conn>>

GiveUp ==
  /\ phase' = "closed"
  /\ pc' = "idle"
  /\ UNCHANGED <<wire, taken, begin, got, before, passed, handled, conn>>

(* The result of a read of n bytes that returned r of them.                 *)
Took(r, next) ==
  /\ wire + r <= Len(Wire)
  /\ wire' = wire + r
  /\ got' = got + r
  /\ pc' = next
  /\ UNCHANGED <<phase, begin, before, passed, handled, conn>>

(* A valid type; a byte that has none is an error, as in ReadFails.         *)
ReadType ==
  /\ pc = "type"
  /\ taken' \in Taken
  /\ Took(1, "length")

ReadLength ==
  /\ pc = "length"
  /\ wire < Len(Wire)
  /\ UNCHANGED taken
  /\ LET next == NextRead(got + 1, wire + 1, taken)
     IN IF next = "error" THEN GiveUp ELSE Took(1, next)

(* At least the two bytes of the topic's length; asked for again after an   *)
(* incomplete read, the code asks for more than are missing.                *)
ReadTopic ==
  /\ pc = "topic"
  /\ UNCHANGED taken
  /\ \E r \in 1..(got - taken.fixed + 2) :
       LET next == AfterLength(got + r, taken)
       IN CASE next = "topic" -> Took(r, "idle")
            [] next = "error" -> GiveUp
            [] OTHER -> Took(r, next)

ReadRest ==
  /\ pc = "rest"
  /\ UNCHANGED taken
  /\ \E r \in 1..(Target(taken) - got) :
       Took(r, IF got + r < Target(taken) THEN "idle" ELSE "deliver")

(* Mutant: a message in progress is given up at the first timeout.          *)
TimeoutForgets ==
  /\ pc \in {"type", "length", "topic", "rest"}
  /\ pc' = "idle"
  /\ got' = 0
  /\ UNCHANGED <<phase, wire, taken, begin, before, passed, handled, conn>>

(* A timeout gives 0, or -1 in the middle of a message, which is an error   *)
(* when nothing came since the pass before or the CONNACK is awaited.       *)
(* Waiting for the CONNACK, 0 is an error once network_timeout_ms is over.  *)
Timeout ==
  /\ pc \in {"type", "length", "topic", "rest"}
  /\ \/ /\ pc = "type" \/ (before # got /\ phase = "connected")
        /\ pc' = "idle"
        /\ UNCHANGED <<phase, wire, taken, begin, got, before, passed, handled, conn>>
     \/ /\ IF pc = "type" THEN phase = "connecting" ELSE before = got \/ phase = "connecting"
        /\ conn < MaxConnections
        /\ GiveUp

(* A closed or broken connection, or an invalid header.                     *)
ReadFails ==
  /\ pc \in {"type", "length", "topic", "rest", "payload"}
  /\ conn < MaxConnections
  /\ GiveUp

-----------------------------------------------------------------------------
(* esp_mqtt_connect and mqtt_process_receive once a message is complete.    *)

(* A message handled: in_buffer_read_len goes back to 0.                    *)
Finish ==
  /\ pc' = "idle"
  /\ got' = 0
  /\ passed' = 0
  /\ handled' = Append(handled, begin)
  /\ UNCHANGED <<wire, taken, begin, before, conn>>

(* The broker accepts, or refuses and the connection is aborted.            *)
Connack ==
  /\ pc = "deliver" /\ phase = "connecting"
  /\ \/ /\ taken.type = "connack"
        /\ phase' = "connected"
        /\ Finish
     \/ /\ conn < MaxConnections \/ taken.type # "connack"
        /\ GiveUp

Handle ==
  /\ pc = "deliver" /\ phase = "connected"
  /\ taken.type # "publish"
  /\ UNCHANGED phase
  /\ Finish

(* deliver_publish: the first event carries what the buffer holds of the    *)
(* payload, nothing when the header alone fills it.  Without its topic the  *)
(* message is an error.                                                     *)
Deliver ==
  /\ pc = "deliver" /\ phase = "connected"
  /\ taken.type = "publish"
  /\ IF got < taken.fixed + 2 + taken.topic THEN GiveUp
     ELSE /\ passed' = Max({0, Min({got, Total(taken)}) - Header(taken)})
          /\ pc' = IF got < Total(taken) THEN "payload"
                   ELSE IF taken.qos > 0 THEN "respond" ELSE "idle"
          /\ IF pc' # "idle" THEN UNCHANGED <<got, handled>>
             ELSE got' = 0 /\ handled' = Append(handled, begin)
          /\ UNCHANGED <<phase, wire, taken, begin, before, conn>>

(* The end of deliver_publish, with all the payload or without.             *)
Delivered(w, s) ==
  /\ wire' = w
  /\ IF taken.qos > 0
       THEN pc' = "respond" /\ passed' = s /\ UNCHANGED <<got, handled>>
       ELSE pc' = "idle" /\ passed' = 0 /\ got' = 0 /\ handled' = Append(handled, begin)
  /\ UNCHANGED <<phase, taken, begin, before, conn>>

(* Mutant: the last part of a payload is taken for all of it.               *)
ReadPayloadOnce ==
  /\ pc = "payload"
  /\ \E r \in 1..Min({Buffer, begin + Total(taken) - wire, Len(Wire) - wire}) :
       Delivered(wire + r, passed + r)

ReadPayload ==
  /\ pc = "payload"
  /\ \E r \in 1..Min({Buffer, begin + Total(taken) - wire, Len(Wire) - wire}) :
       IF wire + r = begin + Total(taken) THEN Delivered(wire + r, passed + r)
       ELSE /\ wire' = wire + r
            /\ passed' = passed + r
            /\ UNCHANGED <<phase, pc, taken, begin, got, before, handled, conn>>

(* The read error of a timeout is 0 because mid_message is passed as false. *)
PayloadTimeout ==
  /\ pc = "payload"
  /\ pausing
  /\ Delivered(wire, passed)

(* The PUBACK or PUBREC.                                                    *)
Respond ==
  /\ pc = "respond"
  /\ UNCHANGED phase
  /\ Finish

RespondFails ==
  /\ pc = "respond"
  /\ conn < MaxConnections
  /\ GiveUp

(* esp_mqtt_connect on a new connection empties the buffer; the broker      *)
(* starts its stream again.                                                 *)
Reopen ==
  /\ phase = "closed"
  /\ conn < MaxConnections
  /\ conn' = conn + 1
  /\ phase' = "connecting" /\ pc' = "idle"
  /\ wire' = 0 /\ taken' = Nothing /\ begin' = 0 /\ got' = 0 /\ before' = 0 /\ passed' = 0
  /\ handled' = <<>>

Progress == \/ ReadType \/ ReadLength \/ ReadTopic \/ ReadRest \/ ReadPayload
            \/ Connack \/ Handle \/ Deliver \/ Respond

ReceiveNext ==
  /\ UNCHANGED pausing
  /\ \/ EnterReceive \/ Reopen \/ Progress
     \/ Timeout \/ ReadFails \/ PayloadTimeout \/ RespondFails

Receives(A) == A /\ UNCHANGED pausing

(* A weak fairness: the task keeps reading.  A strong one: the bytes that   *)
(* were sent arrive, however often a poll with timeout 0 misses them.       *)
ReceiveSpec ==
  /\ ReceiveInit /\ [][ReceiveNext]_receiveVars
  /\ WF_receiveVars(Receives(EnterReceive)) /\ WF_receiveVars(Receives(Reopen))
  /\ SF_receiveVars(Receives(Progress))

-----------------------------------------------------------------------------
(* Properties.                                                              *)

(* The two bytes that end a message of at most 5 do not both have bit 7 set *)
(* behind its fixed header: after an incomplete read the code takes them    *)
(* for a part of the remaining length.                                      *)
EndIsClear(m) ==
  ~(Total(m) <= 5 /\ Total(m) - 1 > m.fixed /\ {Total(m) - 1, Total(m)} \subseteq m.high)

(* Of a long PUBLISH with a message id the code compares CorrectedLength,   *)
(* not Header, with the buffer.                                             *)
HeaderFits(m) ==
  m.type = "publish" /\ m.qos > 0 /\ Total(m) > Buffer
    => Header(m) \notin {Buffer + 1, Buffer + 2}

(* Between messages the reader stands where the broker began a message: it  *)
(* never takes bytes of the next one and leaves none of the last.           *)
Framing ==
  phase # "closed" /\ pc \in {"idle", "type"} /\ got = 0
    => \E k \in DOMAIN Starts : wire = Starts[k]

(* Unless a pause cuts a payload short, the messages of a connection are    *)
(* handled in the order sent, none twice and none skipped, and the reader   *)
(* stands where the broker began a message.                                 *)
InOrder == \A i \in DOMAIN handled : i \in DOMAIN Starts /\ handled[i] = Starts[i]
HandledInOrder == ~pausing => InOrder /\ Framing

(* What is answered with PUBACK or PUBREC was handed over to the last byte. *)
HandedOver == pc = "respond" => passed = taken.payload

(* The header of a message that does not fit is in the buffer when its      *)
(* first event is made: topic, message id and payload are told apart there. *)
HeaderInBuffer ==
  pc \in {"payload", "respond"} => Header(taken) <= got

(* Without a pause inside a payload what is acknowledged is whole.          *)
AcknowledgedIsWhole == ~pausing => HandedOver /\ HeaderInBuffer

(* Every message of a connection that is not broken is handled in the end.  *)
AllHandled == ~pausing => <>[](Len(handled) = Len(Stream))
=============================================================================
