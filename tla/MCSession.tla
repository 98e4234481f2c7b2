----------------------------- MODULE MCSession ------------------------------
(* The session of an esp-mqtt client under several settings, the timing of  *)
(* its retransmissions and its two outboxes: parts that share no state in   *)
(* the models.  TLC takes one of them for the whole of a behaviour.         *)
EXTENDS Session, Retransmission

CONSTANTS
  Stored,    \* messages an outbox is given: records [id, type, len]
  MaxItems,  \* bound: items of an outbox at a time
  MaxSize    \* bound: total_size of the custom outbox

ASSUME StoredAssumption == MaxItems \in Nat /\ \A m \in Stored : m.len \in Nat

VARIABLES
  part,
  items, size,                                \* OutboxStore
  queue, totalSize, emptied, emptiedSize      \* CustomOutbox, twice

storeVars == <<items, size>>
customVars == <<queue, totalSize>>
clearedVars == <<emptied, emptiedSize>>
vars == <<part, sessionVars, timingVars, storeVars, customVars, clearedVars>>

(* Two messages, an outbox for two, a connection that breaks once.          *)
Plain == [limit |-> 2, receiveMax |-> 0, retransmits |-> TRUE, expires |-> FALSE,
          callers |-> 1, used |-> 1, breaks |-> 1, inbound |-> 0]

(* The same with messages that expire and room for one.                     *)
Expiring == [Plain EXCEPT !.limit = 1, !.expires = TRUE, !.callers = 1]

(* MQTT 5 with a Receive Maximum of 1, on one connection.                   *)
Five == [limit |-> 0, receiveMax |-> 1, retransmits |-> FALSE, expires |-> FALSE,
         callers |-> 0, used |-> 0, breaks |-> 0, inbound |-> 0]

(* A message of the broker, over three connections.                         *)
Incoming == [limit |-> 0, receiveMax |-> 0, retransmits |-> TRUE, expires |-> FALSE,
             callers |-> 0, used |-> 3, breaks |-> 2, inbound |-> 1]

SomeSettings == {Plain, Expiring, Five, Incoming}

(* A stored QoS 0 message, a PUBLISH and a SUBSCRIBE.                       *)
SomeMessages ==
  {[id |-> 0, type |-> "publish", len |-> 1], [id |-> 1, type |-> "publish", len |-> 2],
   [id |-> 2, type |-> "subscribe", len |-> 1]}

(* The outbox of the library, and that of the example twice, for messages   *)
(* of one piece: never emptied, and emptied.                                *)
Whole == {[id |-> m.id, type |-> m.type, len |-> m.len, rest |-> 0] : m \in Stored}
Store == INSTANCE OutboxStore WITH Messages <- Stored
Custom == INSTANCE CustomOutbox WITH
  Messages <- Whole, Clears <- FALSE
Cleared == INSTANCE CustomOutbox WITH
  Messages <- Whole, Clears <- TRUE,
  queue <- emptied, totalSize <- emptiedSize

Init ==
  /\ part \in {"session", "timing", "store", "custom", "cleared"}
  /\ SessionInit
  /\ part # "session" => setting = Plain
  /\ IF part = "timing" THEN TimingInit
     ELSE line = <<>> /\ since = 0 /\ late = 0 /\ more = 0 /\ lost = 0
  /\ Store!Init /\ Custom!Init /\ Cleared!Init

OnlySession == UNCHANGED <<part, timingVars, storeVars, customVars, clearedVars>>
OnlyOutbox == UNCHANGED <<part, sessionVars, timingVars>>

Next ==
  \/ part = "session" /\ SessionNext /\ OnlySession
  \/ /\ part = "timing" /\ TimingNext
     /\ UNCHANGED <<part, sessionVars, storeVars, customVars, clearedVars>>
  \/ part = "store" /\ Store!Next /\ OnlyOutbox /\ UNCHANGED <<customVars, clearedVars>>
  \/ part = "custom" /\ Custom!Next /\ OnlyOutbox /\ UNCHANGED <<storeVars, clearedVars>>
  \/ part = "cleared" /\ Cleared!Next /\ OnlyOutbox /\ UNCHANGED <<storeVars, customVars>>

Spec == Init /\ [][Next]_vars /\ (part = "session" => SessionFairness)

-----------------------------------------------------------------------------
(* The properties of the parts, each for the parts it is about.             *)

(* The size the outbox answers is that of the items there; that of the      *)
(* custom outbox covers them even after it was emptied.                     *)
SizeKept == Store!SizeExact /\ Cleared!NeverTooSmall

(* Session: what is handed over is passed on, or has expired; handshakes in *)
(* both directions end, and every subscription is answered.                 *)
HandshakesEnd ==
  part = "session" => EventuallyDelivered /\ OutboxEmpties /\ InboundEnds

(* CustomOutbox implements OutboxStore as long as it is not emptied.        *)
ImplementsLibrary == Custom!ImplementsLibrary
=============================================================================
