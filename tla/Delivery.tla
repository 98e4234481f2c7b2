------------------------------ MODULE Delivery ------------------------------
(* What a publisher is promised for the messages it has handed over: QoS 1  *)
(* is delivered at least once and QoS 2 exactly once before it is reported  *)
(* as published, and it is reported once.                                   *)
EXTENDS Integers

CONSTANT Messages

VARIABLES
  qos,       \* 0 while a message has not been handed over, else 1 or 2
  delivered, \* how often it went on to the subscribers: 0, 1 or 2 for more
  published  \* messages reported with MQTT_EVENT_PUBLISHED

vars == <<qos, delivered, published>>

Init ==
  /\ qos = [m \in Messages |-> 0]
  /\ delivered = [m \in Messages |-> 0]
  /\ published = {}

Accept(m) ==
  /\ qos[m] = 0
  /\ \E q \in {1, 2} : qos' = [qos EXCEPT ![m] = q]
  /\ UNCHANGED <<delivered, published>>

DeliverOnce(m) ==
  /\ qos[m] # 0 /\ delivered[m] = 0
  /\ delivered' = [delivered EXCEPT ![m] = 1]
  /\ UNCHANGED <<qos, published>>

DeliverAgain(m) ==
  /\ qos[m] = 1 /\ delivered[m] # 0
  /\ delivered' = [delivered EXCEPT ![m] = 2]
  /\ UNCHANGED <<qos, published>>

Report(m) ==
  /\ delivered[m] # 0 /\ m \notin published
  /\ published' = published \cup {m}
  /\ UNCHANGED <<qos, delivered>>

Next == \E m \in Messages : Accept(m) \/ DeliverOnce(m) \/ DeliverAgain(m) \/ Report(m)

Spec == Init /\ [][Next]_vars
=============================================================================
