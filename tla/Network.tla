------------------------------ MODULE Network ------------------------------
(* The MQTT broker between the validation script (RandomForest/mqtt.py) and *)
(* the ESP32.  It is not part of the repository; the README asks for a      *)
(* Mosquitto on the local network.  Both programs publish with QoS 0 on one *)
(* topic each and connect with a clean session, so the broker is two FIFO   *)
(* pipes, and the one towards the device exists only while the device is    *)
(* connected and subscribed.                                                *)
EXTENDS Naturals, Sequences

CONSTANT
  Rows        \* number of lines of Xtest.csv after the header

ASSUME NetworkAssumption == Rows \in Nat

VARIABLES
  toDevice,   \* /esp32/sub: ids of requests on their way to the device
  toHost,     \* /esp32/pub: ids of answers on their way to the script
  online      \* the broker holds a live session with the device's subscription

(* The sequence number i packed at the end of each request (mqtt.py:96)     *)
(* identifies the row; the features and the label are functions of it.      *)
Ids == 0..(Rows - 1)

(* A QoS 0 publication reaches the subscribers of the moment or nobody.     *)
RouteToDevice(id) ==
  toDevice' = IF online THEN Append(toDevice, id) ELSE toDevice

(* The script subscribes before it publishes, on the same connection to a   *)
(* broker on its own host, so the answers are always routed to it.          *)
RouteToHost(id) == toHost' = Append(toHost, id)

(* The device's TCP connection dies with what was travelling on it.         *)
DropSession ==
  /\ online' = FALSE
  /\ toDevice' = <<>>

NetworkTypeOK ==
  /\ toDevice \in Seq(Ids)
  /\ toHost \in Seq(Ids)
  /\ online \in BOOLEAN
=============================================================================
