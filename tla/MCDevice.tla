------------------------------ MODULE MCDevice ------------------------------
(* Parts of the device's program that share no state in the models: three   *)
(* of one esp-mqtt client, what the application sets up before it, and the  *)
(* prediction.  TLC takes one of them for the whole of a behaviour, the     *)
(* others stay as they are.                                                 *)
EXTENDS Lifecycle, Receive, Keepalive, Config, Ethernet, Forest, Vote

VARIABLE part

setupVars == <<configVars, ethernetVars>>
predictionVars == <<forestVars, voteVars>>
vars == <<part, lifecycleVars, receiveVars, keepaliveVars, setupVars, predictionVars>>

-----------------------------------------------------------------------------
(* The client.                                                              *)

(* One client connects again by itself; the other does when asked, and      *)
(* another thread publishes.                                                *)
Automatic == [autoReconnect |-> TRUE, publishFails |-> FALSE, five |-> TRUE, maxRequests |-> 3]
Manual == [autoReconnect |-> FALSE, publishFails |-> TRUE, five |-> FALSE, maxRequests |-> 2]
Clients == {Automatic, Manual}

(* An MQTT 3.1.1 client whose other threads publish nothing.                *)
Undisturbed == {[Automatic EXCEPT !.five = FALSE]}

(* A stream of a message that fits, an acknowledgement, one that is longer  *)
(* than the buffer of 8 bytes and is read in several parts, and one whose   *)
(* third byte can be taken for a part of the remaining length.              *)
Sent(type, fixed, topic, qos, payload, high) ==
  [type |-> type, fixed |-> fixed, topic |-> topic, qos |-> qos,
   payload |-> payload, high |-> high]
SomeMessages ==
  <<Sent("connack", 2, 0, 0, 2, {}), Sent("puback", 2, 0, 0, 2, {}),
    Sent("publish", 3, 1, 1, 10, {}), Sent("publish", 2, 1, 0, 1, {}),
    Sent("puback", 2, 0, 0, 2, {3})>>

(* What the bytes of the long payload may look like: an acknowledgement, a  *)
(* message that ends with them, and one whose end never comes.              *)
SomeStrays ==
  {Sent("puback", 2, 0, 0, 2, {}), Sent("publish", 2, 0, 1, 1, {}),
   Sent("publish", 3, 1, 0, 30, {})}

-----------------------------------------------------------------------------
(* What is set up.                                                          *)

(* Configurations: MQTT 5 over TLS with everything in the URI, a host with  *)
(* what leaks when it is given twice, TLS without a URI and without a client*)
(* id, and a URI that is none.                                              *)
Uri(s, g) == [scheme |-> s, gives |-> g]
Request(g, c, t, u, v) ==
  [gives |-> g, nullId |-> FALSE, certificate |-> c, transport |-> t, uri |-> u, version |-> v]

Configurations ==
  {Request({"uri", "client_id", "will_topic", "will_message", "alpn_protos", "alpn_proto"},
           TRUE, "none", Uri("ssl", {"path", "username", "password"}), 5),
   Request({"host", "username", "password", "if_name", "clientkey_password"},
           FALSE, "tcp", Uri("none", {}), 0),
   [Request({"host", "alpn_protos", "alpn_proto"}, TRUE, "ssl", Uri("none", {}), 0)
    EXCEPT !.nullId = TRUE],
   Request({"uri"}, FALSE, "none", Uri("bad", {}), 3)}

(* One configuration over TLS, and what may be wanting where it is used.    *)
Secure == {Request({"host", "alpn_protos", "alpn_proto"}, TRUE, "ssl", Uri("none", {}), 0)}

Addresses == {Uri("tcp", {"path"}), Uri("ssl", {"username"}), Uri("bad", {})}

ConnectProperties ==
  {{"peer_topic_alias", "connect_user"},
   {"connect_user", "content_type", "correlation_data", "will_user"}}

Scarce == {"client", "config", "host", "path", "client_id", "will_message", "alpn_proto",
           "clientkey_password", "scheme", "username", "property", "mqtt5_config",
           "connect_user", "will_user", "disconnect_user", "user_info"}
MayFail == {{}, Scarce}
Plenty == {{}}
NoBuffer == {{}, {"buffer", "in_buffer"}}

SomeTroubles == {{}, {"chip", "service", "handler"}}

(* A device for every function that makes one.                              *)
Board == <<"internal", "bus", "enc28j60", "duplex", "openeth", "handler", "plca">>

-----------------------------------------------------------------------------
(* The prediction: every tree of at most two splits over two features and   *)
(* at most three leaves of different classes, and one tree with an index    *)
(* struct.pack refuses.                                                     *)

Values == 0..2

(* Middles of two different values.                                         *)
Thresholds == {p + q : p, q \in Values} \ {2 * v : v \in {0, 2}}

(* <<children_left, children_right>> in the order scikit-learn builds them. *)
SmallShapes == {
  << <<-1>>, <<-1>> >>,
  << <<1, -1, -1>>, <<2, -1, -1>> >>,
  << <<1, 2, -1, -1, -1>>, <<4, 3, -1, -1, -1>> >>,
  << <<1, -1, 3, -1, -1>>, <<2, -1, 4, -1, -1>> >> }

FromShape(s, f, t) ==
  LET ids == 0..(Len(s[1]) - 1) IN
    [ node_count |-> Len(s[1]),
      left      |-> [i \in ids |-> s[1][i + 1]],
      right     |-> [i \in ids |-> s[2][i + 1]],
      feature   |-> [i \in ids |-> IF s[1][i + 1] = -1 THEN -2 ELSE f[i]],
      threshold |-> [i \in ids |-> IF s[1][i + 1] = -1 THEN -2 ELSE t[i]],
      class     |-> [i \in ids |-> IF s[1][i + 1] = -1 THEN i ELSE 0] ]

SmallTrees ==
  { FromShape(s, f, t) :
      s \in SmallShapes, f \in [0..2 -> {0, 1}], t \in [0..2 -> Thresholds] }

LargeTree ==
  FromShape(<< <<1, 2, -1, -1, 5, -1, -1>>, <<4, 3, -1, -1, 6, -1, -1>> >>,
            [i \in 0..6 |-> 0], [i \in 0..6 |-> 1])

MCTrees == SmallTrees \cup {LargeTree}

MCInstances == [{0, 1} -> Values]

-----------------------------------------------------------------------------
Init ==
  /\ part \in {"lifecycle", "receive", "keepalive", "config", "ethernet", "forest", "vote"}
  /\ LifecycleInit /\ ReceiveInit /\ KeepaliveInit
  /\ ConfigInit /\ EthernetInit
  /\ part # "forest" => tree = LargeTree /\ row = [f \in {0, 1} |-> 0]
  /\ ForestInit /\ VoteInit
  /\ part = "lifecycle" \/ setting = Automatic
  /\ part = "receive" \/ ~pausing
  /\ part = "config" \/ scarce = {}
  /\ part = "ethernet" \/ trouble = {}

Next ==
  /\ UNCHANGED part
  /\ \/ /\ part = "lifecycle" /\ LifecycleNext
        /\ UNCHANGED <<receiveVars, keepaliveVars, setupVars, predictionVars>>
     \/ /\ part = "receive" /\ ReceiveNext
        /\ UNCHANGED <<lifecycleVars, keepaliveVars, setupVars, predictionVars>>
     \/ /\ part = "keepalive" /\ KeepaliveNext
        /\ UNCHANGED <<lifecycleVars, receiveVars, setupVars, predictionVars>>
     \/ /\ part = "config" /\ ConfigNext
        /\ UNCHANGED <<lifecycleVars, receiveVars, keepaliveVars, ethernetVars, predictionVars>>
     \/ /\ part = "ethernet" /\ EthernetNext
        /\ UNCHANGED <<lifecycleVars, receiveVars, keepaliveVars, configVars, predictionVars>>
     \/ /\ part = "forest" /\ ForestNext
        /\ UNCHANGED <<lifecycleVars, receiveVars, keepaliveVars, setupVars, voteVars>>
     \/ /\ part = "vote" /\ VoteNext
        /\ UNCHANGED <<lifecycleVars, receiveVars, keepaliveVars, setupVars, forestVars>>

Alone(p, A, others) == part = p /\ A /\ UNCHANGED <<part, setupVars, keepaliveVars, others>>
InLifecycle(A) == Alone("lifecycle", Lives(A), <<receiveVars, predictionVars>>)
InReceive(A) == Alone("receive", Receives(A), <<lifecycleVars, predictionVars>>)
InForest(A) == Alone("forest", A, <<lifecycleVars, receiveVars, voteVars>>)

(* The fairness of LifecycleSpec, of ReceiveSpec and of FairForestSpec.     *)
Fairness ==
  /\ \A t \in Tasks : WF_vars(InLifecycle(Task(t))) /\ SF_vars(InLifecycle(WaitOver(t)))
  /\ WF_vars(InLifecycle(StopReturns)) /\ WF_vars(InLifecycle(ReconnectSets))
  /\ WF_vars(InReceive(EnterReceive)) /\ WF_vars(InReceive(Reopen))
  /\ SF_vars(InReceive(Progress))
  /\ WF_vars(InForest(ForestNext))

Spec == Init /\ [][Next]_vars /\ Fairness

-----------------------------------------------------------------------------
(* The type of every variable of the client and of the forest.              *)
TypeOK == LifecycleTypeOK /\ ReceiveTypeOK /\ KeepaliveTypeOK /\ ForestTypeOK

(* disconnect(), stop() and destroy() are served; with auto_reconnect the   *)
(* client does not stay waiting, without it only a call of reconnect() made *)
(* since the last attempt ends the wait; every message of an unbroken       *)
(* connection is handled in the end.                                        *)
EverythingServed ==
  /\ DisconnectServed /\ StopIsOver /\ TriesAgain
  /\ OnlyOnRequest
  /\ part = "receive" => AllHandled

(* The descent through a tree that could be exported ends.                  *)
PredictionEnds == part = "forest" => Decides
=============================================================================
