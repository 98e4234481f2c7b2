------------------------------- MODULE Config -------------------------------
(* What an esp-mqtt client owns, from esp_mqtt_client_init to               *)
(* esp_mqtt_client_destroy: its configuration, its buffers and what MQTT 5  *)
(* adds, when allocations fail and the application configures it again.     *)
(* `Careful` limits what the application does; `Failing` says which         *)
(* allocations the heap may refuse it.                                      *)
(* Each function of the application holds api_lock: it is one action.       *)
EXTENDS Integers, Sequences

CONSTANTS
  Requests,     \* esp_mqtt_client_config_t: records [gives, nullId, certificate,
                \* transport, uri, version]; gives are members of Strings
  Uris,         \* arguments of set_uri: records [scheme, gives]
  Properties,   \* what set_connect_property is given: sets of ConnectStrings
  Failing,      \* the sets of blocks that may not be had, one for a behaviour
  Careful,      \* whether the application keeps to the conduct described below
  MaxCalls      \* bound: calls that configure the client

(* What set_config allocates, in the order of the code.                     *)
Strings == <<"config", "buffer", "in_buffer", "host", "path", "username", "password",
             "client_id", "uri", "will_topic", "will_message", "if_name",
             "alpn_protos", "alpn_proto", "clientkey_password", "scheme">>

(* What set_connect_property allocates.                                     *)
ConnectStrings == <<"peer_topic_alias", "connect_user", "content_type", "response_topic",
                    "correlation_data", "will_user">>

ASSUME ConfigAssumption ==
  /\ \A r \in Requests :
       /\ r.gives \subseteq {Strings[i] : i \in DOMAIN Strings}
                              \ {"config", "buffer", "in_buffer", "scheme"}
       /\ r.version \in {0, 3, 4, 5}
  /\ \A u \in Uris \cup {r.uri : r \in Requests} :
       u.gives \subseteq {"path", "username", "password"}
  /\ \A gives \in Properties :
       gives \subseteq {ConnectStrings[i] : i \in DOMAIN ConnectStrings}

Five == {"property", "mqtt5_config"}
Stored == {ConnectStrings[i] : i \in DOMAIN ConnectStrings} \cup {"disconnect_user"}
Blocks == {Strings[i] : i \in DOMAIN Strings} \cup Five \cup Stored

VARIABLES
  mode,    \* "none"; no task; its states between passes; MQTT_EVENT_BEFORE_CONNECT
  heap,     \* records [own, lost, fault]: the pointer to each block, blocks
            \* no pointer leads to, and whether one was misused
  version,  \* connect_info.protocol_ver, 0 for none
  scheme,   \* config->scheme
  lent,     \* the certificate and the ALPN list as the transport has them
  read,     \* in_buffer_read_len bytes of a message
  calls,
  scarce    \* the blocks that may not be had in this behaviour

configVars == <<mode, heap, version, scheme, lent, read, calls, scarce>>

NoLoan == [certificate |-> "null", alpn_protos |-> "null"]

ConfigInit ==
  /\ mode = "none"
  /\ heap = [own |-> [f \in Blocks |-> "null"], lost |-> {}, fault |-> FALSE]
  /\ version = 0 /\ scheme = "none" /\ lent = NoLoan /\ read = "none" /\ calls = 0
  /\ scarce \in Failing

-----------------------------------------------------------------------------
(* Mutant: what a pointer led to is left.                                   *)
AssignKept(h, live, null, kept) ==
  [own |-> [f \in Blocks |-> IF f \in live THEN "live" ELSE IF f \in null THEN "null" ELSE h.own[f]],
   lost |-> h.lost \cup {f \in live \cup null : h.own[f] = "live"},
   fault |-> h.fault]

(* Pointers get new values, after free(), but for those in `kept`.          *)
Assign(h, live, null, kept) ==
  [own |-> [f \in Blocks |-> IF f \in live THEN "live" ELSE IF f \in null THEN "null" ELSE h.own[f]],
   lost |-> h.lost \cup {f \in kept \cap (live \cup null) : h.own[f] = "live"},
   fault |-> h.fault \/ \E f \in (live \cup null) \ kept : h.own[f] = "dangling"]

(* Those of `gives` are assigned in the order of the code, up to `bad`.     *)
SetIfConfig(h, order, gives, bad, kept) ==
  LET done == {order[i] : i \in {j \in DOMAIN order : \A k \in 1..j : order[k] # bad}}
  IN Assign(h, done \cap gives, {bad} \cap gives, kept)

(* esp_mqtt_destroy_config: the pointers to the buffers, and to what MQTT 5 *)
(* has of its own, are left.                                                *)
DestroyConfig(h, v) ==
  LET five == IF v = 5 THEN Five ELSE {}
      gone == {Strings[i] : i \in DOMAIN Strings} \cup five \cup (IF v = 5 THEN Stored ELSE {})
  IN  IF h.own["config"] = "null" THEN h
      ELSE [own |-> [f \in Blocks |->
                       IF f \in {"buffer", "in_buffer"} \cup five
                         THEN IF h.own[f] = "null" THEN "null" ELSE "dangling"
                         ELSE IF f \in gone THEN "null" ELSE h.own[f]],
            lost |-> h.lost,
            fault |-> h.fault \/ \E f \in gone : h.own[f] = "dangling"]

(* esp_mqtt_client_destroy, once the task has ended: what only the client   *)
(* led to is lost with it.                                                  *)
DestroyClient(h, v) ==
  LET g == DestroyConfig(h, v)
  IN  [own |-> [f \in Blocks |-> "null"],
       lost |-> g.lost \cup {f \in Blocks : g.own[f] = "live"},
       fault |-> g.fault]

(* esp_mqtt_client_set_uri: it ends when the path is not had; user info     *)
(* replaces what username and password led to without free(), and only the  *)
(* path is checked.                                                         *)
UriOk(missing) == "path" \notin missing
UriSet(h, u, missing) ==
  LET user == IF UriOk(missing) /\ "user_info" \notin missing
                THEN u.gives \cap {"username", "password"} ELSE {}
      new == {"scheme", "host"} \cup ({"path"} \cap u.gives) \cup user
  IN  [Assign(h, new \ missing, (new \cap missing) \cup ({"path"} \ u.gives),
              {"username", "password"})
       EXCEPT !.fault = @ \/ h.own["config"] # "live"]

(* What a call of set_config asks for.                                      *)
Asked(h, r) ==
  (r.gives \ {f \in {"client_id"} : r.nullId}) \cup {"buffer", "in_buffer"}
    \cup {f \in {"config"} : h.own[f] = "null"}
    \cup {f \in {"client_id"} : h.own[f] = "null" /\ ~r.nullId}
    \cup (IF r.transport = "none" THEN {} ELSE {"scheme"})

(* What is allocated after the version is known.                            *)
Late == {"none", "if_name", "alpn_protos", "alpn_proto", "clientkey_password", "scheme"}

(* config->scheme afterwards, and esp_mqtt_check_cfg_conflict.              *)
SchemeOf(r, h) ==
  CASE h.own["scheme"] = "null" -> "none"
    [] h.own["scheme"] # "null" /\ "uri" \in r.gives -> r.uri.scheme
    [] OTHER -> IF r.transport = "none" THEN scheme ELSE r.transport
CheckConflict(r, h) ==
  \/ (r.certificate \/ h.own["alpn_protos"] = "live") /\ SchemeOf(r, h) # "ssl"
  \/ h.own["uri"] = "live" /\ r.transport # "none"
WithConflict(r, h) == IF CheckConflict(r, h) THEN "conflict" ELSE "ok"

(* esp_mqtt_set_config, with what it returns.  num_alpn_protos counts the   *)
(* list before it is there.  When a buffer is not, err is still ESP_OK.     *)
Configured(h, v, r, bad, missing) ==
  LET g == [SetIfConfig(h, Strings, Asked(h, r), bad, {"if_name", "clientkey_password"})
              EXCEPT !.fault = @ \/ bad = "alpn_protos"]
      w == CASE bad \notin Late -> v
             [] bad \in Late /\ r.version # 0 -> r.version
             [] OTHER -> IF v = 0 THEN 3 ELSE v
      u == UriSet(g, r.uri, missing)
      Failed(k, err) == [heap |-> DestroyConfig(k, w), version |-> 0, result |-> err]
  IN  CASE bad = "config" -> [heap |-> h, version |-> v, result |-> "no_mem"]
        [] bad \in {"buffer", "in_buffer"} -> Failed(g, "ok")
        [] bad \notin {"none", "config", "buffer", "in_buffer"} -> Failed(g, "no_mem")
        [] bad = "none" /\ "uri" \notin r.gives ->
             [heap |-> g, version |-> w, result |-> WithConflict(r, g)]
        [] bad = "none" /\ "uri" \in r.gives ->
             IF r.uri.scheme = "bad" THEN Failed(g, "fail")
             ELSE IF UriOk(missing)
               THEN [heap |-> u, version |-> w, result |-> WithConflict(r, u)]
             ELSE Failed(u, "fail")

-----------------------------------------------------------------------------
(* The application.                                                         *)

MayCall == calls < MaxCalls /\ calls' = calls + 1
BadOf(asked) == {"none"} \cup (scarce \cap asked)
Missing(gives) == SUBSET (scarce \cap ({"scheme", "host", "user_info"} \cup gives))

(* The conduct asked of the application.  It gives an interface name or a   *)
(* key password once, user info to a client that has no user, and no other  *)
(* protocol version; it configures no connected client; in                  *)
(* MQTT_EVENT_BEFORE_CONNECT it gives no certificate and no ALPN list, and  *)
(* configures no client whose transport has one; it configures a client     *)
(* with a task only with what set_config does not refuse, and where there   *)
(* is memory enough; and after a failure it only destroys the client.       *)
CarefulAbout(gives) == \A f \in gives : heap.own[f] # "live"
CarefulRequest(r) ==
  /\ heap.own["config"] # "null" \/ mode = "none"
  /\ CarefulAbout({"if_name", "clientkey_password"} \cap r.gives)
  /\ "uri" \in r.gives => CarefulAbout({"username", "password"} \cap r.uri.gives)
  /\ "uri" \in r.gives => r.gives \cap r.uri.gives \cap {"username", "password"} = {}
  /\ r.version \in {0, version} \/ mode = "none"
  /\ mode = "before" => ~r.certificate /\ "alpn_protos" \notin r.gives /\ lent = NoLoan
  /\ mode \in {"none", "stopped", "waiting", "before"}
  /\ \/ mode \in {"none", "stopped"}
     \/ scarce = {} /\ ("uri" \in r.gives => r.uri.scheme # "bad")

(* esp_mqtt_client_init with create_client_data, and                        *)
(* esp_mqtt5_create_default_config: an incomplete client is destroyed.      *)
ClientInit(r) ==
  /\ mode = "none" /\ MayCall
  /\ Careful => CarefulRequest(r)
  /\ \/ "client" \in scarce /\ UNCHANGED <<mode, heap, version, scheme>>
     \/ \E bad \in BadOf(Asked(heap, r) \cup Five), missing \in Missing(r.uri.gives) :
          LET c == Configured(heap, 0, r, IF bad \in Five THEN "none" ELSE bad, missing)
              five == IF c.version = 5
                        THEN SetIfConfig(c.heap, <<"property", "mqtt5_config">>, Five, bad, {})
                        ELSE c.heap
              done == c.result = "ok" /\ (c.version = 5 => bad \notin Five)
          IN  /\ heap' = IF done THEN [five EXCEPT !.fault = @ \/ five.own["config"] # "live"]
                         ELSE DestroyClient(five, c.version)
              /\ mode' = IF done THEN "stopped" ELSE "none"
              /\ version' = IF done THEN c.version ELSE 0
              /\ scheme' = IF done THEN SchemeOf(r, c.heap) ELSE "none"
  /\ UNCHANGED <<lent, read>>

(* What was freed or replaced while a transport has it.                     *)
Recalled(blocks) ==
  [f \in DOMAIN lent |-> IF f \in blocks /\ lent[f] = "current" THEN "stale" ELSE lent[f]]

(* A task that finds its configuration gone goes on all the same.           *)
LeftBehind(h) == [h EXCEPT !.fault = @ \/ (h.own["config"] # "live" /\ mode # "stopped")]

(* esp_mqtt_set_config on a client that is there; a conflict changes what   *)
(* it returns and nothing else.                                             *)
SetConfig(r) ==
  /\ mode # "none" /\ MayCall
  /\ Careful => CarefulRequest(r)
  /\ \E bad \in BadOf(Asked(heap, r)), missing \in Missing(r.uri.gives) :
       LET c == Configured(heap, version, r, bad, missing)
       IN  /\ heap' = LeftBehind(c.heap)
           /\ version' = c.version
           /\ scheme' = SchemeOf(r, c.heap)
           /\ lent' = Recalled({"certificate"} \cup ({"alpn_protos"} \cap
                                 (r.gives \cup (IF c.heap.own["config"] = "null"
                                                  THEN {"alpn_protos"} ELSE {}))))
           /\ read' = IF read = "bytes" THEN "garbage" ELSE read
  /\ UNCHANGED mode

SetUri(u) ==
  /\ mode # "none" /\ MayCall
  /\ Careful => heap.own["config"] = "live" /\ CarefulAbout({"username", "password"} \cap u.gives)
  /\ IF u.scheme = "bad" THEN UNCHANGED <<heap, scheme>>
     ELSE \E missing \in Missing(u.gives) :
            /\ heap' = UriSet(heap, u, missing)
            /\ scheme' = IF "scheme" \in missing THEN "none" ELSE u.scheme
  /\ UNCHANGED <<mode, version, lent, read>>

(* esp_mqtt5_client_set_connect_property: a failure destroys everything.    *)
SetConnectProperty(gives) ==
  /\ mode # "none" /\ version = 5 /\ MayCall
  /\ Careful => mode = "stopped" \/ scarce = {}
  /\ LET new == gives \ (IF heap.own["peer_topic_alias"] = "live" THEN {"peer_topic_alias"} ELSE {})
     IN \E bad \in BadOf(new) :
          LET g == SetIfConfig(heap, ConnectStrings, new, bad, {})
              h == [g EXCEPT !.fault = @ \/ heap.own["mqtt5_config"] # "live"]
          IN  /\ heap' = IF bad = "none" THEN h ELSE LeftBehind(DestroyConfig(h, version))
              /\ version' = IF bad = "none" THEN version ELSE 0
              /\ lent' = IF bad = "none" THEN lent ELSE Recalled({"alpn_protos"})
              /\ scheme' = IF bad = "none" THEN scheme ELSE "none"
  /\ UNCHANGED <<mode, read>>

(* esp_mqtt5_client_set_disconnect_property: when a property cannot be      *)
(* copied, those copied before it are lost.                                 *)
SetDisconnectProperty ==
  /\ mode # "none" /\ version = 5 /\ MayCall
  /\ \E bad \in BadOf({"disconnect_user", "user_property"}) :
       LET g == SetIfConfig(heap, <<"disconnect_user">>, {"disconnect_user"}, bad, {})
       IN  heap' = [own |-> IF bad = "user_property"
                                 THEN [g.own EXCEPT !["disconnect_user"] = "null"] ELSE g.own,
                    lost |-> IF bad = "user_property" THEN g.lost \cup {bad} ELSE g.lost,
                    fault |-> g.fault \/ heap.own["mqtt5_config"] # "live"]
  /\ UNCHANGED <<mode, version, scheme, lent, read>>

(* esp_mqtt_client_start.                                                   *)
StartClient ==
  /\ mode = "stopped"
  /\ Careful => heap.own["config"] = "live"
  /\ heap' = [heap EXCEPT !.fault = @ \/ heap.own["config"] # "live"]
  /\ mode' = "waiting"
  /\ UNCHANGED <<version, scheme, lent, read, calls>>

(* send_disconnect_msg: a DISCONNECT that is made takes its properties.     *)
SendDisconnect ==
  \/ UNCHANGED heap
  \/ version = 5 /\ heap' = [heap EXCEPT !.own["disconnect_user"] = "null"]

(* esp_mqtt_client_stop, with the end of the task.                          *)
StopClient ==
  /\ \/ mode = "waiting" /\ UNCHANGED heap
     \/ mode = "connected" /\ SendDisconnect
  /\ mode' = "stopped"
  /\ UNCHANGED <<version, scheme, lent, read, calls>>

Destroy ==
  /\ mode \in {"stopped", "waiting", "connected"}
  /\ heap' = DestroyClient(heap, version)
  /\ mode' = "none" /\ version' = 0 /\ scheme' = "none" /\ lent' = NoLoan /\ read' = "none"
  /\ UNCHANGED calls

-----------------------------------------------------------------------------
(* The task.                                                                *)

(* esp_mqtt_client_create_transport: a new list, or the task ends.          *)
CreateTransport == scheme # "none"

(* esp_mqtt_set_ssl_transport_properties with esp_mqtt_set_cert_key_data:   *)
(* the transport keeps the pointers.  Its result is not looked at.          *)
SetSslProperties ==
  \/ /\ scheme = "ssl"
     /\ lent' = [certificate |-> "current",
                 alpn_protos |-> IF heap.own["alpn_protos"] = "live" THEN "current" ELSE "null"]
  \/ lent' = NoLoan

(* Mutant: the properties are set for the first attempt only.               *)
AttemptOnce ==
  /\ mode = "waiting"
  /\ \/ /\ CreateTransport /\ mode' = "before"
        /\ IF lent = NoLoan THEN SetSslProperties ELSE UNCHANGED lent
     \/ mode' = "stopped" /\ lent' = NoLoan
  /\ UNCHANGED <<heap, version, scheme, read, calls>>

(* MQTT_STATE_INIT, up to MQTT_EVENT_BEFORE_CONNECT.                        *)
Attempt ==
  /\ mode = "waiting"
  /\ \/ CreateTransport /\ mode' = "before" /\ SetSslProperties
     \/ mode' = "stopped" /\ lent' = NoLoan
  /\ UNCHANGED <<heap, version, scheme, read, calls>>

(* esp_transport_connect and esp_mqtt_connect.                              *)
ConnectTransport ==
  /\ mode = "before"
  /\ mode' \in {"connected", "waiting"}
  /\ read' = "none"
  /\ heap' = [heap EXCEPT !.fault =
                @ \/ "stale" \in {lent[f] : f \in DOMAIN lent}
                  \/ (version = 5 /\ heap.own["mqtt5_config"] # "live")]
  /\ UNCHANGED <<version, scheme, lent, calls>>

(* A pass of a connected task: a message is read, in parts, or the          *)
(* connection breaks.                                                       *)
ReceivePart ==
  /\ mode = "connected"
  /\ \/ read' \in {"none", "bytes"} /\ UNCHANGED mode
     \/ mode' = "waiting" /\ UNCHANGED read
  /\ UNCHANGED <<heap, version, scheme, lent, calls>>

ConfigStep ==
  \/ \E r \in Requests : ClientInit(r) \/ SetConfig(r)
  \/ \E u \in Uris : SetUri(u)
  \/ \E gives \in Properties : SetConnectProperty(gives)
  \/ SetDisconnectProperty
  \/ StartClient \/ StopClient \/ Destroy
  \/ Attempt \/ ConnectTransport \/ ReceivePart

ConfigNext == ConfigStep /\ UNCHANGED scarce

ConfigSpec == ConfigInit /\ [][ConfigNext]_configVars

-----------------------------------------------------------------------------
(* The allocations whose failure the code survives in an application of     *)
(* that conduct.  Without a buffer esp_mqtt_set_config returns ESP_OK and   *)
(* leaves no configuration, without an ALPN list it frees the protocols of  *)
(* a list that is not there, and without a user property                    *)
(* esp_mqtt5_client_set_disconnect_property loses those copied before.      *)
Survivable ==
  \A s \in Failing : s \cap {"buffer", "in_buffer", "alpn_protos", "user_property"} = {}

(* No block is freed twice or used after it was freed, and no NULL pointer  *)
(* is followed: a running client has its configuration and its buffers, and *)
(* the bytes read of a message are in the buffer they were read into; nor is*)
(* a connection made with a certificate or an ALPN list that is no longer   *)
(* its configuration's (mqtt_client.c:652, mqtt_client.c:1694).  This holds *)
(* of a careful application when the allocations that fail are survivable.  *)
NoFault ==
  /\ ~heap.fault
  /\ mode = "connected" => read # "garbage"
  /\ mode \notin {"none", "stopped"} =>
       \A f \in {"config", "buffer", "in_buffer"} : heap.own[f] = "live"

(* Every block is freed or can still be, and after destroy() nothing is     *)
(* left, when any of the survivable allocations fail, one or several, at    *)
(* any call (mqtt_client.c:923-947).                                        *)
NothingLost ==
  /\ heap.lost = {}
  /\ mode = "none" => \A f \in Blocks : heap.own[f] = "null"
=============================================================================
