----------------------------- MODULE Keepalive ------------------------------
(* The keepalive of esp-mqtt: process_keepalive, the PINGREQ it sends and   *)
(* the PINGRESP mqtt_process_receive takes.  Time advances in ticks; a pass *)
(* of the task's loop comes at the latest MaxPass ticks after the one       *)
(* before, and takes at most one message from the connection.               *)
EXTENDS Integers

CONSTANTS
  Half,     \* keepalive_ms / 2, in ticks
  MaxPass,  \* bound: ticks from one pass to the next
  Answer,   \* ticks in which a living broker answers a PINGREQ
  Backlog   \* messages that may arrive before the PINGRESP

ASSUME KeepaliveAssumption ==
  Half \in Nat \ {0} /\ {MaxPass, Answer, Backlog} \subseteq Nat

VARIABLES
  up,       \* MQTT_STATE_CONNECTED
  waiting,  \* client->wait_for_ping_resp
  age,      \* ticks since client->keepalive_tick
  late,     \* ticks since the last pass
  reply,    \* "none", "due" after a PINGREQ, "arrived"
  owed,     \* ticks the PINGREQ has been unanswered
  ahead,    \* messages to be read before the PINGRESP
  alive,    \* the broker works
  silence,  \* ticks since the client wrote a packet
  quiet,    \* ticks since it read a CONNACK or PINGRESP
  alarm     \* the last connection ended for want of a PINGRESP

keepaliveVars == <<up, waiting, age, late, reply, owed, ahead, alive, silence, quiet, alarm>>

KeepaliveTypeOK ==
  /\ {up, waiting, alive, alarm} \subseteq BOOLEAN
  /\ {age, silence, quiet} \subseteq Nat
  /\ late \in 0..MaxPass
  /\ reply \in {"none", "due", "arrived"}
  /\ owed \in 0..Answer
  /\ ahead \in 0..Backlog

KeepaliveInit ==
  /\ up = TRUE /\ waiting = FALSE /\ age = 0 /\ late = 0
  /\ reply = "none" /\ owed = 0 /\ ahead = 0
  /\ alive = TRUE /\ silence = 0 /\ quiet = 0 /\ alarm = FALSE

(* Time passes for a connected client until the next pass is due.           *)
Tick ==
  /\ up /\ late < MaxPass
  /\ alive /\ reply = "due" => owed < Answer
  /\ age' = age + 1 /\ late' = late + 1 /\ silence' = silence + 1 /\ quiet' = quiet + 1
  /\ owed' = IF reply = "due" /\ alive THEN owed + 1 ELSE 0
  /\ UNCHANGED <<up, waiting, reply, ahead, alive, alarm>>

(* has_timed_out for what was `since` ticks ago.                            *)
HasTimedOut(since, timeout) == since >= timeout

(* What mqtt_process_receive leaves of keepalive_tick and                   *)
(* wait_for_ping_resp when this pass reads the PINGRESP, or does not.       *)
Answered == reply = "arrived" /\ ahead = 0
AgeNow == IF Answered THEN 0 ELSE age

(* Mutant: the PINGRESP does not clear wait_for_ping_resp.                  *)
WaitsOn == waiting

Waits == waiting /\ ~Answered

(* A pass with nothing to do but to read.                                   *)
PassReads ==
  /\ up /\ ~HasTimedOut(AgeNow, IF Waits THEN 2 * Half ELSE Half)
  /\ waiting' = Waits /\ age' = AgeNow /\ late' = 0
  /\ reply' = IF Answered THEN "none" ELSE reply
  /\ ahead' = IF reply = "arrived" /\ ahead > 0 THEN ahead - 1 ELSE ahead
  /\ quiet' = IF Answered THEN 0 ELSE quiet
  /\ UNCHANGED <<up, owed, alive, silence, alarm>>

(* Mutant: keepalive_tick is set when the PINGREQ is sent.                  *)
PassPingRestarts ==
  /\ up /\ ~Waits /\ HasTimedOut(AgeNow, Half)
  /\ waiting' = TRUE /\ age' = 0 /\ late' = 0
  /\ reply' = "due" /\ owed' = 0 /\ ahead' = 0 /\ silence' = 0
  /\ quiet' = IF Answered THEN 0 ELSE quiet
  /\ UNCHANGED <<up, alive, alarm>>

PassPings ==
  /\ up /\ ~Waits /\ HasTimedOut(AgeNow, Half)
  /\ waiting' = TRUE /\ age' = AgeNow /\ late' = 0
  /\ reply' = "due" /\ owed' = 0 /\ ahead' = 0 /\ silence' = 0
  /\ quiet' = IF Answered THEN 0 ELSE quiet
  /\ UNCHANGED <<up, alive, alarm>>

(* esp_mqtt_abort_connection.                                               *)
AbortConnection(noAnswer) ==
  /\ up' = FALSE /\ waiting' = FALSE /\ alarm' = noAnswer
  /\ late' = 0 /\ reply' = "none" /\ owed' = 0 /\ ahead' = 0
  /\ UNCHANGED <<age, alive, silence, quiet>>

PassGivesUp ==
  /\ up /\ Waits /\ HasTimedOut(AgeNow, 2 * Half)
  /\ AbortConnection(TRUE)

(* The PINGREQ, or anything else, cannot be written or read.                *)
PassFails ==
  /\ up
  /\ AbortConnection(FALSE)

(* esp_mqtt_connect and the end of MQTT_STATE_INIT.                         *)
Reconnect ==
  /\ ~up
  /\ up' = TRUE /\ waiting' = FALSE /\ age' = 0 /\ silence' = 0 /\ quiet' = 0
  /\ alive' = TRUE /\ alarm' = FALSE
  /\ UNCHANGED <<late, reply, owed, ahead>>

BrokerAnswers ==
  /\ alive /\ reply = "due"
  /\ reply' = "arrived" /\ owed' = 0
  /\ ahead' \in 0..Backlog
  /\ UNCHANGED <<up, waiting, age, late, alive, silence, quiet, alarm>>

BrokerDies ==
  /\ up /\ alive
  /\ alive' = FALSE
  /\ UNCHANGED <<up, waiting, age, late, reply, owed, ahead, silence, quiet, alarm>>

KeepaliveNext ==
  \/ Tick \/ PassReads \/ PassPings \/ PassGivesUp \/ PassFails \/ Reconnect
  \/ BrokerAnswers \/ BrokerDies

KeepaliveSpec == KeepaliveInit /\ [][KeepaliveNext]_keepaliveVars

-----------------------------------------------------------------------------
(* Properties.                                                              *)

(* Half the keepalive is enough for an answer, a late pass and the passes   *)
(* that read what came before the answer.                                   *)
Enough == Half >= Answer + (Backlog + 2) * MaxPass

(* A broker that works and answers in time is not cut off for want of a     *)
(* PINGRESP.                                                                *)
NoFalseAlarm == Enough /\ alarm => ~alive

(* A connection whose broker is silent does not outlive the keepalive by    *)
(* more than a pass.                                                        *)
DeadPeerDetected == up => quiet <= 2 * Half + MaxPass

(* A broker that answers in time hears of the client within the keepalive,  *)
(* as the comment on PINGRESP asks, though a PINGREQ is timed by the last   *)
(* PINGRESP and not by what the client wrote.                               *)
BrokerHears == Enough /\ up /\ alive => silence <= 2 * Half

(* Neither side waits too long to notice that the other has gone.           *)
PeerWatched == DeadPeerDetected /\ BrokerHears
=============================================================================
