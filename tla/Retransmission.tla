--------------------------- MODULE Retransmission ---------------------------
(* When esp-mqtt sends what is in its outbox, in ticks: the pass of a       *)
(* connected client (esp_mqtt_task), message_retransmit_timeout and         *)
(* OUTBOX_EXPIRED_TIMEOUT_MS.  The model begins when a connection comes     *)
(* back; a message sent on it is acknowledged within Answer ticks.          *)
EXTENDS Outbox

CONSTANTS
  Waiting,  \* messages sent on an earlier connection, not acknowledged
  New,      \* bound: messages enqueued
  MaxAge,   \* the age of the waiting messages
  Period,   \* message_retransmit_timeout
  Expiry,   \* OUTBOX_EXPIRED_TIMEOUT_MS
  MaxPass,  \* bound: ticks from one pass to the next
  Answer    \* ticks from a message to its acknowledgement

VARIABLES
  line,     \* the outbox: records [pending, age, sent]: sent is the number of ticks since
            \* it was sent on this connection, -1 before
  since,    \* ticks since last_retransmit
  late,     \* ticks since the last pass
  more,     \* messages still to be enqueued
  lost      \* items deleted as expired

timingVars == <<line, since, late, more, lost>>

ASSUME TimingAssumption ==
  {Waiting, New, MaxAge, Period, Expiry, Answer} \subseteq Nat /\ MaxPass \in Nat \ {0}

TimingInit ==
  /\ line \in [1..Waiting -> [pending : {"transmitted"}, age : 0..MaxAge, sent : {-1}]]
  /\ \A i, j \in DOMAIN line : i < j => line[i].age >= line[j].age
  /\ since \in 0..(Period + 1)
  /\ late = 0 /\ more = New /\ lost = 0

(* A pass is at most MaxPass ticks after the one before.                    *)
Tick ==
  /\ late < MaxPass /\ line # <<>>
  /\ late' = late + 1
  /\ since' = IF since > Period THEN since ELSE since + 1
  /\ line' = [i \in DOMAIN line |->
                 [line[i] EXCEPT !.age = @ + 1,
                                   !.sent = IF @ = -1 \/ @ > Answer THEN @ ELSE @ + 1]]
  /\ UNCHANGED <<more, lost>>

(* esp_mqtt_client_enqueue.                                                 *)
EnqueueNew ==
  /\ more > 0
  /\ more' = more - 1
  /\ line' = Enqueue(line, [pending |-> "new", age |-> 0, sent |-> -1])
  /\ UNCHANGED <<since, late, lost>>

(* What a pass finds after mqtt_delete_expired_messages and after it has    *)
(* read at most one acknowledgement: one that is there by now is read.      *)
Fresh == Without(line, {i \in DOMAIN line : line[i].age > Expiry})
Acknowledged == {i \in DOMAIN Fresh : Fresh[i].sent >= 0}
Overdue == {i \in DOMAIN Fresh : Fresh[i].sent >= Answer}
Read ==
  {RemoveAt(Fresh, i) : i \in Acknowledged} \cup (IF Overdue = {} THEN {Fresh} ELSE {})

Sent(q, i) == [q EXCEPT ![i].pending = "transmitted",
                        ![i].sent = IF @ = -1 THEN 0 ELSE @]

(* Mutant: last_retransmit is set on every pass.                            *)
SendAlways(q) ==
  LET queued == Dequeue(q, "queued")
      first == Dequeue(q, "transmitted")
  IN /\ since' = 0
     /\ line' = CASE queued # 0 -> Sent(q, queued)
                    [] queued = 0 /\ since >= Period /\ first # 0 /\ q[first].age > Period
                         -> Sent(q, first)
                    [] OTHER -> q

(* The first QUEUED item is sent; without one, and when it is time, the     *)
(* first TRANSMITTED one, if it is older than the timeout.                  *)
Send(q) ==
  LET queued == Dequeue(q, "queued")
      first == Dequeue(q, "transmitted")
  IN IF queued # 0
       THEN line' = Sent(q, queued) /\ UNCHANGED since
       ELSE IF since >= Period
         THEN /\ since' = 0
              /\ line' = IF first # 0 /\ q[first].age > Period THEN Sent(q, first) ELSE q
         ELSE line' = q /\ UNCHANGED since

Pass ==
  /\ line # <<>>
  /\ late' = 0
  /\ lost' = lost + Len(line) - Len(Fresh)
  /\ \E q \in Read : Send(q)
  /\ UNCHANGED more

TimingNext == Tick \/ EnqueueNew \/ Pass

-----------------------------------------------------------------------------
(* An item is sent again every Period, a pass later at most, the first once *)
(* it is older than Period.  Each new message takes a pass to be sent and   *)
(* one to be acknowledged, and both may come before what an old one waits   *)
(* for.  The first is acknowledged before the next is due.                  *)
Enough ==
  /\ Answer + (New + 1) * MaxPass <= Period
  /\ \A age \in {MaxAge, Period} :
       age + Waiting * (Period + MaxPass) + (2 * New + 1) * MaxPass + Answer <= Expiry

(* The messages a broken connection left unacknowledged, of which only the  *)
(* first is sent again at a time, are all sent again before they expire, if *)
(* they are not too many.                                                   *)
NoneExpires == Enough => lost = 0
=============================================================================
