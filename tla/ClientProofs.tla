---------------------------- MODULE ClientProofs ----------------------------
(* The parts of one esp-mqtt client that module MCDevice checks.            *)
EXTENDS MCDevice, PredictionProofs, SequenceTheorems, FiniteSetTheorems, WellFoundedInduction, TLAPS

-----------------------------------------------------------------------------
(* The end of the tasks of a client, for any number of starts and calls.    *)

Begun == Passing \cup {"loop", "polling", "waiting", "closing", "closed", "ended"}
Owners == {"ready", "running", "stopping", "stopped", "destroying", "destroyed"}

(* STOPPED_BIT speaks of the task that is there: it is clear from the start *)
(* of the loop to the last step, and who waits for it waits for a task in   *)
(* its loop.  A task that is on its way out has run = false behind it, so   *)
(* no second stop() begins; its state is what the next start() looks at.    *)
LifeInv ==
  /\ task \in [Tasks -> TaskPc] /\ seen \subseteq Tasks /\ owner \in Owners
  /\ lock = {t \in Tasks : task[t] \in Passing}
  /\ \A t, u \in Alive : t = u
  /\ owner \in {"ready", "stopped", "destroyed"} => Alive = {}
  /\ Alive = {} => ~run
  /\ \A t \in Tasks : task[t] \in {"created", "closing", "closed", "ended"} => ~run
  /\ \A t \in Tasks : task[t] \in Begun => "stopped" \notin bits
  /\ \A t \in seen : task[t] \in Begun \cup {"done"}
  /\ owner \in {"stopping", "destroying"} => Alive \subseteq seen
  /\ \A t \in Tasks : task[t] \in {"closed", "ended"} => ~open
  /\ \A t \in Tasks : task[t] = "ended" => state = "disconnected"
  /\ Alive = {} /\ (\E t \in Tasks : task[t] = "done") => state = "disconnected" /\ ~open

LEMMA InitLife == LifecycleInit => LifeInv
BY DEF LifecycleInit, LifeInv, TaskPc, Passing, Owners, Alive, Begun

(* A task that moves is the only one there is.                              *)
LEMMA OneMoves ==
  ASSUME LifeInv, NEW t \in Tasks, t \in Alive, NEW goal \in TaskPc \ {"none"}, Goto(t, goal)
  PROVE  /\ task' \in [Tasks -> TaskPc] /\ task'[t] = goal
         /\ \A u \in Tasks \ {t} : task'[u] = task[u] /\ task[u] \in {"none", "done"}
         /\ Alive = {t}
         /\ Alive' = IF goal = "done" THEN {} ELSE {t}
<1>1. /\ task' \in [Tasks -> TaskPc] /\ task'[t] = goal
      /\ \A u \in Tasks \ {t} : task'[u] = task[u]
  BY DEF LifeInv, Goto
<1>2. \A u \in Tasks \ {t} : u \notin Alive
  BY DEF LifeInv
<1>3. \A u \in Tasks \ {t} : task[u] \in {"none", "done"}
  BY <1>2 DEF Alive
<1>4. Alive = {t}
  BY <1>2 DEF Alive
<1>5. Alive' = IF goal = "done" THEN {} ELSE {t}
  BY <1>1, <1>3 DEF Alive
<1>. QED  BY <1>1, <1>3, <1>4, <1>5

(* The steps of a task keep the invariant.                                  *)
LEMMA TaskKeepsLife ==
  ASSUME LifeInv, NEW t \in Tasks, Task(t)
  PROVE  LifeInv'
<1>1. t \in Alive
  BY DEF Task, TaskRuns, TaskClearsStopped, BeginPass, PassDisconnected, PassInit, NoTransport,
    Connect, PassDisconnect, PassReceives, PassResends, PassReleases, Sends,
    PassKeepsAlive, PassRefreshes, WaitOver, KeepWaiting, Wakes, Poll,
    TaskCloses, TaskSetsState, TaskEnds, Alive
<1>2. ASSUME NEW goal \in TaskPc \ {"none"}, Goto(t, goal)
      PROVE  /\ task' \in [Tasks -> TaskPc] /\ task'[t] = goal
             /\ \A u \in Tasks \ {t} : task'[u] = task[u] /\ task[u] \in {"none", "done"}
             /\ Alive = {t}
             /\ Alive' = IF goal = "done" THEN {} ELSE {t}
  BY <1>1, <1>2, OneMoves
<1>3. CASE TaskRuns(t)
  BY <1>2, <1>3 DEF TaskRuns, LifeInv, TaskPc, Passing, Begun, apis
<1>4. CASE TaskClearsStopped(t)
  BY <1>2, <1>4 DEF TaskClearsStopped, LifeInv, TaskPc, Passing, Begun, apis
<1>5. CASE BeginPass(t)
  BY <1>2, <1>5 DEF BeginPass, LifeInv, TaskPc, Passing, Begun, apis
<1>6. CASE PassDisconnected(t)
  BY <1>2, <1>6 DEF PassDisconnected, EndPass, LifeInv, TaskPc, Passing, Begun, apis
<1>7. CASE PassInit(t)
  BY <1>2, <1>7 DEF PassInit, LifeInv, TaskPc, Passing, Begun, apis
<1>8. CASE NoTransport(t)
  BY <1>2, <1>8 DEF NoTransport, EndPass, LifeInv, TaskPc, Passing, Begun, apis
<1>9. CASE Connect(t)
  BY <1>2, <1>9 DEF Connect, EndPass, Abort, LifeInv, TaskPc, Passing, Begun, apis
<1>10. CASE PassDisconnect(t)
  BY <1>2, <1>10 DEF PassDisconnect, EndPass, Abort, LifeInv, TaskPc, Passing, Begun, apis
<1>11. CASE PassReceives(t)
  BY <1>2, <1>11 DEF PassReceives, EndPass, Abort, LifeInv, TaskPc, Passing, Begun, apis
<1>19. CASE PassResends(t) \/ PassReleases(t)
  BY <1>2, <1>19 DEF PassResends, PassReleases, Sends, Abort, LifeInv, TaskPc, Passing, Begun, apis
<1>20. CASE PassKeepsAlive(t)
  BY <1>2, <1>20 DEF PassKeepsAlive, EndPass, Abort, LifeInv, TaskPc, Passing, Begun, apis
<1>21. CASE PassRefreshes(t)
  BY <1>2, <1>21 DEF PassRefreshes, EndPass, Abort, LifeInv, TaskPc, Passing, Begun, apis
<1>12. CASE WaitOver(t)
  BY <1>2, <1>12 DEF WaitOver, EndPass, LifeInv, TaskPc, Passing, Begun, apis
<1>13. CASE KeepWaiting(t)
  BY <1>2, <1>13 DEF KeepWaiting, LifeInv, TaskPc, Passing, Begun, apis
<1>14. CASE Wakes(t)
  BY <1>2, <1>14 DEF Wakes, LifeInv, TaskPc, Passing, Begun, apis
<1>15. CASE Poll(t)
  BY <1>2, <1>15 DEF Poll, Abort, LifeInv, TaskPc, Passing, Begun, apis
<1>16. CASE TaskCloses(t)
  BY <1>2, <1>16 DEF TaskCloses, LifeInv, TaskPc, Passing, Begun, apis
<1>17. CASE TaskSetsState(t)
  BY <1>2, <1>17 DEF TaskSetsState, LifeInv, TaskPc, Passing, Begun, apis
<1>18. CASE TaskEnds(t)
  BY <1>2, <1>18 DEF TaskEnds, LifeInv, TaskPc, Passing, Begun, apis
<1>. QED  BY <1>3, <1>4, <1>5, <1>6, <1>7, <1>8, <1>9, <1>10, <1>11, <1>12, <1>13,
    <1>14, <1>15, <1>16, <1>17, <1>18, <1>19, <1>20, <1>21 DEF Task

(* So do the calls of an application that waits.                            *)
LEMMA CallsKeepLife ==
  ASSUME LifeInv, AppWaits,
         \/ Start \/ Stop \/ StopReturns \/ DestroyIdle
         \/ Disconnect \/ ReconnectLooks \/ ReconnectSets \/ PublishAborts
  PROVE  LifeInv'
<1>1. CASE Start
  <2>1. Alive = {} /\ ~run /\ owner' = "running"
    BY <1>1 DEF Start, MayStart, LifeInv
  <2>2. PICK t \in Tasks : task[t] = "none" /\ Goto(t, "created")
    BY <1>1 DEF Start
  <2>3. /\ task' \in [Tasks -> TaskPc] /\ task'[t] = "created"
        /\ \A u \in Tasks \ {t} : task'[u] = task[u] /\ task[u] \in {"none", "done"}
    BY <2>1, <2>2 DEF Goto, LifeInv, TaskPc, Alive
  <2>4. Alive' = {t}
    BY <2>3 DEF Alive
  <2>5. t \notin seen
    BY <2>2 DEF LifeInv, Begun, Passing
  <2>. QED  BY <1>1, <2>1, <2>2, <2>3, <2>4, <2>5 DEF Start, LifeInv, Begun, Passing, Owners
<1>2. CASE Stop
  <2>1. Alive' = Alive /\ Alive \subseteq seen
    BY <1>2 DEF Stop, Settled, Alive
  <2>2. Alive # {}
    BY <1>2 DEF Stop, LifeInv
  <2>3. \A t \in Tasks : task[t] # "ended"
    BY <1>2 DEF Stop, LifeInv
  <2>. QED  BY <1>2, <2>1, <2>2, <2>3 DEF Stop, LifeInv, Owners
<1>3. CASE StopReturns
  <2>1. Alive \subseteq seen /\ "stopped" \in bits
    BY <1>3 DEF StopReturns, LifeInv
  <2>2. Alive = {}
    BY <2>1 DEF LifeInv, Alive
  <2>3. Alive' = Alive /\ owner' \in {"stopped", "destroyed"}
    BY <1>3 DEF StopReturns, Alive
  <2>. QED  BY <1>3, <2>2, <2>3 DEF StopReturns, LifeInv, Owners
<1>4. CASE DestroyIdle
  <2>1. Alive = {} /\ Alive' = Alive
    BY <1>4 DEF DestroyIdle, Settled, Alive
  <2>. QED  BY <1>4, <2>1 DEF DestroyIdle, LifeInv, Owners
<1>5. CASE Disconnect
  BY <1>5 DEF Disconnect, LifeInv, Alive
<1>6. CASE ReconnectLooks
  BY <1>6 DEF ReconnectLooks, LifeInv, Alive
<1>7. CASE ReconnectSets
  BY <1>7 DEF ReconnectSets, LifeInv, Alive
<1>8. CASE PublishAborts
  BY <1>8 DEF PublishAborts, Abort, LifeInv, Alive, apis
<1>. QED  BY <1>1, <1>2, <1>3, <1>4, <1>5, <1>6, <1>7, <1>8

LEMMA LifeIsInductive ==
  ASSUME AppWaits, LifeInv, [LifecycleNext]_lifecycleVars
  PROVE  LifeInv'
<1>1. CASE UNCHANGED lifecycleVars
  BY <1>1 DEF lifecycleVars, apis, LifeInv, Alive
<1>. QED  BY <1>1, TaskKeepsLife, CallsKeepLife DEF LifecycleNext

LEMMA LifeSuffices ==
  ASSUME LifeInv
  PROVE  TasksEnd
<1>1. OneTask
  <2>1. CASE Alive = {}
    BY <2>1, FS_EmptySet DEF OneTask
  <2>2. CASE Alive # {}
    <3>1. PICK t \in Alive : TRUE
      BY <2>2
    <3>2. Alive = {t}
      BY DEF LifeInv
    <3>3. Cardinality({t}) = 1
      BY FS_Singleton
    <3>4. Cardinality(Alive) = 1
      BY <3>2, <3>3
    <3>. QED  BY <3>4 DEF OneTask
  <2>. QED  BY <2>1, <2>2
<1>2. StopEnds
  BY DEF StopEnds, LifeInv
<1>3. Restartable
  <2>. SUFFICES ASSUME Alive = {}, seen # {}
                PROVE  state = "disconnected" /\ ~open /\ lock = {}
    BY DEF Restartable
  <2>1. PICK t \in Tasks : t \in seen
    BY DEF LifeInv
  <2>2. task[t] = "done"
    BY <2>1 DEF LifeInv, Alive, Begun, Passing
  <2>3. lock = {}
    BY DEF LifeInv, Alive, Passing
  <2>. QED  BY <2>2, <2>3 DEF LifeInv
<1>. QED  BY <1>1, <1>2, <1>3 DEF TasksEnd

(* Provided the application starts a client once until it has stopped it,   *)
(* and stops or destroys one that runs: a client has one task at a time,    *)
(* none after stop() or destroy() returned, and can be started again,       *)
(* however often all this is done and whatever other threads ask meanwhile. *)
THEOREM TasksEndAlways == ASSUME AppWaits PROVE LifecycleSpec => []TasksEnd
<1>1. LifecycleInit => LifeInv
  BY InitLife
<1>2. LifeInv /\ [LifecycleNext]_lifecycleVars => LifeInv'
  BY LifeIsInductive
<1>3. LifeInv => TasksEnd
  BY LifeSuffices
<1>. QED  BY <1>1, <1>2, <1>3, PTL DEF LifecycleSpec

-----------------------------------------------------------------------------
(* What is reported of the end of a connection.                             *)

(* An attempt begins with drops = 0 in the pass that dispatches             *)
(* MQTT_EVENT_BEFORE_CONNECT; a task that has dispatched one finds the      *)
(* state "init" again only after a connection was aborted.                  *)
EndInv ==
  /\ drops \in 0..2
  /\ state = "wait" => drops > 0 /\ ~open
  /\ drops > 0 /\ ~ProtocolFive => state # "connected" /\ ~open
  /\ \A t \in Tasks : task[t] = "connecting" => drops = 0
  /\ \A t \in seen : task[t] \in Begun \ {"connecting"} /\ state = "init" => drops > 0

LEMMA ReportCounts ==
  ASSUME drops \in 0..2, ReportDisconnected
  PROVE  drops' \in 1..2
BY DEF ReportDisconnected

LEMMA EndIsInductive ==
  ASSUME AppWaits, LifeInv, EndInv, [LifecycleNext]_lifecycleVars
  PROVE  EndInv'
<1>1. setting' = setting
  BY DEF LifecycleNext, lifecycleVars
<1>2. drops \in 0..2 /\ (ReportDisconnected => drops' \in 1..2)
  BY ReportCounts DEF EndInv
<1>3. ASSUME NEW t \in Tasks, Task(t)
      PROVE  EndInv'
  <2>1. t \in Alive
    BY <1>3 DEF Task, TaskRuns, TaskClearsStopped, BeginPass, PassDisconnected, PassInit,
      NoTransport, Connect, PassDisconnect, PassReceives, PassResends, PassReleases, Sends,
      PassKeepsAlive, PassRefreshes, WaitOver, KeepWaiting, Wakes, Poll,
      TaskCloses, TaskSetsState, TaskEnds, Alive
  <2>2. ASSUME NEW goal \in TaskPc \ {"none"}, Goto(t, goal)
        PROVE  /\ task'[t] = goal
               /\ \A u \in Tasks \ {t} : task'[u] = task[u] /\ task[u] \in {"none", "done"}
    BY <2>1, <2>2, OneMoves
  <2>. USE <1>1, <1>2, <2>2 DEF EndInv, ProtocolFive, LifeInv, TaskPc, Passing, Begun
  <2>3. CASE TaskRuns(t) \/ TaskClearsStopped(t) \/ BeginPass(t) \/ PassDisconnected(t)
    BY <2>3 DEF TaskRuns, TaskClearsStopped, BeginPass, PassDisconnected, EndPass
  <2>4. CASE PassInit(t) \/ NoTransport(t)
    BY <2>4 DEF PassInit, NoTransport, EndPass
  <2>5. CASE Connect(t)
    BY <2>5 DEF Connect, EndPass, Abort
  <2>6. CASE PassDisconnect(t)
    BY <2>6 DEF PassDisconnect, EndPass, Abort
  <2>7. CASE PassReceives(t)
    BY <2>7 DEF PassReceives, EndPass, Abort
  <2>8. CASE PassResends(t) \/ PassReleases(t)
    BY <2>8 DEF PassResends, PassReleases, Sends, Abort
  <2>9. CASE PassKeepsAlive(t)
    BY <2>9 DEF PassKeepsAlive, EndPass, Abort
  <2>10. CASE PassRefreshes(t)
    BY <2>10 DEF PassRefreshes, EndPass, Abort
  <2>11. CASE WaitOver(t) \/ KeepWaiting(t) \/ Wakes(t)
    BY <2>11 DEF WaitOver, KeepWaiting, Wakes, EndPass
  <2>12. CASE Poll(t)
    BY <2>12 DEF Poll, Abort
  <2>13. CASE TaskCloses(t) \/ TaskSetsState(t) \/ TaskEnds(t)
    BY <2>13 DEF TaskCloses, TaskSetsState, TaskEnds
  <2>. QED  BY <1>3, <2>3, <2>4, <2>5, <2>6, <2>7, <2>8, <2>9, <2>10, <2>11, <2>12, <2>13 DEF Task
<1>4. CASE Start
  <2>1. PICK t \in Tasks : task[t] = "none" /\ Goto(t, "created")
    BY <1>4 DEF Start
  <2>2. t \notin seen /\ \A u \in Tasks : u # t => task'[u] = task[u]
    BY <2>1 DEF LifeInv, Goto, Begun, Passing
  <2>3. task'[t] = "created"
    BY <2>1 DEF LifeInv, Goto
  <2>. QED  BY <1>1, <1>4, <2>2, <2>3 DEF Start, EndInv, LifeInv, ProtocolFive
<1>5. CASE Stop \/ StopReturns \/ DestroyIdle
  BY <1>1, <1>5 DEF Stop, StopReturns, DestroyIdle, EndInv, ProtocolFive
<1>6. CASE Disconnect \/ ReconnectLooks \/ ReconnectSets
  BY <1>1, <1>6 DEF Disconnect, ReconnectLooks, ReconnectSets, EndInv, ProtocolFive
<1>7. CASE PublishAborts
  <2>1. \A t \in Tasks : task[t] # "connecting"
    BY <1>7 DEF PublishAborts, LifeInv, Passing
  <2>. QED  BY <1>1, <1>2, <1>7, <2>1 DEF PublishAborts, Abort, EndInv, ProtocolFive
<1>8. CASE UNCHANGED lifecycleVars
  BY <1>8 DEF lifecycleVars, EndInv, ProtocolFive
<1>. QED  BY <1>3, <1>4, <1>5, <1>6, <1>7, <1>8 DEF LifecycleNext

(* Before a client waits to connect again, and before its task begins the   *)
(* next attempt, MQTT_EVENT_DISCONNECTED was dispatched; when it was, the   *)
(* connection is gone, but for one whose MQTT 5 broker sent a DISCONNECT.   *)
(* So it is wherever in a pass connections are aborted and how often, and   *)
(* whatever other threads do.                                               *)
THEOREM EndReportedAlways ==
  ASSUME AppWaits PROVE LifecycleSpec => []EndReported
<1>1. LifecycleInit => LifeInv /\ EndInv
  BY InitLife DEF LifecycleInit, EndInv
<1>2. LifeInv /\ EndInv /\ [LifecycleNext]_lifecycleVars => (LifeInv /\ EndInv)'
  BY LifeIsInductive, EndIsInductive
<1>3. EndInv => EndReported
  BY DEF EndInv, EndReported, Begun, Passing
<1>. QED  BY <1>1, <1>2, <1>3, PTL DEF LifecycleSpec

(* Without auto_reconnect the client tries again only if reconnect() was    *)
(* called since the last attempt: the bit and the call come and go as one.  *)
THEOREM OnlyOnRequestAlways == LifecycleSpec => OnlyOnRequest
<1>. DEFINE Requested == "reconnect" \in bits => asked
<1>1. LifecycleInit => Requested
  BY DEF LifecycleInit
<1>2. Requested /\ [LifecycleNext]_lifecycleVars => Requested'
  <2>. SUFFICES ASSUME Requested, [LifecycleNext]_lifecycleVars  PROVE Requested'
    OBVIOUS
  <2>1. ASSUME NEW t \in Tasks, Task(t)
        PROVE  Requested'
    BY <2>1 DEF Task, TaskRuns, TaskClearsStopped, BeginPass, PassDisconnected, PassInit,
      NoTransport, Connect, PassDisconnect, PassReceives, PassResends, PassReleases, Sends,
    PassKeepsAlive, PassRefreshes, WaitOver, KeepWaiting, Wakes, Poll,
      TaskCloses, TaskSetsState, TaskEnds
  <2>2. CASE \/ Start \/ Stop \/ StopReturns \/ DestroyIdle
             \/ Disconnect \/ ReconnectLooks \/ ReconnectSets \/ PublishAborts
    BY <2>2 DEF Start, Stop, StopReturns, DestroyIdle, Disconnect, ReconnectLooks,
      ReconnectSets, PublishAborts
  <2>3. CASE UNCHANGED lifecycleVars
    BY <2>3 DEF lifecycleVars
  <2>. QED  BY <2>1, <2>2, <2>3 DEF LifecycleNext
<1>3. Requested => [\A t \in Tasks : ~AutoReconnect /\ WaitOver(t) => asked]_lifecycleVars
  BY DEF WaitOver
<1>. QED  BY <1>1, <1>2, <1>3, PTL DEF LifecycleSpec, OnlyOnRequest

-----------------------------------------------------------------------------
(* The messages that are read from a connection, for every stream of them   *)
(* and every buffer.                                                        *)

LEMMA MinPair ==
  ASSUME NEW a \in Int, NEW b \in Int
  PROVE  Min({a, b}) = IF a <= b THEN a ELSE b
<1>. DEFINE x == IF a <= b THEN a ELSE b
<1>1. x \in {a, b} /\ \A y \in {a, b} : x <= y
  OBVIOUS
<1>2. \A z \in {a, b} : (\A y \in {a, b} : z <= y) => z = x
  OBVIOUS
<1>. QED  BY <1>1, <1>2 DEF Min

LEMMA MinOfThree ==
  ASSUME NEW a \in Int, NEW b \in Int, NEW c \in Int
  PROVE  Min({a, b, c}) \in Int /\ Min({a, b, c}) <= a /\ Min({a, b, c}) <= b /\ Min({a, b, c}) <= c
<1>. DEFINE x == IF a <= b THEN (IF a <= c THEN a ELSE c) ELSE (IF b <= c THEN b ELSE c)
<1>1. x \in {a, b, c} /\ \A y \in {a, b, c} : x <= y
  OBVIOUS
<1>2. \A z \in {a, b, c} : (\A y \in {a, b, c} : z <= y) => z = x
  OBVIOUS
<1>3. Min({a, b, c}) = x
  BY <1>1, <1>2 DEF Min
<1>. QED  BY <1>3

LEMMA MaxPair ==
  ASSUME NEW a \in Int, NEW b \in Int
  PROVE  Max({a, b}) = IF a >= b THEN a ELSE b
<1>. DEFINE x == IF a >= b THEN a ELSE b
<1>1. x \in {a, b} /\ \A y \in {a, b} : x >= y
  OBVIOUS
<1>2. \A z \in {a, b} : (\A y \in {a, b} : z >= y) => z = x
  OBVIOUS
<1>. QED  BY <1>1, <1>2 DEF Max

(* Induction over the numbers of the messages, as a set of them.            *)
LEMMA Upward ==
  ASSUME NEW n \in Nat, NEW G,
         \A i \in 1..n : (\A k \in 1..(i - 1) : k \in G) => i \in G
  PROVE  \A i \in 1..n : i \in G
<1>. DEFINE I == {i \in 1..n : i \notin G}
<1>1. I # {} => FALSE
  <2>. SUFFICES ASSUME I # {}  PROVE FALSE
    OBVIOUS
  <2>1. I \in SUBSET Nat
    OBVIOUS
  <2>2. PICK x \in I : \A y \in I : x <= y
    <3>. HIDE DEF I
    <3>. QED  BY <2>1, Least
  <2>3. \A k \in 1..(x - 1) : k \in G
    <3>. SUFFICES ASSUME NEW k \in 1..(x - 1), k \notin G  PROVE FALSE
      OBVIOUS
    <3>1. k \in I
      OBVIOUS
    <3>2. x <= k
      BY <2>2, <3>1
    <3>. QED  BY <3>2
  <2>. QED  BY <2>3
<1>. QED  BY <1>1

LEMMA MessageFacts ==
  ASSUME NEW m \in Message
  PROVE  /\ m.fixed \in 2..5 /\ m.topic \in Nat /\ m.qos \in 0..2 /\ m.payload \in Nat
         /\ Header(m) \in Nat /\ Header(m) >= m.fixed
         /\ Total(m) \in Nat /\ Total(m) = Header(m) + m.payload /\ Total(m) >= m.fixed
         /\ m.type = "publish" =>
              /\ m.qos = 0 => Header(m) = m.fixed + 2 + m.topic
              /\ m.qos > 0 => Header(m) = m.fixed + 4 + m.topic
         /\ CorrectedLength(m) = m.fixed + m.topic + (IF m.qos > 0 THEN 2 ELSE 0)
<1>1. m.fixed \in 2..5 /\ m.topic \in Nat /\ m.qos \in 0..2 /\ m.payload \in Nat
  BY DEF Message
<1>. QED  BY <1>1 DEF Header, Total, CorrectedLength

LEMMA StreamFacts ==
  /\ Len(Stream) \in Nat /\ DOMAIN Stream = 1..Len(Stream)
  /\ \A k \in 1..Len(Stream) : Stream[k] \in Message /\ Buffer >= Stream[k].fixed + 4
  /\ Buffer \in Nat
BY ReceiveAssumption

(* The recursive function has the values its equation says.                 *)
LEMMA StartsExist ==
  \E f : f = [k \in 1..(Len(Stream) + 1) |->
                IF k = 1 THEN 0 ELSE f[k - 1] + Total(Stream[k - 1])]
<1>. DEFINE Count == Len(Stream) + 1
            Solves(f, m) == \A k \in 1..m : f[k] = IF k = 1 THEN 0 ELSE f[k - 1] + Total(Stream[k - 1])
            G == {m \in 1..Count : \E f \in [1..Count -> Int] : Solves(f, m)}
<1>1. Count \in Nat /\ Count >= 1
  BY StreamFacts
<1>2. ASSUME NEW i \in 1..Count, \A k \in 1..(i - 1) : k \in G
      PROVE  i \in G
  <2>1. CASE i = 1
    <3>. DEFINE f == [k \in 1..Count |-> 0]
    <3>1. f \in [1..Count -> Int] /\ f[1] = 0
      BY <1>1
    <3>2. Solves(f, 1)
      BY <3>1
    <3>. QED  BY <2>1, <3>1, <3>2
  <2>2. CASE i # 1
    <3>1. i - 1 \in 1..(i - 1) /\ i - 1 \in 1..Count /\ i - 1 \in 1..Len(Stream) /\ i \in Nat
      BY <2>2, <1>1, StreamFacts
    <3>2. PICK f \in [1..Count -> Int] : Solves(f, i - 1)
      BY <1>2, <3>1
    <3>. DEFINE t == Total(Stream[i - 1])
                e == [f EXCEPT ![i] = f[i - 1] + t]
    <3>3. t \in Int
      BY <3>1, StreamFacts, MessageFacts
    <3>4. e \in [1..Count -> Int] /\ e[i] = f[i - 1] + t /\ \A k \in 1..(i - 1) : e[k] = f[k]
      <4>. HIDE DEF t
      <4>. QED  BY <3>1, <3>3
    <3>5. Solves(e, i)
      <4>. SUFFICES ASSUME NEW k \in 1..i
                    PROVE  e[k] = IF k = 1 THEN 0 ELSE e[k - 1] + Total(Stream[k - 1])
        OBVIOUS
      <4>. HIDE DEF e
      <4>1. CASE k = i
        <5>1. e[i - 1] = f[i - 1]
          BY <3>1, <3>4
        <5>. QED  BY <2>2, <3>4, <4>1, <5>1
      <4>2. CASE k # i
        <5>1. k \in 1..(i - 1) /\ (k # 1 => k - 1 \in 1..(i - 1))
          BY <3>1, <4>2
        <5>2. f[k] = IF k = 1 THEN 0 ELSE f[k - 1] + Total(Stream[k - 1])
          BY <3>2, <5>1
        <5>3. e[k] = f[k] /\ (k # 1 => e[k - 1] = f[k - 1])
          BY <3>4, <5>1
        <5>. QED  BY <5>2, <5>3
      <4>. QED  BY <4>1, <4>2
    <3>. HIDE DEF e, Solves
    <3>. QED  BY <3>4, <3>5
  <2>. QED  BY <2>1, <2>2
<1>3. Count \in G
  <2>. HIDE DEF G
  <2>1. \A i \in 1..Count : (\A k \in 1..(i - 1) : k \in G) => i \in G
    BY <1>2
  <2>2. \A i \in 1..Count : i \in G
    <3>. HIDE DEF Count
    <3>. QED  BY <1>1, <2>1, Upward
  <2>. QED  BY <1>1, <2>2
<1>4. PICK f \in [1..Count -> Int] : Solves(f, Count)
  BY <1>3
<1>5. f = [k \in 1..Count |-> IF k = 1 THEN 0 ELSE f[k - 1] + Total(Stream[k - 1])]
  BY <1>4
<1>. QED  BY <1>5

LEMMA StartsAre ==
  /\ Starts \in [1..(Len(Stream) + 1) -> Nat]
  /\ Starts[1] = 0
  /\ \A k \in 1..Len(Stream) : Starts[k + 1] = Starts[k] + Total(Stream[k])
<1>. DEFINE Count == Len(Stream) + 1
            G == {k \in 1..Count : Starts[k] \in Nat}
<1>0. Count \in Nat /\ Count >= 1
  BY StreamFacts
<1>1. Starts = [k \in 1..Count |-> IF k = 1 THEN 0 ELSE Starts[k - 1] + Total(Stream[k - 1])]
  BY StartsExist DEF Starts
<1>2. DOMAIN Starts = 1..Count
  BY <1>1
<1>3. \A k \in 1..Count : Starts[k] = IF k = 1 THEN 0 ELSE Starts[k - 1] + Total(Stream[k - 1])
  BY <1>1
<1>4. ASSUME NEW i \in 1..Count, \A k \in 1..(i - 1) : k \in G
      PROVE  i \in G
  <2>1. CASE i = 1
    BY <1>3, <2>1
  <2>2. CASE i # 1
    <3>1. i - 1 \in 1..(i - 1) /\ i - 1 \in 1..Len(Stream)
      BY <2>2, StreamFacts
    <3>2. Starts[i - 1] \in Nat
      BY <1>4, <3>1
    <3>3. Total(Stream[i - 1]) \in Nat
      BY <3>1, StreamFacts, MessageFacts
    <3>4. Starts[i] = Starts[i - 1] + Total(Stream[i - 1])
      BY <1>3, <2>2
    <3>. QED  BY <3>2, <3>3, <3>4
  <2>. QED  BY <2>1, <2>2
<1>5. \A k \in 1..Count : Starts[k] \in Nat
  <2>. HIDE DEF G
  <2>1. \A i \in 1..Count : (\A k \in 1..(i - 1) : k \in G) => i \in G
    BY <1>4
  <2>2. \A i \in 1..Count : i \in G
    <3>. HIDE DEF Count
    <3>. QED  BY <1>0, <2>1, Upward
  <2>. QED  BY <2>2 DEF G
<1>6. Starts \in [1..Count -> Nat]
  <2>1. Starts = [k \in 1..Count |-> Starts[k]]
    BY <1>1
  <2>. QED  BY <1>5, <2>1
<1>7. Starts[1] = 0
  BY <1>0, <1>3
<1>8. \A k \in 1..Len(Stream) : Starts[k + 1] = Starts[k] + Total(Stream[k])
  <2>. SUFFICES ASSUME NEW k \in 1..Len(Stream)
                PROVE  Starts[k + 1] = Starts[k] + Total(Stream[k])
    OBVIOUS
  <2>1. k + 1 \in 1..Count /\ k + 1 # 1 /\ (k + 1) - 1 = k
    BY StreamFacts
  <2>2. Starts[k + 1] = Starts[(k + 1) - 1] + Total(Stream[(k + 1) - 1])
    BY <1>3, <2>1
  <2>. QED  BY <2>1, <2>2
<1>. QED  BY <1>6, <1>7, <1>8

LEMMA StartsGrow ==
  /\ \A i, j \in 1..(Len(Stream) + 1) : i < j => Starts[i] < Starts[j]
  /\ \A k \in 1..Len(Stream) : Starts[k + 1] <= Starts[Len(Stream) + 1]
<1>. DEFINE Count == Len(Stream) + 1
<1>0. Count \in Nat /\ Count >= 1
  BY StreamFacts
<1>1. ASSUME NEW i \in 1..Count
      PROVE  \A j \in 1..Count : i < j => Starts[i] < Starts[j]
  <2>. DEFINE G == {j \in 1..Count : i < j => Starts[i] < Starts[j]}
  <2>1. ASSUME NEW j \in 1..Count, \A k \in 1..(j - 1) : k \in G
        PROVE  j \in G
    <3>. SUFFICES ASSUME i < j  PROVE Starts[i] < Starts[j]
      OBVIOUS
    <3>1. j - 1 \in 1..(j - 1) /\ j - 1 \in 1..Len(Stream) /\ j - 1 \in 1..Count /\ (j - 1) + 1 = j
      BY StreamFacts
    <3>2. i = j - 1 \/ i < j - 1
      OBVIOUS
    <3>3. Starts[i] <= Starts[j - 1] /\ Starts[i] \in Nat /\ Starts[j - 1] \in Nat
      <4>1. Starts[i] \in Nat /\ Starts[j - 1] \in Nat
        BY <3>1, StartsAre
      <4>2. i < j - 1 => Starts[i] < Starts[j - 1]
        BY <2>1, <3>1
      <4>. QED  BY <3>2, <4>1, <4>2
    <3>4. Starts[j] = Starts[j - 1] + Total(Stream[j - 1])
      <4>1. Starts[(j - 1) + 1] = Starts[j - 1] + Total(Stream[j - 1])
        BY <3>1, StartsAre
      <4>. QED  BY <3>1, <4>1
    <3>5. Total(Stream[j - 1]) \in Nat /\ Total(Stream[j - 1]) >= 2
      BY <3>1, StreamFacts, MessageFacts
    <3>. QED  BY <3>3, <3>4, <3>5
  <2>2. \A j \in 1..Count : j \in G
    <3>. HIDE DEF G
    <3>1. \A j \in 1..Count : (\A k \in 1..(j - 1) : k \in G) => j \in G
      BY <2>1
    <3>. HIDE DEF Count
    <3>. QED  BY <1>0, <3>1, Upward
  <2>. QED  BY <2>2
<1>2. ASSUME NEW k \in 1..Len(Stream)
      PROVE  Starts[k + 1] <= Starts[Count]
  <2>1. k + 1 \in 1..Count /\ Count \in 1..Count /\ (k + 1 = Count \/ k + 1 < Count)
    BY StreamFacts
  <2>2. Starts[k + 1] \in Nat /\ Starts[Count] \in Nat
    BY <2>1, StartsAre
  <2>. QED  BY <1>1, <2>1, <2>2
<1>. QED  BY <1>1, <1>2

(* The bit 7 of each byte that comes is that of the byte of its message.    *)
LEMMA WireIs ==
  /\ Len(Wire) = Starts[Len(Stream) + 1] /\ Len(Wire) \in Nat
  /\ \A k \in 1..Len(Stream) : \A i \in 1..Total(Stream[k]) :
       Wire[Starts[k] + i] <=> (IF i <= Stream[k].fixed THEN i \in 2..(Stream[k].fixed - 1)
                                                       ELSE i \in Stream[k].high)
<1>0. Starts[Len(Stream) + 1] \in Nat
  BY StreamFacts, StartsAre
<1>1. Wire \in Seq(BOOLEAN) /\ Len(Wire) = Starts[Len(Stream) + 1]
  <2>. DEFINE n == Starts[Len(Stream) + 1]
              B(i) == \E k \in DOMAIN Stream :
                  i \in (Starts[k] + 1)..Starts[k + 1] /\ HighBits(Stream[k])[i - Starts[k]]
              w == [i \in 1..n |-> B(i)]
  <2>1. n \in Nat
    BY <1>0
  <2>2. w \in [1..n -> BOOLEAN]
    BY Zenon
  <2>3. w \in Seq(BOOLEAN) /\ Len(w) = n
    <3>. HIDE DEF w, n
    <3>. QED  BY <2>1, <2>2
  <2>. QED  BY <2>3 DEF Wire
<1>2. ASSUME NEW k \in 1..Len(Stream), NEW i \in 1..Total(Stream[k])
      PROVE  Wire[Starts[k] + i] <=> (IF i <= Stream[k].fixed THEN i \in 2..(Stream[k].fixed - 1)
                                                              ELSE i \in Stream[k].high)
  <2>. DEFINE x == Starts[k] + i
              m == Stream[k]
  <2>1. /\ k \in 1..(Len(Stream) + 1) /\ k + 1 \in 1..(Len(Stream) + 1)
        /\ Starts[k] \in Nat /\ Starts[k + 1] = Starts[k] + Total(m)
        /\ Total(m) \in Nat /\ Starts[k + 1] <= Starts[Len(Stream) + 1]
    BY StreamFacts, StartsAre, MessageFacts, StartsGrow
  <2>2. x \in (Starts[k] + 1)..Starts[k + 1] /\ x - Starts[k] = i /\ x \in 1..Starts[Len(Stream) + 1]
    BY <1>0, <2>1
  <2>3. Wire[x] <=> \E j \in DOMAIN Stream :
          x \in (Starts[j] + 1)..Starts[j + 1] /\ HighBits(Stream[j])[x - Starts[j]]
    <3>. HIDE DEF x
    <3>. QED  BY <2>2 DEF Wire
  <2>4. \A j \in DOMAIN Stream : x \in (Starts[j] + 1)..Starts[j + 1] => j = k
    <3>. SUFFICES ASSUME NEW j \in DOMAIN Stream, x \in (Starts[j] + 1)..Starts[j + 1], j # k
                  PROVE  FALSE
      OBVIOUS
    <3>1. /\ j \in 1..(Len(Stream) + 1) /\ j + 1 \in 1..(Len(Stream) + 1)
          /\ Starts[j] \in Nat /\ Starts[j + 1] \in Nat /\ Starts[k + 1] \in Nat
      BY <2>1, StreamFacts, StartsAre
    <3>2. x \in Nat /\ x > Starts[j] /\ x <= Starts[j + 1] /\ x > Starts[k] /\ x <= Starts[k + 1]
      <4>1. Starts[k] \in Nat /\ x \in Nat
        BY <2>1
      <4>. HIDE DEF x
      <4>2. x > Starts[j] /\ x <= Starts[j + 1]
        BY <3>1, <4>1
      <4>3. x > Starts[k] /\ x <= Starts[k + 1]
        BY <2>2, <3>1, <4>1
      <4>. QED  BY <4>1, <4>2, <4>3
    <3>3. CASE j < k
      <4>1. j + 1 = k \/ j + 1 < k
        BY <3>1, <3>3
      <4>2. Starts[j + 1] <= Starts[k]
        BY <2>1, <3>1, <4>1, StartsGrow
      <4>. HIDE DEF x
      <4>. QED  BY <2>1, <3>1, <3>2, <4>2
    <3>4. CASE k < j
      <4>1. k + 1 = j \/ k + 1 < j
        BY <3>1, <3>4
      <4>2. Starts[k + 1] <= Starts[j]
        <5>1. CASE k + 1 = j
          BY <3>1, <5>1
        <5>2. CASE k + 1 < j
          <6>1. Starts[k + 1] < Starts[j]
            BY <2>1, <3>1, <5>2, StartsGrow
          <6>. QED  BY <3>1, <6>1
        <5>. QED  BY <4>1, <5>1, <5>2
      <4>. HIDE DEF x
      <4>. QED  BY <2>1, <3>1, <3>2, <4>2
    <3>. QED  BY <3>1, <3>3, <3>4
  <2>5. Wire[x] <=> HighBits(m)[i]
    <3>1. k \in DOMAIN Stream
      BY StreamFacts
    <3>. HIDE DEF x
    <3>. QED  BY <2>2, <2>3, <2>4, <3>1
  <2>6. HighBits(m)[i] <=> (IF i <= m.fixed THEN i \in 2..(m.fixed - 1) ELSE i \in m.high)
    BY DEF HighBits
  <2>. QED  BY <2>5, <2>6
<1>. QED  BY <1>0, <1>1, <1>2

(* The message that the buffer begins with.                                 *)
LEMMA TakenIs ==
  ASSUME NEW k \in 1..Len(Stream), begin = Starts[k]
  PROVE  Taken = {Stream[k]}
<1>1. \A i \in 1..Len(Stream) : Starts[i] = begin => i = k
  <2>. SUFFICES ASSUME NEW i \in 1..Len(Stream), Starts[i] = begin, i # k  PROVE FALSE
    OBVIOUS
  <2>1. i \in 1..(Len(Stream) + 1) /\ k \in 1..(Len(Stream) + 1) /\ (i < k \/ k < i)
    BY StreamFacts
  <2>2. Starts[i] < Starts[k] \/ Starts[k] < Starts[i]
    BY <2>1, StartsGrow
  <2>3. Starts[i] \in Nat /\ Starts[k] \in Nat
    BY <2>1, StartsAre
  <2>. QED  BY <2>2, <2>3
<1>2. Numbers = {k}
  BY <1>1, StreamFacts DEF Numbers
<1>. QED  BY <1>2 DEF Taken

(* What the two operators that choose the next read say of a message of     *)
(* which g bytes are in the buffer.                                         *)
LEMMA TargetIs ==
  ASSUME NEW m \in Message
  PROVE  /\ Target(m) = IF Total(m) <= Buffer THEN Total(m) ELSE Buffer
         /\ Target(m) \in Nat
<1>1. Total(m) \in Int /\ Buffer \in Int /\ Total(m) \in Nat /\ Buffer \in Nat
  BY StreamFacts, MessageFacts
<1>2. Min({Total(m), Buffer}) = IF Total(m) <= Buffer THEN Total(m) ELSE Buffer
  BY <1>1, MinPair
<1>. QED  BY <1>1, <1>2 DEF Target

LEMMA AfterLengthIs ==
  ASSUME NEW m \in Message, NEW g \in Nat
  PROVE  /\ AfterLength(g, m) \in {"error", "topic", "rest", "deliver"}
         /\ AfterLength(g, m) = "topic" <=>
              Total(m) > Buffer /\ m.type = "publish" /\ g < m.fixed + 2
         /\ AfterLength(g, m) \in {"rest", "deliver"} <=>
              \/ Total(m) <= Buffer
              \/ m.type = "publish" /\ g >= m.fixed + 2 /\ CorrectedLength(m) <= Buffer
         /\ AfterLength(g, m) = "rest" => g < Target(m)
         /\ AfterLength(g, m) = "deliver" => g >= Target(m)
<1>1. /\ Total(m) \in Nat /\ Buffer \in Nat /\ m.fixed \in Nat /\ CorrectedLength(m) \in Nat
      /\ Target(m) \in Nat
  <2>1. m.fixed \in Nat /\ m.topic \in Nat /\ m.qos \in 0..2 /\ Total(m) \in Nat
    BY MessageFacts
  <2>2. CorrectedLength(m) \in Nat
    BY <2>1 DEF CorrectedLength
  <2>. QED  BY <2>1, <2>2, StreamFacts, TargetIs
<1>2. CASE Total(m) <= Buffer
  BY <1>1, <1>2 DEF AfterLength
<1>3. CASE Total(m) > Buffer
  <2>1. CASE m.type = "publish" /\ g < m.fixed + 2
    BY <1>1, <1>3, <2>1 DEF AfterLength
  <2>2. CASE m.type = "publish" /\ g >= m.fixed + 2
    BY <1>1, <1>3, <2>2 DEF AfterLength
  <2>3. CASE m.type # "publish"
    BY <1>1, <1>3, <2>3 DEF AfterLength
  <2>. QED  BY <1>1, <2>1, <2>2, <2>3
<1>. QED  BY <1>1, <1>2, <1>3

LEMMA NextReadIs ==
  ASSUME NEW k \in 1..Len(Stream), EndIsClear(Stream[k]), NEW g \in 1..Total(Stream[k])
  PROVE  /\ NextRead(g, Starts[k] + g, Stream[k]) \in {"length", AfterLength(g, Stream[k])}
         /\ NextRead(g, Starts[k] + g, Stream[k]) # "length" => g >= Stream[k].fixed
         /\ \/ NextRead(g, Starts[k] + g, Stream[k]) # "length"
            \/ g < 6 /\ (g < Total(Stream[k]) \/
                         (NextRead(g - 1, Starts[k] + (g - 1), Stream[k]) # "length" /\ g > 1))
<1>. DEFINE m == Stream[k]
            High(i) == Wire[Starts[k] + i]
<1>1. m \in Message /\ m.fixed \in 2..5 /\ Total(m) \in Nat /\ Total(m) >= m.fixed
  BY StreamFacts, MessageFacts
<1>2. \A i \in 1..Total(m) :
        High(i) <=> (IF i <= m.fixed THEN i \in 2..(m.fixed - 1) ELSE i \in m.high)
  BY WireIs
<1>3. \A i \in 1..Total(m) :
        NextRead(i, Starts[k] + i, m) = IF i = 1 \/ (i < 6 /\ High(i)) THEN "length"
                                        ELSE AfterLength(i, m)
  BY DEF NextRead
<1>4. AfterLength(g, m) # "length"
  BY <1>1, AfterLengthIs
<1>. HIDE DEF High, m
<1>5. NextRead(g, Starts[k] + g, m) \in {"length", AfterLength(g, m)}
  BY <1>3 DEF m
<1>6. ASSUME NextRead(g, Starts[k] + g, m) # "length"
      PROVE  g >= m.fixed
  <2>1. g # 1 /\ ~(g < 6 /\ High(g))
    BY <1>3, <1>6 DEF m
  <2>2. g \in 1..Total(m) 
    BY DEF m
  <2>. QED  BY <1>1, <1>2, <2>1, <2>2
<1>7. ASSUME NextRead(g, Starts[k] + g, m) = "length", g = Total(m)
      PROVE  g < 6 /\ g > 1 /\ NextRead(g - 1, Starts[k] + (g - 1), m) # "length"
  <2>1. g \in 1..Total(m) /\ g > 1
    BY <1>1, <1>7 DEF m
  <2>2. g < 6 /\ High(g)
    BY <1>3, <1>4, <1>7, <2>1
  <2>3. g > m.fixed /\ g \in m.high
    BY <1>1, <1>2, <1>7, <2>1, <2>2
  <2>4. g - 1 \in 1..Total(m) /\ g - 1 # 1 /\ g - 1 >= m.fixed
    BY <1>1, <2>1, <2>3
  <2>5. ~High(g - 1)
    <3>1. CASE g - 1 = m.fixed
      BY <1>1, <1>2, <2>4, <3>1
    <3>2. CASE g - 1 # m.fixed
      <4>1. g - 1 > m.fixed /\ Total(m) <= 5 /\ Total(m) - 1 > m.fixed
        BY <1>1, <1>7, <2>2, <2>4, <3>2
      <4>2. g - 1 \notin m.high
        BY <1>7, <2>3, <4>1 DEF EndIsClear, m
      <4>. QED  BY <1>1, <1>2, <2>4, <4>1, <4>2
    <3>. QED  BY <3>1, <3>2
  <2>6. NextRead(g - 1, Starts[k] + (g - 1), m) = AfterLength(g - 1, m)
    BY <1>3, <2>4, <2>5
  <2>7. AfterLength(g - 1, m) # "length"
    BY <1>1, <2>4, AfterLengthIs
  <2>. QED  BY <2>1, <2>2, <2>6, <2>7
<1>8. ASSUME NextRead(g, Starts[k] + g, m) = "length", g # Total(m)
      PROVE  g < 6 /\ g < Total(m)
  BY <1>1, <1>3, <1>4, <1>8 DEF m
<1>. QED  BY <1>5, <1>6, <1>7, <1>8 DEF m

-----------------------------------------------------------------------------
(* What is read next once g bytes of message k are in the buffer.           *)
Choice(k, g) == NextRead(g, Starts[k] + g, Stream[k])

(* Message k is being read into the buffer, g bytes of it are there.        *)
Filling(k, p, g) ==
  /\ g \in 1..Target(Stream[k])
  /\ \/ p = "idle" /\ g < Target(Stream[k]) /\ Choice(k, g) # "error"
     \/ p = "length" /\ g < Target(Stream[k]) /\ Choice(k, g) = "length"
     \/ /\ p \in {"topic", "rest"} /\ p = AfterLength(g, Stream[k])
        /\ g < Target(Stream[k]) /\ g >= Stream[k].fixed
     \/ p = "deliver" /\ p = AfterLength(g, Stream[k])

(* The facts about message k the lemmas below work with.                    *)
LEMMA BoundsOf ==
  ASSUME NEW k \in 1..Len(Stream)
  PROVE  /\ Stream[k] \in Message
         /\ Total(Stream[k]) \in Nat /\ Total(Stream[k]) >= Stream[k].fixed
         /\ Stream[k].fixed \in 2..5
         /\ Buffer \in Nat /\ Buffer >= Stream[k].fixed + 4
         /\ Target(Stream[k]) \in Nat
         /\ Target(Stream[k]) <= Total(Stream[k]) /\ Target(Stream[k]) <= Buffer
         /\ Target(Stream[k]) = Total(Stream[k]) \/ Target(Stream[k]) = Buffer
         /\ Total(Stream[k]) <= Buffer => Target(Stream[k]) = Total(Stream[k])
         /\ Total(Stream[k]) > Buffer => Target(Stream[k]) = Buffer
<1>1. Stream[k] \in Message /\ Buffer \in Nat /\ Buffer >= Stream[k].fixed + 4
  BY StreamFacts
<1>2. /\ Total(Stream[k]) \in Nat /\ Total(Stream[k]) >= Stream[k].fixed
      /\ Stream[k].fixed \in 2..5
  BY <1>1, MessageFacts
<1>3. Target(Stream[k]) = IF Total(Stream[k]) <= Buffer THEN Total(Stream[k]) ELSE Buffer
  BY <1>1, TargetIs
<1>. QED  BY <1>1, <1>2, <1>3

LEMMA FillingStarts ==
  ASSUME NEW k \in 1..Len(Stream)
  PROVE  Filling(k, "length", 1)
<1>. DEFINE m == Stream[k]
<1>1. Choice(k, 1) = "length"
  BY DEF Choice, NextRead
<1>2. /\ Total(m) \in Nat /\ Total(m) >= m.fixed /\ m.fixed \in 2..5
      /\ Buffer \in Nat /\ Buffer >= m.fixed + 4 /\ Target(m) \in Nat
      /\ Target(m) = IF Total(m) <= Buffer THEN Total(m) ELSE Buffer
  BY BoundsOf
<1>3. 1 \in 1..Target(m) /\ 1 < Target(m)
  BY <1>2
<1>. QED  BY <1>1, <1>3 DEF Filling

LEMMA FillingGoesOn ==
  ASSUME NEW k \in 1..Len(Stream), EndIsClear(Stream[k]), NEW g, Filling(k, "idle", g)
  PROVE  Filling(k, Choice(k, g), g)
<1>. DEFINE m == Stream[k]
<1>1. g \in 1..Target(m) /\ g < Target(m) /\ Choice(k, g) # "error"
  BY DEF Filling
<1>2. g \in 1..Total(m) /\ g \in Nat /\ m \in Message
  BY <1>1, BoundsOf
<1>3. /\ Choice(k, g) \in {"length", AfterLength(g, m)}
      /\ Choice(k, g) # "length" => g >= m.fixed
  BY <1>2, NextReadIs DEF Choice
<1>4. CASE Choice(k, g) = "length"
  BY <1>1, <1>4 DEF Filling
<1>5. CASE Choice(k, g) # "length"
  <2>1. Choice(k, g) = AfterLength(g, m) /\ g >= m.fixed
    BY <1>3, <1>5
  <2>2. /\ AfterLength(g, m) \in {"topic", "rest", "deliver"}
        /\ AfterLength(g, m) = "deliver" => g >= Target(m)
    BY <1>1, <1>2, <2>1, AfterLengthIs
  <2>3. Target(m) \in Nat
    BY BoundsOf
  <2>4. AfterLength(g, m) \in {"topic", "rest"}
    BY <1>1, <1>2, <2>2, <2>3
  <2>. QED  BY <1>1, <2>1, <2>4 DEF Filling
<1>. QED  BY <1>4, <1>5

LEMMA FillingPauses ==
  ASSUME NEW k \in 1..Len(Stream), EndIsClear(Stream[k]), NEW g,
         NEW p \in {"length", "topic", "rest"}, Filling(k, p, g)
  PROVE  Filling(k, "idle", g)
<1>. DEFINE m == Stream[k]
<1>1. g \in 1..Target(m) /\ g < Target(m)
  BY DEF Filling
<1>2. g \in 1..Total(m) /\ g \in Nat /\ m \in Message
  BY <1>1, BoundsOf
<1>3. Choice(k, g) \in {"length", AfterLength(g, m)}
  BY <1>2, NextReadIs DEF Choice
<1>4. Choice(k, g) # "error"
  BY <1>3 DEF Filling
<1>. QED  BY <1>1, <1>4 DEF Filling

(* One byte more of the remaining length.                                   *)
LEMMA FillingLength ==
  ASSUME NEW k \in 1..Len(Stream), EndIsClear(Stream[k]), NEW g, Filling(k, "length", g)
  PROVE  /\ g + 1 \in 1..Target(Stream[k])
         /\ Choice(k, g + 1) # "error" => Filling(k, Choice(k, g + 1), g + 1)
<1>. DEFINE m == Stream[k]
            h == g + 1
<1>1. g \in 1..Target(m) /\ g < Target(m) /\ Choice(k, g) = "length"
  BY DEF Filling
<1>2. h \in 1..Target(m) /\ h \in 1..Total(m) /\ h \in Nat /\ h - 1 = g /\ m \in Message
  BY <1>1, BoundsOf
<1>3. /\ Choice(k, h) \in {"length", AfterLength(h, m)}
      /\ Choice(k, h) # "length" => h >= m.fixed
      /\ \/ Choice(k, h) # "length"
         \/ h < 6 /\ (h < Total(m) \/ (Choice(k, h - 1) # "length" /\ h > 1))
  <2>. HIDE DEF h
  <2>. QED  BY <1>2, NextReadIs DEF Choice
<1>4. CASE Choice(k, h) = "length"
  <2>1. h < 6 /\ h < Total(m)
    <3>. HIDE DEF h
    <3>. QED  BY <1>1, <1>2, <1>3, <1>4
  <2>2. h < Target(m)
    <3>1. /\ Total(m) \in Nat /\ m.fixed \in 2..5
          /\ Buffer \in Nat /\ Buffer >= m.fixed + 4
          /\ Target(m) = IF Total(m) <= Buffer THEN Total(m) ELSE Buffer
      BY BoundsOf
    <3>. HIDE DEF h, m
    <3>. QED  BY <1>2, <2>1, <3>1
  <2>. QED  BY <1>2, <1>4, <2>2 DEF Filling
<1>5. CASE Choice(k, h) \notin {"length", "error"}
  <2>. HIDE DEF h
  <2>1. Choice(k, h) = AfterLength(h, m) /\ h >= m.fixed
    BY <1>3, <1>5
  <2>2. AfterLength(h, m) \in {"topic", "rest", "deliver"}
    BY <1>2, <1>5, <2>1, AfterLengthIs
  <2>3. AfterLength(h, m) = "topic" => Total(m) > Buffer /\ h < m.fixed + 2
    BY <1>2, AfterLengthIs
  <2>4. AfterLength(h, m) = "rest" => h < Target(m)
    BY <1>2, AfterLengthIs
  <2>5. AfterLength(h, m) \in {"topic", "rest"} => h < Target(m)
    <3>1. /\ Total(m) \in Nat /\ Total(m) >= m.fixed /\ m.fixed \in 2..5
          /\ Buffer \in Nat /\ Buffer >= m.fixed + 4 /\ Target(m) \in Nat
          /\ Target(m) = IF Total(m) <= Buffer THEN Total(m) ELSE Buffer
      BY BoundsOf
    <3>2. Total(m) > Buffer /\ h < m.fixed + 2 => h < Target(m)
      BY <1>2, <3>1
    <3>. QED  BY <2>3, <2>4, <3>2
  <2>. QED  BY <1>2, <2>1, <2>2, <2>5 DEF Filling
<1>. QED  BY <1>2, <1>4, <1>5

(* A part of the topic.                                                     *)
LEMMA FillingTopic ==
  ASSUME NEW k \in 1..Len(Stream), EndIsClear(Stream[k]), NEW g, Filling(k, "topic", g),
         NEW r \in 1..(g - Stream[k].fixed + 2)
  PROVE  /\ g + r \in 1..Target(Stream[k])
         /\ AfterLength(g + r, Stream[k]) = "topic" => Filling(k, "idle", g + r)
         /\ AfterLength(g + r, Stream[k]) \notin {"topic", "error"}
              => Filling(k, AfterLength(g + r, Stream[k]), g + r)
<1>. DEFINE m == Stream[k]
            h == g + r
<1>1. g \in 1..Target(m) /\ g < Target(m) /\ g >= m.fixed /\ AfterLength(g, m) = "topic"
  BY DEF Filling
<1>2. g \in Nat /\ m \in Message
  BY <1>1, BoundsOf
<1>3. Total(m) > Buffer /\ g < m.fixed + 2 /\ m.type = "publish"
  BY <1>1, <1>2, AfterLengthIs
<1>4. h \in Nat /\ h > g /\ h <= Buffer /\ h \in 1..Target(m) /\ h \in 1..Total(m) /\ h >= m.fixed
  <2>1. /\ Total(m) \in Nat /\ Total(m) >= m.fixed /\ m.fixed \in 2..5
        /\ Buffer \in Nat /\ Buffer >= m.fixed + 4 /\ Target(m) \in Nat
        /\ Target(m) = IF Total(m) <= Buffer THEN Total(m) ELSE Buffer
    BY BoundsOf
  <2>2. ASSUME NEW f \in 2..5, NEW b \in Nat, b >= f + 4, g < f + 2, f <= g, r \in 1..(g - f + 2)
        PROVE  h \in Nat /\ h > g /\ h <= b /\ h >= f
    <3>1. g \in Nat /\ r \in Nat /\ r >= 1 /\ r <= g - f + 2 /\ f \in Nat
      BY <1>2, <2>2
    <3>. QED  BY <2>2, <3>1
  <2>3. h \in Nat /\ h > g /\ h <= Buffer /\ h >= m.fixed
    BY <1>1, <1>3, <2>1, <2>2
  <2>4. Target(m) = Buffer /\ Buffer <= Total(m)
    BY <1>3, <2>1
  <2>. QED  BY <2>1, <2>3, <2>4
<1>. HIDE DEF h
<1>5. CASE AfterLength(h, m) = "topic"
  <2>1. h < m.fixed + 2
    BY <1>2, <1>4, <1>5, AfterLengthIs
  <2>2. h < Target(m)
    <3>1. /\ Total(m) \in Nat /\ m.fixed \in 2..5
          /\ Buffer \in Nat /\ Buffer >= m.fixed + 4
          /\ Target(m) = IF Total(m) <= Buffer THEN Total(m) ELSE Buffer
      BY BoundsOf
    <3>. HIDE DEF m
    <3>. QED  BY <1>3, <1>4, <2>1, <3>1
  <2>3. Choice(k, h) \in {"length", AfterLength(h, m)}
    BY <1>4, NextReadIs DEF Choice
  <2>. QED  BY <1>4, <1>5, <2>2, <2>3 DEF Filling, h
<1>6. CASE AfterLength(h, m) \notin {"topic", "error"}
  <2>1. AfterLength(h, m) \in {"rest", "deliver"} /\ (AfterLength(h, m) = "rest" => h < Target(m))
    BY <1>2, <1>4, <1>6, AfterLengthIs
  <2>. QED  BY <1>4, <2>1 DEF Filling, h
<1>7. CASE AfterLength(h, m) = "error"
  BY <1>4, <1>7 DEF h
<1>. QED  BY <1>5, <1>6, <1>7 DEF h

(* A part of the rest.                                                      *)
LEMMA FillingRest ==
  ASSUME NEW k \in 1..Len(Stream), EndIsClear(Stream[k]), NEW g, Filling(k, "rest", g),
         NEW r \in 1..(Target(Stream[k]) - g)
  PROVE  /\ g + r \in 1..Target(Stream[k])
         /\ Filling(k, IF g + r < Target(Stream[k]) THEN "idle" ELSE "deliver", g + r)
<1>. DEFINE m == Stream[k]
            h == g + r
<1>1. g \in 1..Target(m) /\ g < Target(m) /\ g >= m.fixed /\ AfterLength(g, m) = "rest"
  BY DEF Filling
<1>2. /\ g \in Nat /\ m \in Message /\ h \in Nat /\ h > g
      /\ h \in 1..Target(m) /\ h \in 1..Total(m)
  BY <1>1, BoundsOf
<1>3. \/ Total(m) <= Buffer
      \/ m.type = "publish" /\ g >= m.fixed + 2 /\ CorrectedLength(m) <= Buffer
  BY <1>1, <1>2, AfterLengthIs
<1>4. g >= m.fixed + 2 => h >= m.fixed + 2
  <2>1. m.fixed \in 2..5
    BY BoundsOf
  <2>. QED  BY <1>2, <2>1
<1>. HIDE DEF h
<1>5. AfterLength(h, m) \in {"rest", "deliver"}
  BY <1>2, <1>3, <1>4, AfterLengthIs
<1>6. CASE h < Target(m)
  <2>1. Choice(k, h) \in {"length", AfterLength(h, m)}
    BY <1>2, NextReadIs DEF Choice
  <2>. QED  BY <1>2, <1>5, <1>6, <2>1 DEF Filling, h
<1>7. CASE ~(h < Target(m))
  <2>1. AfterLength(h, m) = "deliver"
    BY <1>2, <1>5, <1>7, AfterLengthIs
  <2>. QED  BY <1>2, <1>7, <2>1 DEF Filling, h
<1>. QED  BY <1>6, <1>7

(* A message is handled when the buffer holds it, or of a PUBLISH that is   *)
(* longer as much as fits.                                                  *)
LEMMA FillingDone ==
  ASSUME NEW k \in 1..Len(Stream), NEW g, Filling(k, "deliver", g)
  PROVE  /\ g = Target(Stream[k])
         /\ Stream[k].type # "publish" => g = Total(Stream[k])
         /\ g < Total(Stream[k]) => g = Buffer /\ CorrectedLength(Stream[k]) <= Buffer
<1>. DEFINE m == Stream[k]
<1>1. g \in 1..Target(m) /\ AfterLength(g, m) = "deliver"
  BY DEF Filling
<1>2. g \in Nat /\ m \in Message
  BY <1>1, BoundsOf
<1>3. /\ g >= Target(m)
      /\ Total(m) <= Buffer \/ (m.type = "publish" /\ CorrectedLength(m) <= Buffer)
  BY <1>1, <1>2, AfterLengthIs
<1>4. g = Target(m)
  BY <1>1, <1>3, BoundsOf
<1>5. Total(m) <= Buffer => g = Total(m)
  BY <1>4, BoundsOf
<1>6. Total(m) > Buffer => g = Buffer
  BY <1>4, BoundsOf
<1>7. g < Total(m) => Total(m) > Buffer
  BY <1>2, <1>5, BoundsOf
<1>8. Total(m) <= Buffer \/ Total(m) > Buffer
  BY BoundsOf
<1>9. Total(m) > Buffer => ~(Total(m) <= Buffer)
  BY BoundsOf
<1>. QED  BY <1>3, <1>4, <1>5, <1>6, <1>7, <1>8, <1>9

-----------------------------------------------------------------------------
(* Without a pause inside a payload the reader is between two messages, or  *)
(* takes the bytes for the message the broker began there.                  *)
Turn == Len(handled) + 1
Between ==
  /\ got = 0 /\ pc \in {"idle", "type"}
  /\ wire = Starts[Turn]
  /\ pc = "type" => begin = wire

(* The payload of message k, of which s bytes were handed over before byte  *)
(* w, is read past the buffer; the message is answered.                     *)
PayloadComes(k, w, s) ==
  /\ Stream[k].type = "publish"
  /\ begin + got <= w /\ w < begin + Total(Stream[k])
  /\ HeaderFits(Stream[k]) => Header(Stream[k]) <= got /\ s = w - begin - Header(Stream[k])
Answering(k, w, s) ==
  /\ w = begin + Total(Stream[k])
  /\ HeaderFits(Stream[k]) => Header(Stream[k]) <= got /\ s = Stream[k].payload

AtMessage(k) ==
  /\ k \in 1..Len(Stream) /\ begin = Starts[k] /\ taken = Stream[k] /\ got >= 1
  /\ \/ Filling(k, pc, got) /\ wire = begin + got
     \/ pc = "payload" /\ PayloadComes(k, wire, passed)
     \/ pc = "respond" /\ Answering(k, wire, passed)

Ordered ==
  /\ Len(handled) <= Len(Stream)
  /\ \A i \in 1..Len(handled) : handled[i] = Starts[i]

Place == IF phase = "closed" THEN pc = "idle" ELSE Between \/ AtMessage(Turn)

ReceiveInv == ReceiveTypeOK /\ Ordered /\ Place

Clear == \A k \in 1..Len(Stream) : EndIsClear(Stream[k])

Pcs == {"idle", "type", "length", "topic", "rest", "deliver", "payload", "respond"}

(* What a step that finds a message in the buffer works with.               *)
LEMMA InMessage ==
  ASSUME ReceiveInv, phase # "closed", pc \notin {"idle", "type"} \/ got # 0
  PROVE  /\ Turn \in 1..Len(Stream) /\ begin = Starts[Turn] /\ Turn = Len(handled) + 1
         /\ taken = Stream[Turn] /\ AtMessage(Turn)
         /\ Len(handled) \in Nat
         /\ got \in Nat /\ begin \in Nat /\ wire \in Nat /\ got >= 1
<1>1. AtMessage(Turn)
  BY DEF ReceiveInv, Place, Between
<1>2. Turn \in 1..Len(Stream) /\ begin = Starts[Turn] /\ got >= 1
  BY <1>1 DEF AtMessage
<1>3. taken = Stream[Turn]
  BY <1>1 DEF AtMessage
<1>4. handled \in Seq(0..Len(Wire)) /\ wire \in 0..Len(Wire) /\ begin \in 0..Len(Wire)
      /\ got \in 0..Buffer
  BY DEF ReceiveInv, ReceiveTypeOK
<1>5. Len(handled) \in Nat
  BY <1>4
<1>6. got \in Nat /\ begin \in Nat /\ wire \in Nat
  BY <1>4, StreamFacts, WireIs
<1>. QED  BY <1>1, <1>2, <1>3, <1>5, <1>6 DEF Turn

(* The next state, once it is known which message it stands at.             *)
LEMMA StaysAt ==
  ASSUME ReceiveInv, UNCHANGED <<pausing, handled, phase, begin, conn, before>>,
         phase # "closed",
         NEW k \in 1..Len(Stream), k = Turn, begin = Starts[k], taken' = Stream[k],
         got' \in 0..Buffer, got' >= 1, wire' \in 0..Len(Wire), passed' \in Nat, pc' \in Pcs,
         \/ Filling(k, pc', got') /\ wire' = begin + got'
         \/ /\ pc' = "payload" /\ got' = got /\ PayloadComes(k, wire', passed')
         \/ /\ pc' = "respond" /\ got' = got /\ Answering(k, wire', passed')
  PROVE  ReceiveInv'
<1>1. ReceiveTypeOK'
  BY StreamFacts DEF ReceiveInv, ReceiveTypeOK, Pcs
<1>2. Ordered'
  BY DEF ReceiveInv, Ordered
<1>3. Turn' = k
  BY DEF Turn
<1>4. AtMessage(k)'
  BY DEF AtMessage, PayloadComes, Answering
<1>5. Place'
  BY <1>3, <1>4 DEF Place
<1>. QED  BY <1>1, <1>2, <1>5 DEF ReceiveInv

(* The next state once the message in the buffer is handled.                *)
LEMMA MovesOn ==
  ASSUME ReceiveInv, UNCHANGED <<pausing, conn, taken, begin, before>>,
         phase' \in {"connecting", "connected"},
         NEW k \in 1..Len(Stream), k = Turn, begin = Starts[k],
         got' = 0, pc' = "idle", handled' = Append(handled, begin),
         wire' \in 0..Len(Wire), passed' \in Nat, wire' = begin + Total(Stream[k])
  PROVE  ReceiveInv'
<1>1. handled \in Seq(0..Len(Wire)) /\ begin \in 0..Len(Wire) /\ Len(handled) \in Nat
  BY DEF ReceiveInv, ReceiveTypeOK
<1>2. /\ handled' \in Seq(0..Len(Wire)) /\ Len(handled') = k
      /\ handled'[k] = begin
      /\ \A i \in 1..Len(handled) : handled'[i] = handled[i]
  BY <1>1 DEF Turn
<1>3. ReceiveTypeOK'
  BY <1>2, StreamFacts DEF ReceiveInv, ReceiveTypeOK
<1>4. Ordered'
  <2>1. k <= Len(Stream) /\ Len(handled) = k - 1 /\ k \in Nat
    BY <1>1 DEF Turn
  <2>2. ASSUME NEW i \in 1..k
        PROVE  handled'[i] = Starts[i]
    <3>1. CASE i = k
      BY <1>2, <3>1
    <3>2. CASE i # k
      <4>1. i \in 1..Len(handled)
        BY <2>1, <3>2
      <4>. QED  BY <1>2, <4>1 DEF ReceiveInv, Ordered
    <3>. QED  BY <3>1, <3>2
  <2>. QED  BY <1>2, <2>1, <2>2 DEF Ordered
<1>5. Turn' = k + 1
  BY <1>2 DEF Turn
<1>6. Starts[k + 1] = begin + Total(Stream[k])
  BY StartsAre
<1>7. Between'
  BY <1>5, <1>6 DEF Between
<1>8. Place'
  BY <1>7 DEF Place
<1>. QED  BY <1>3, <1>4, <1>8 DEF ReceiveInv

LEMMA GivesUp ==
  ASSUME ReceiveInv, GiveUp, UNCHANGED pausing
  PROVE  ReceiveInv'
<1>1. ReceiveTypeOK'
  BY DEF ReceiveInv, ReceiveTypeOK, GiveUp
<1>2. Ordered'
  BY DEF ReceiveInv, Ordered, GiveUp
<1>3. Place'
  BY DEF Place, GiveUp
<1>. QED  BY <1>1, <1>2, <1>3 DEF ReceiveInv

LEMMA InitReceive == ReceiveInit => ReceiveInv
<1>. SUFFICES ASSUME ReceiveInit  PROVE ReceiveInv
  OBVIOUS
<1>1. Len(handled) = 0 /\ handled \in Seq(0..Len(Wire)) /\ 0 \in 0..Len(Wire)
  BY WireIs DEF ReceiveInit
<1>2. ReceiveTypeOK
  BY <1>1, StreamFacts, ReceiveAssumption DEF ReceiveInit, ReceiveTypeOK
<1>3. Ordered
  BY <1>1, StreamFacts DEF Ordered
<1>4. Turn = 1
  BY <1>1 DEF Turn
<1>5. Place
  BY <1>4, StartsAre DEF ReceiveInit, Place, Between
<1>. QED  BY <1>2, <1>3, <1>5 DEF ReceiveInv

(* Between the passes: the next pass looks at what the buffer holds.        *)
LEMMA EnterKeeps ==
  ASSUME ReceiveInv, Clear, EnterReceive, UNCHANGED pausing
  PROVE  ReceiveInv'
<1>1. /\ pc = "idle" /\ phase # "closed" /\ before' = got
      /\ begin' = IF got = 0 THEN wire ELSE begin
      /\ UNCHANGED <<phase, wire, taken, got, passed, handled, conn>>
  BY DEF EnterReceive
<1>t. pc' \in Pcs => ReceiveTypeOK'
  <2>1. got \in 0..Buffer /\ wire \in 0..Len(Wire) /\ begin \in 0..Len(Wire)
    BY DEF ReceiveInv, ReceiveTypeOK
  <2>2. begin' \in 0..Len(Wire)
    BY <1>1, <2>1
  <2>. QED  BY <1>1, <2>1, <2>2 DEF ReceiveInv, ReceiveTypeOK, Pcs
<1>2. Ordered' /\ Turn' = Turn
  BY <1>1 DEF ReceiveInv, Ordered, Turn
<1>3. CASE got = 0
  <2>1. Between
    BY <1>1, <1>3 DEF ReceiveInv, Place, AtMessage
  <2>2. pc' = "type" /\ begin' = wire
    BY <1>3 DEF EnterReceive
  <2>3. Between'
    BY <1>1, <1>2, <2>1, <2>2 DEF Between
  <2>4. ReceiveTypeOK'
    BY <1>t, <2>2 DEF Pcs
  <2>. QED  BY <1>1, <1>2, <2>3, <2>4 DEF ReceiveInv, Place
<1>4. CASE got # 0
  <2>1. PICK k : k = Turn
    OBVIOUS
  <2>2. k \in 1..Len(Stream) /\ begin = Starts[k] /\ taken = Stream[k] /\ AtMessage(k)
    BY <1>1, <1>4, <2>1, InMessage
  <2>3. Filling(k, "idle", got) /\ wire = begin + got
    BY <1>1, <2>2 DEF AtMessage
  <2>4. pc' = Choice(k, got)
    BY <1>4, <2>2, <2>3 DEF EnterReceive, Choice
  <2>5. Filling(k, pc', got)
    BY <2>2, <2>3, <2>4, FillingGoesOn DEF Clear
  <2>6. pc' \in Pcs
    BY <2>5 DEF Filling, Pcs
  <2>7. ReceiveTypeOK'
    BY <1>t, <2>6
  <2>8. begin' = begin
    BY <1>4 DEF EnterReceive
  <2>9. AtMessage(k)'
    BY <1>1, <2>2, <2>3, <2>5, <2>8 DEF AtMessage
  <2>10. Place'
    BY <1>1, <1>2, <2>1, <2>9 DEF Place
  <2>. QED  BY <1>2, <2>7, <2>10 DEF ReceiveInv
<1>. QED  BY <1>3, <1>4

(* The first byte of a message is one: the reader stands where the broker   *)
(* began it.                                                                *)
LEMMA TypeKeeps ==
  ASSUME ReceiveInv, ReadType, UNCHANGED pausing
  PROVE  ReceiveInv'
<1>1. /\ pc = "type" /\ wire + 1 <= Len(Wire) /\ wire' = wire + 1 /\ got' = got + 1
      /\ pc' = "length" /\ taken' \in Taken
      /\ UNCHANGED <<phase, begin, before, passed, handled, conn>>
  BY DEF ReadType, Took
<1>2. phase # "closed" /\ Between
  BY <1>1 DEF ReceiveInv, Place, AtMessage, Filling
<1>3. begin = wire /\ got = 0 /\ wire = Starts[Turn]
  BY <1>1, <1>2 DEF Between
<1>5. Len(handled) \in Nat /\ Turn = Len(handled) + 1 /\ Len(handled) <= Len(Stream)
      /\ wire \in 0..Len(Wire) /\ passed \in Nat
  BY DEF ReceiveInv, ReceiveTypeOK, Ordered, Turn
<1>4. PICK k : k = Turn
  OBVIOUS
<1>6. k \in 1..Len(Stream) /\ Starts[k] = begin
  <2>1. Turn # Len(Stream) + 1
    <3>1. Starts[Len(Stream) + 1] = Len(Wire) /\ Len(Wire) \in Nat
      BY WireIs
    <3>2. wire \in Nat /\ wire < Len(Wire)
      BY <1>1, <1>5, <3>1
    <3>. QED  BY <1>3, <3>1, <3>2
  <2>2. Turn \in 1..Len(Stream)
    BY <1>5, <2>1, StreamFacts
  <2>. QED  BY <1>3, <1>4, <2>2
<1>9. taken' = Stream[k]
  BY <1>1, <1>6, TakenIs
<1>7. Filling(k, "length", got')
  BY <1>1, <1>3, <1>6, FillingStarts
<1>8. got' = 1 /\ got' \in 0..Buffer /\ wire' \in 0..Len(Wire) /\ passed' \in Nat
      /\ wire' = begin + got'
  <2>1. got' = 1
    BY <1>1, <1>3
  <2>2. 1 \in 0..Buffer
    BY <1>6, BoundsOf
  <2>3. wire + 1 \in 0..Len(Wire)
    BY <1>1, <1>5, WireIs
  <2>. QED  BY <1>1, <1>3, <1>5, <2>1, <2>2, <2>3
<1>. QED  BY <1>1, <1>2, <1>4, <1>6, <1>7, <1>8, <1>9, StaysAt DEF Pcs

(* The reads that fill the buffer.                                          *)
LEMMA FillKeeps ==
  ASSUME ReceiveInv, Clear, ReadLength \/ ReadTopic \/ ReadRest, UNCHANGED pausing
  PROVE  ReceiveInv'
<1>0. pc \in {"length", "topic", "rest"}
  BY DEF ReadLength, ReadTopic, ReadRest
<1>1. phase # "closed"
  BY <1>0 DEF ReceiveInv, Place
<1>2. PICK k : k = Turn
  OBVIOUS
<1>3. /\ k \in 1..Len(Stream) /\ begin = Starts[k] /\ taken = Stream[k] /\ AtMessage(k)
      /\ got \in Nat /\ begin \in Nat /\ wire \in Nat /\ got >= 1
  BY <1>0, <1>1, <1>2, InMessage
<1>4. Filling(k, pc, got) /\ wire = begin + got
  BY <1>0, <1>3 DEF AtMessage
<1>5. /\ EndIsClear(Stream[k]) /\ Target(Stream[k]) \in Nat /\ Target(Stream[k]) <= Buffer
      /\ Buffer \in Nat /\ Stream[k].fixed \in 2..5
  BY <1>3, BoundsOf DEF Clear
<1>6. ASSUME NEW r \in Nat, NEW next \in Pcs, Took(r, next),
             UNCHANGED taken, got + r \in 1..Target(Stream[k]), Filling(k, next, got + r)
      PROVE  ReceiveInv'
  <2>1. /\ wire + r <= Len(Wire) /\ wire' = wire + r /\ got' = got + r /\ pc' = next
        /\ UNCHANGED <<phase, begin, before, passed, handled, conn>>
    BY <1>6 DEF Took
  <2>2. passed' \in Nat
    BY <2>1 DEF ReceiveInv, ReceiveTypeOK
  <2>3. /\ got' \in 0..Buffer /\ got' >= 1 /\ wire' \in 0..Len(Wire) /\ wire' = begin + got'
    <3>1. got' \in 0..Buffer /\ got' >= 1
      BY <1>5, <1>6, <2>1
    <3>2. wire' \in 0..Len(Wire)
      BY <1>3, <2>1, WireIs
    <3>. QED  BY <1>3, <1>4, <2>1, <3>1, <3>2
  <2>. QED  BY <1>1, <1>2, <1>3, <1>6, <2>1, <2>2, <2>3, StaysAt
<1>7. CASE ReadLength
  <2>1. pc = "length" /\ UNCHANGED taken /\ (IF Choice(k, got + 1) = "error" THEN GiveUp
                                                         ELSE Took(1, Choice(k, got + 1)))
    <3>1. wire + 1 = Starts[k] + (got + 1)
      <4>1. wire = Starts[k] + got /\ Starts[k] \in Nat /\ got \in Nat
        BY <1>3, <1>4
      <4>. QED  BY <4>1
    <3>. QED  BY <1>3, <1>7, <3>1 DEF ReadLength, Choice
  <2>2. /\ got + 1 \in 1..Target(Stream[k])
        /\ Choice(k, got + 1) # "error" => Filling(k, Choice(k, got + 1), got + 1)
    BY <1>3, <1>4, <1>5, <2>1, FillingLength
  <2>3. CASE Choice(k, got + 1) = "error"
    BY <2>1, <2>3, GivesUp
  <2>4. CASE Choice(k, got + 1) # "error"
    <3>1. Choice(k, got + 1) \in Pcs
      BY <2>2, <2>4 DEF Filling, Pcs
    <3>. QED  BY <1>6, <2>1, <2>2, <2>4, <3>1
  <2>. QED  BY <2>3, <2>4
<1>8. CASE ReadTopic
  <2>1. pc = "topic" /\ UNCHANGED taken /\ \E r \in 1..(got - Stream[k].fixed + 2) :
          CASE AfterLength(got + r, Stream[k]) = "topic" -> Took(r, "idle")
            [] AfterLength(got + r, Stream[k]) = "error" -> GiveUp
            [] OTHER -> Took(r, AfterLength(got + r, Stream[k]))
    BY <1>3, <1>8 DEF ReadTopic
  <2>2. PICK r \in 1..(got - Stream[k].fixed + 2) :
          CASE AfterLength(got + r, Stream[k]) = "topic" -> Took(r, "idle")
            [] AfterLength(got + r, Stream[k]) = "error" -> GiveUp
            [] OTHER -> Took(r, AfterLength(got + r, Stream[k]))
    BY <2>1
  <2>3. /\ got + r \in 1..Target(Stream[k])
        /\ AfterLength(got + r, Stream[k]) = "topic" => Filling(k, "idle", got + r)
        /\ AfterLength(got + r, Stream[k]) \notin {"topic", "error"}
             => Filling(k, AfterLength(got + r, Stream[k]), got + r)
    BY <1>3, <1>4, <1>5, <2>1, FillingTopic
  <2>4. r \in Nat
    OBVIOUS
  <2>5. CASE AfterLength(got + r, Stream[k]) = "topic"
    BY <1>6, <2>1, <2>2, <2>3, <2>4, <2>5 DEF Pcs
  <2>6. CASE AfterLength(got + r, Stream[k]) = "error"
    BY <2>2, <2>6, GivesUp
  <2>7. CASE AfterLength(got + r, Stream[k]) \notin {"topic", "error"}
    <3>1. Took(r, AfterLength(got + r, Stream[k]))
      BY <2>2, <2>7
    <3>2. AfterLength(got + r, Stream[k]) \in Pcs
      BY <2>3, <2>7 DEF Filling, Pcs
    <3>. QED  BY <1>6, <2>1, <2>3, <2>4, <2>7, <3>1, <3>2
  <2>. QED  BY <2>5, <2>6, <2>7
<1>9. CASE ReadRest
  <2>1. pc = "rest" /\ UNCHANGED taken /\ \E r \in 1..(Target(Stream[k]) - got) :
          Took(r, IF got + r < Target(Stream[k]) THEN "idle" ELSE "deliver")
    BY <1>3, <1>9 DEF ReadRest
  <2>2. PICK r \in 1..(Target(Stream[k]) - got) :
          Took(r, IF got + r < Target(Stream[k]) THEN "idle" ELSE "deliver")
    BY <2>1
  <2>3. /\ got + r \in 1..Target(Stream[k])
        /\ Filling(k, IF got + r < Target(Stream[k]) THEN "idle" ELSE "deliver", got + r)
    BY <1>3, <1>4, <1>5, <2>1, FillingRest
  <2>4. r \in Nat /\ (IF got + r < Target(Stream[k]) THEN "idle" ELSE "deliver") \in Pcs
    BY DEF Pcs
  <2>. QED  BY <1>6, <2>1, <2>2, <2>3, <2>4
<1>. QED  BY <1>7, <1>8, <1>9

LEMMA TimeoutKeeps ==
  ASSUME ReceiveInv, Clear, Timeout, UNCHANGED pausing
  PROVE  ReceiveInv'
<1>1. \/ GiveUp
      \/ /\ pc \in {"type", "length", "topic", "rest"} /\ pc' = "idle"
         /\ UNCHANGED <<phase, wire, taken, begin, got, before, passed, handled, conn>>
  BY DEF Timeout
<1>2. CASE GiveUp
  BY <1>2, GivesUp
<1>3. CASE /\ pc \in {"type", "length", "topic", "rest"} /\ pc' = "idle"
           /\ UNCHANGED <<phase, wire, taken, begin, got, before, passed, handled, conn>>
  <2>1. phase # "closed"
    BY <1>3 DEF ReceiveInv, Place
  <2>2. ReceiveTypeOK' /\ Ordered' /\ Turn' = Turn
    BY <1>3 DEF ReceiveInv, ReceiveTypeOK, Ordered, Turn
  <2>3. CASE pc = "type"
    <3>1. Between
      BY <2>1, <2>3 DEF ReceiveInv, Place, AtMessage, Filling
    <3>2. Between'
      BY <1>3, <2>2, <3>1 DEF Between
    <3>. QED  BY <1>3, <2>1, <2>2, <3>2 DEF ReceiveInv, Place
  <2>4. CASE pc # "type"
    <3>1. PICK k : k = Turn
      OBVIOUS
    <3>2. k \in 1..Len(Stream) /\ AtMessage(k) /\ EndIsClear(Stream[k])
      BY <1>3, <2>1, <2>4, <3>1, InMessage DEF Clear
    <3>3. Filling(k, pc, got) /\ wire = begin + got /\ pc \in {"length", "topic", "rest"}
      BY <1>3, <2>4, <3>2 DEF AtMessage
    <3>4. Filling(k, "idle", got)
      BY <3>2, <3>3, FillingPauses
    <3>5. AtMessage(k)'
      BY <1>3, <3>2, <3>3, <3>4 DEF AtMessage
    <3>6. Place'
      BY <2>2, <3>1, <3>5, <1>3 DEF Place
    <3>. QED  BY <2>2, <3>6 DEF ReceiveInv
  <2>. QED  BY <2>3, <2>4
<1>. QED  BY <1>1, <1>2, <1>3

(* A message that is in the buffer is handled.                              *)
LEMMA HandleKeeps ==
  ASSUME ReceiveInv, Connack \/ Handle, UNCHANGED pausing
  PROVE  ReceiveInv'
<1>1. pc = "deliver" /\ phase # "closed"
  BY DEF Connack, Handle
<1>2. GiveUp \/ (Finish /\ taken.type # "publish" /\ phase' \in {"connecting", "connected"})
  BY DEF Connack, Handle
<1>3. CASE Finish /\ taken.type # "publish" /\ phase' \in {"connecting", "connected"}
  <2>1. PICK k : k = Turn
    OBVIOUS
  <2>2. k \in 1..Len(Stream) /\ begin = Starts[k] /\ taken = Stream[k] /\ AtMessage(k)
    BY <1>1, <2>1, InMessage
  <2>3. Filling(k, "deliver", got) /\ wire = begin + got
    BY <1>1, <2>2 DEF AtMessage
  <2>4. wire = begin + Total(Stream[k])
    BY <1>3, <2>2, <2>3, FillingDone
  <2>5. wire \in 0..Len(Wire)
    BY DEF ReceiveInv, ReceiveTypeOK
  <2>6. /\ pc' = "idle" /\ got' = 0 /\ passed' = 0 /\ handled' = Append(handled, begin)
        /\ UNCHANGED <<wire, taken, begin, before, conn>>
    BY <1>3 DEF Finish
  <2>. QED  BY <1>3, <2>1, <2>2, <2>4, <2>5, <2>6, MovesOn
<1>. QED  BY <1>2, <1>3, GivesUp

(* The first event of a PUBLISH: of a message that is read on the header is *)
(* in the buffer if it fits there.                                          *)
LEMMA DeliverKeeps ==
  ASSUME ReceiveInv, Deliver, UNCHANGED pausing
  PROVE  ReceiveInv'
<1>1. pc = "deliver" /\ phase # "closed" /\ phase = "connected"
  BY DEF Deliver
<1>2. PICK k : k = Turn
  OBVIOUS
<1>. DEFINE m == Stream[k]
<1>3. /\ k \in 1..Len(Stream) /\ begin = Starts[k] /\ taken = m /\ AtMessage(k)
      /\ got \in Nat /\ begin \in Nat /\ wire \in Nat /\ got >= 1
  BY <1>1, <1>2, InMessage
<1>4. Filling(k, "deliver", got) /\ wire = begin + got
  BY <1>1, <1>3 DEF AtMessage
<1>5. /\ m \in Message /\ Total(m) \in Nat /\ Header(m) \in Nat /\ m.payload \in Nat
      /\ Total(m) = Header(m) + m.payload /\ got <= Total(m) /\ m.qos \in 0..2
      /\ m.fixed \in 2..5 /\ m.topic \in Nat
  <2>1. m \in Message /\ Target(m) \in Nat /\ Target(m) <= Total(m)
    BY <1>3, BoundsOf
  <2>2. got = Target(m)
    BY <1>3, <1>4, FillingDone
  <2>. QED  BY <2>1, <2>2, MessageFacts
<1>6. wire \in 0..Len(Wire) /\ got \in 0..Buffer
  BY DEF ReceiveInv, ReceiveTypeOK
<1>q. taken = Stream[k]
  BY <1>3
<1>. HIDE DEF m
<1>7. CASE got < m.fixed + 2 + m.topic
  BY <1>3, <1>7, GivesUp DEF Deliver
<1>8. CASE ~(got < m.fixed + 2 + m.topic)
  <2>1. /\ m.type = "publish"
        /\ passed' = Max({0, Min({got, Total(m)}) - Header(m)})
        /\ pc' = IF got < Total(m) THEN "payload" ELSE IF m.qos > 0 THEN "respond" ELSE "idle"
        /\ pc' # "idle" => UNCHANGED <<got, handled>>
        /\ pc' = "idle" => got' = 0 /\ handled' = Append(handled, begin)
        /\ UNCHANGED <<phase, wire, taken, begin, before, conn>>
    BY <1>3, <1>8 DEF Deliver
  <2>2. passed' = IF Header(m) <= got THEN got - Header(m) ELSE 0
    <3>1. Min({got, Total(m)}) = got
      BY <1>3, <1>5, MinPair
    <3>2. got - Header(m) \in Int
      BY <1>3, <1>5
    <3>3. Max({0, got - Header(m)}) = IF 0 >= got - Header(m) THEN 0 ELSE got - Header(m)
      BY <3>2, MaxPair
    <3>4. passed' = IF 0 >= got - Header(m) THEN 0 ELSE got - Header(m)
      BY <2>1, <3>1, <3>3
    <3>5. got \in Nat /\ Header(m) \in Nat
      BY <1>3, <1>5
    <3>. QED  BY <3>4, <3>5
  <2>3. passed' \in Nat
    BY <1>3, <1>5, <2>2
  <2>4. CASE got < Total(m)
    <3>1. got = Buffer /\ CorrectedLength(m) <= Buffer
      BY <1>3, <1>4, <2>4, FillingDone DEF m
    <3>2. /\ m.qos = 0 => Header(m) = m.fixed + 2 + m.topic
          /\ m.qos > 0 => Header(m) = m.fixed + 4 + m.topic
          /\ CorrectedLength(m) = m.fixed + m.topic + (IF m.qos > 0 THEN 2 ELSE 0)
      BY <1>5, <2>1, MessageFacts
    <3>3. ASSUME HeaderFits(m)
          PROVE  Header(m) <= got
      <4>1. m.qos > 0 => Header(m) \notin {Buffer + 1, Buffer + 2}
        BY <1>3, <1>5, <2>1, <2>4, <3>1, <3>3 DEF HeaderFits
      <4>2. CASE m.qos = 0
        BY <1>3, <1>5, <1>8, <3>2, <4>2
      <4>3. CASE m.qos > 0
        <5>1. Header(m) <= Buffer + 2 /\ Header(m) \in Nat /\ Buffer \in Nat
          <6>1. m.fixed \in Nat /\ m.topic \in Nat /\ Buffer \in Nat
            BY <1>5, StreamFacts
          <6>2. m.fixed + m.topic + 2 <= Buffer /\ Header(m) = m.fixed + 4 + m.topic
            BY <3>1, <3>2, <4>3
          <6>. QED  BY <6>1, <6>2
        <5>2. Header(m) \notin {Buffer + 1, Buffer + 2}
          BY <4>1, <4>3
        <5>. QED  BY <3>1, <5>1, <5>2
      <4>. QED  BY <1>5, <4>2, <4>3
    <3>4. HeaderFits(m) => Header(m) <= got /\ passed' = wire - begin - Header(m)
      <4>1. wire - begin = got
        BY <1>3, <1>4
      <4>. QED  BY <2>2, <3>3, <4>1
    <3>5. PayloadComes(k, wire', passed')
      <4>1. begin + got <= wire /\ wire < begin + Total(m) /\ wire' = wire
        BY <1>3, <1>4, <1>5, <2>1, <2>4
      <4>. QED  BY <2>1, <3>4, <4>1 DEF PayloadComes, m
    <3>6. pc' = "payload" /\ got' = got /\ handled' = handled
      BY <2>1, <2>4
    <3>7. got' \in 0..Buffer /\ got' >= 1 /\ wire' \in 0..Len(Wire) /\ pc' \in Pcs
      BY <1>3, <1>6, <2>1, <3>6 DEF Pcs
    <3>. QED  BY <1>1, <1>2, <1>3, <1>q, <2>1, <2>3, <3>5, <3>6, <3>7, StaysAt
  <2>5. CASE got = Total(m) /\ m.qos > 0
    <3>1. pc' = "respond" /\ got' = got /\ handled' = handled
      BY <1>5, <2>1, <2>5
    <3>2. Header(m) <= got /\ passed' = m.payload
      BY <1>5, <2>2, <2>5
    <3>3. Answering(k, wire', passed')
      <4>1. wire = begin + Total(m) /\ wire' = wire
        BY <1>4, <2>1, <2>5
      <4>. QED  BY <3>2, <4>1 DEF Answering, m
    <3>4. got' \in 0..Buffer /\ got' >= 1 /\ wire' \in 0..Len(Wire) /\ pc' \in Pcs
      BY <1>3, <1>6, <2>1, <3>1 DEF Pcs
    <3>. QED  BY <1>1, <1>2, <1>3, <1>q, <2>1, <2>3, <3>1, <3>3, <3>4, StaysAt
  <2>6. CASE got = Total(m) /\ ~(m.qos > 0)
    <3>1. pc' = "idle"
      BY <1>5, <2>1, <2>6
    <3>2. wire' = begin + Total(Stream[k]) /\ wire' \in 0..Len(Wire)
      BY <1>4, <1>6, <2>1, <2>6 DEF m
    <3>. QED  BY <1>1, <1>2, <1>3, <1>q, <2>1, <2>3, <3>1, <3>2, MovesOn
  <2>. QED  BY <1>3, <1>5, <2>4, <2>5, <2>6
<1>. QED  BY <1>7, <1>8

(* The parts of a payload that come past the buffer.                        *)
LEMMA PayloadKeeps ==
  ASSUME ReceiveInv, ReadPayload, UNCHANGED pausing
  PROVE  ReceiveInv'
<1>1. pc = "payload" /\ phase # "closed"
  BY DEF ReadPayload, ReceiveInv, Place
<1>2. PICK k : k = Turn
  OBVIOUS
<1>. DEFINE m == Stream[k]
<1>3. /\ k \in 1..Len(Stream) /\ begin = Starts[k] /\ taken = m /\ AtMessage(k)
      /\ got \in Nat /\ begin \in Nat /\ wire \in Nat /\ got >= 1
  BY <1>1, <1>2, InMessage
<1>4. PayloadComes(k, wire, passed)
  BY <1>1, <1>3 DEF AtMessage, Filling
<1>5. /\ begin + got <= wire /\ wire < begin + Total(m)
      /\ HeaderFits(m) => Header(m) <= got /\ passed = wire - begin - Header(m)
      /\ Total(m) \in Nat /\ Header(m) \in Nat /\ m.payload \in Nat
      /\ Total(m) = Header(m) + m.payload
  BY <1>3, <1>4, BoundsOf, MessageFacts DEF PayloadComes
<1>6. got \in 0..Buffer /\ passed \in Nat /\ phase \in {"connecting", "connected"}
      /\ begin + Total(m) <= Len(Wire) /\ Len(Wire) \in Nat /\ Buffer \in Nat
  <2>1. Starts[k + 1] = begin + Total(m) /\ Starts[k + 1] <= Len(Wire)
    BY <1>3, StartsAre, StartsGrow, WireIs
  <2>2. Len(Wire) \in Nat /\ Buffer \in Nat
    BY WireIs, StreamFacts
  <2>. QED  BY <1>1, <2>1, <2>2 DEF ReceiveInv, ReceiveTypeOK
<1>q. taken = Stream[k]
  BY <1>3
<1>. HIDE DEF m
<1>p. /\ got \in Nat /\ begin \in Nat /\ wire \in Nat /\ got >= 1 /\ Total(m) \in Nat
      /\ begin + got <= wire /\ wire < begin + Total(m)
      /\ begin + Total(m) <= Len(Wire) /\ Len(Wire) \in Nat
  BY <1>3, <1>5, <1>6
<1>h. /\ Header(m) \in Nat /\ m.payload \in Nat /\ Total(m) = Header(m) + m.payload
      /\ passed \in Nat
  BY <1>5, <1>6
<1>7. ASSUME NEW w \in Nat, NEW s \in Nat, Delivered(w, s), w = begin + Total(m),
             HeaderFits(m) => Header(m) <= got /\ s = m.payload
      PROVE  ReceiveInv'
  <2>1. /\ wire' = w /\ wire' \in 0..Len(Wire)
        /\ UNCHANGED <<phase, taken, begin, before, conn>>
    <3>1. wire' = w /\ UNCHANGED <<phase, taken, begin, before, conn>>
      BY <1>7 DEF Delivered
    <3>2. w \in 0..Len(Wire)
      BY <1>7, <1>p
    <3>. QED  BY <3>1, <3>2
  <2>2. CASE m.qos > 0
    <3>1. pc' = "respond" /\ passed' = s /\ UNCHANGED <<got, handled>>
      BY <1>3, <1>7, <2>2 DEF Delivered
    <3>2. Answering(k, wire', passed')
      BY <1>7, <2>1, <3>1 DEF Answering, m
    <3>. QED  BY <1>1, <1>2, <1>3, <1>q, <1>6, <1>7, <2>1, <3>1, <3>2, StaysAt DEF Pcs
  <2>3. CASE ~(m.qos > 0)
    <3>1. pc' = "idle" /\ passed' = 0 /\ got' = 0 /\ handled' = Append(handled, begin)
      BY <1>3, <1>7, <2>3 DEF Delivered
    <3>2. wire' = begin + Total(Stream[k])
      BY <1>7, <2>1 DEF m
    <3>3. passed' \in Nat /\ phase' \in {"connecting", "connected"}
      BY <1>6, <2>1, <3>1
    <3>. QED  BY <1>2, <1>3, <1>q, <2>1, <3>1, <3>2, <3>3, MovesOn
  <2>. QED  BY <2>2, <2>3
<1>9. ReceiveInv'
  <2>1. PICK r \in 1..Min({Buffer, begin + Total(m) - wire, Len(Wire) - wire}) :
          IF wire + r = begin + Total(m) THEN Delivered(wire + r, passed + r)
          ELSE /\ wire' = wire + r
               /\ passed' = passed + r
               /\ UNCHANGED <<phase, pc, taken, begin, got, before, handled, conn>>
    BY <1>3 DEF ReadPayload
  <2>2. r \in Nat /\ r >= 1 /\ wire + r <= begin + Total(m)
    <3>1. begin + Total(m) - wire \in Int /\ Len(Wire) - wire \in Int /\ Buffer \in Int
      BY <1>3, <1>5, <1>6
    <3>2. /\ Min({Buffer, begin + Total(m) - wire, Len(Wire) - wire}) \in Int
          /\ Min({Buffer, begin + Total(m) - wire, Len(Wire) - wire}) <= begin + Total(m) - wire
      BY <3>1, MinOfThree
    <3>3. r \in Nat /\ r >= 1 /\ r <= begin + Total(m) - wire
      BY <1>6, <3>1, <3>2
    <3>. QED  BY <1>p, <3>3
  <2>3. wire + r \in Nat /\ passed + r \in Nat /\ begin < wire + r
    BY <1>3, <1>5, <1>6, <2>2
  <2>4. HeaderFits(m) => Header(m) <= got /\ passed + r = (wire + r) - begin - Header(m)
    <3>. SUFFICES ASSUME HeaderFits(m)
                  PROVE  Header(m) <= got /\ passed + r = (wire + r) - begin - Header(m)
      OBVIOUS
    <3>1. Header(m) <= got /\ passed = wire - begin - Header(m)
      BY <1>5
    <3>. DEFINE h == Header(m)
    <3>2. h \in Nat /\ passed = wire - begin - h
      BY <1>h, <3>1
    <3>. HIDE DEF h
    <3>3. passed + r = (wire + r) - begin - h
      BY <1>p, <1>h, <2>2, <3>2
    <3>. QED  BY <3>1, <3>3 DEF h
  <2>5. CASE wire + r = begin + Total(m)
    <3>1. HeaderFits(m) => Header(m) <= got /\ passed + r = m.payload
      <4>1. (wire + r) - begin - Header(m) = m.payload
        <5>. DEFINE h == Header(m)
                    n == m.payload
        <5>1. h \in Nat /\ n \in Nat /\ wire + r = begin + (h + n)
          BY <1>h, <2>5
        <5>. HIDE DEF h, n
        <5>2. (wire + r) - begin - h = n
          BY <1>p, <2>2, <5>1
        <5>. QED  BY <5>2 DEF h, n
      <4>. QED  BY <2>4, <4>1
    <3>. QED  BY <1>7, <2>1, <2>2, <2>3, <2>5, <3>1
  <2>6. CASE wire + r # begin + Total(m)
    <3>1. /\ wire' = wire + r /\ passed' = passed + r
          /\ UNCHANGED <<phase, pc, taken, begin, got, before, handled, conn>>
      BY <2>1, <2>6
    <3>2. PayloadComes(k, wire', passed')
      <4>1. begin + got <= wire + r /\ wire + r < begin + Total(m)
        BY <1>p, <2>2, <2>6
      <4>. QED  BY <1>4, <2>4, <3>1, <4>1 DEF PayloadComes, m
    <3>3. wire' \in 0..Len(Wire)
      <4>1. wire + r \in 0..Len(Wire)
        BY <1>p, <2>2
      <4>. QED  BY <3>1, <4>1
    <3>. QED  BY <1>1, <1>2, <1>3, <1>q, <1>6, <2>3, <3>1, <3>2, <3>3, StaysAt DEF Pcs
  <2>. QED  BY <2>5, <2>6
<1>. QED  BY <1>9

(* The answer, and a new connection.                                        *)
LEMMA RespondKeeps ==
  ASSUME ReceiveInv, Respond, UNCHANGED pausing
  PROVE  ReceiveInv'
<1>1. pc = "respond" /\ phase # "closed"
  BY DEF Respond, ReceiveInv, Place
<1>2. PICK k : k = Turn
  OBVIOUS
<1>3. /\ k \in 1..Len(Stream) /\ begin = Starts[k] /\ AtMessage(k)
      /\ begin \in Nat /\ wire \in Nat
  BY <1>1, <1>2, InMessage
<1>4. Answering(k, wire, passed)
  BY <1>1, <1>3 DEF AtMessage, Filling
<1>5. /\ phase' = phase /\ pc' = "idle" /\ got' = 0 /\ passed' = 0
      /\ handled' = Append(handled, begin)
      /\ UNCHANGED <<wire, taken, begin, before, conn>>
  BY DEF Respond, Finish
<1>6. wire' = begin + Total(Stream[k])
  BY <1>4, <1>5 DEF Answering
<1>7. wire' \in 0..Len(Wire) /\ passed' \in Nat /\ phase' \in {"connecting", "connected"}
  BY <1>1, <1>5 DEF ReceiveInv, ReceiveTypeOK
<1>. QED  BY <1>2, <1>3, <1>5, <1>6, <1>7, MovesOn

LEMMA ReopenKeeps ==
  ASSUME ReceiveInv, Reopen, UNCHANGED pausing
  PROVE  ReceiveInv'
<1>1. /\ conn < MaxConnections /\ conn' = conn + 1
      /\ phase' = "connecting" /\ pc' = "idle"
      /\ wire' = 0 /\ taken' = Nothing /\ begin' = 0 /\ got' = 0 /\ before' = 0 /\ passed' = 0
      /\ handled' = <<>>
  BY DEF Reopen
<1>2. handled' \in Seq(0..Len(Wire)) /\ Len(handled') = 0
  BY <1>1
<1>3. conn' \in 1..MaxConnections /\ 0 \in 0..Len(Wire) /\ 0 \in 0..Buffer
  <2>1. conn \in 1..MaxConnections /\ MaxConnections \in Nat
    BY ReceiveAssumption DEF ReceiveInv, ReceiveTypeOK
  <2>. QED  BY <1>1, <2>1, WireIs, StreamFacts
<1>4. ReceiveTypeOK'
  BY <1>1, <1>2, <1>3 DEF ReceiveInv, ReceiveTypeOK
<1>5. Ordered'
  BY <1>2, StreamFacts DEF Ordered
<1>6. Turn' = 1
  BY <1>2 DEF Turn
<1>7. Between'
  BY <1>1, <1>6, StartsAre DEF Between
<1>. QED  BY <1>1, <1>4, <1>5, <1>7 DEF ReceiveInv, Place

LEMMA ReceiveIsInductive ==
  ASSUME Clear, ~pausing, ReceiveInv, [ReceiveNext]_receiveVars
  PROVE  ReceiveInv'
<1>1. CASE UNCHANGED receiveVars
  <2>1. ReceiveTypeOK' /\ Ordered' /\ Turn' = Turn
    BY <1>1 DEF receiveVars, ReceiveInv, ReceiveTypeOK, Ordered, Turn
  <2>2. AtMessage(Turn) => AtMessage(Turn)'
    BY <1>1 DEF receiveVars, AtMessage, PayloadComes, Answering, Turn
  <2>3. Between => Between'
    BY <1>1, <2>1 DEF receiveVars, Between, Turn
  <2>4. phase' = phase /\ pc' = pc
    BY <1>1 DEF receiveVars
  <2>5. Place'
    BY <2>2, <2>3, <2>4 DEF ReceiveInv, Place
  <2>. QED  BY <2>1, <2>5 DEF ReceiveInv
<1>2. CASE ReceiveNext
  <2>1. UNCHANGED pausing
    BY <1>2 DEF ReceiveNext
  <2>2. CASE EnterReceive
    BY <2>1, <2>2, EnterKeeps
  <2>3. CASE Reopen
    BY <2>1, <2>3, ReopenKeeps
  <2>4. CASE ReadType
    BY <2>1, <2>4, TypeKeeps
  <2>5. CASE ReadLength \/ ReadTopic \/ ReadRest
    BY <2>1, <2>5, FillKeeps
  <2>6. CASE ReadPayload
    BY <2>1, <2>6, PayloadKeeps
  <2>7. CASE Connack \/ Handle
    BY <2>1, <2>7, HandleKeeps
  <2>8. CASE Deliver
    BY <2>1, <2>8, DeliverKeeps
  <2>9. CASE Respond
    BY <2>1, <2>9, RespondKeeps
  <2>10. CASE Timeout
    BY <2>1, <2>10, TimeoutKeeps
  <2>11. CASE ReadFails \/ RespondFails
    BY <2>1, <2>11, GivesUp DEF ReadFails, RespondFails
  <2>. QED  BY <1>2, <2>2, <2>3, <2>4, <2>5, <2>6, <2>7, <2>8, <2>9, <2>10, <2>11
       DEF ReceiveNext, Progress, PayloadTimeout
<1>. QED  BY <1>1, <1>2

LEMMA ReceiveSuffices ==
  ASSUME ReceiveInv
  PROVE  /\ HandledInOrder
         /\ (\A k \in 1..Len(Stream) : HeaderFits(Stream[k])) => AcknowledgedIsWhole
<1>1. HandledInOrder
  <2>1. ASSUME NEW i \in DOMAIN handled
        PROVE  i \in DOMAIN Starts /\ handled[i] = Starts[i]
    <3>1. handled \in Seq(0..Len(Wire)) /\ Len(handled) <= Len(Stream)
      BY DEF ReceiveInv, ReceiveTypeOK, Ordered
    <3>2. DOMAIN handled = 1..Len(handled) /\ Len(handled) \in Nat
      BY <3>1
    <3>3. i \in 1..Len(handled) /\ i \in 1..(Len(Stream) + 1) /\ DOMAIN Starts = 1..(Len(Stream) + 1)
      BY <3>1, <3>2, StreamFacts, StartsAre
    <3>. QED  BY <3>3 DEF ReceiveInv, Ordered
  <2>2. Framing
    <3>. SUFFICES ASSUME phase # "closed", pc \in {"idle", "type"}, got = 0
                  PROVE  \E k \in DOMAIN Starts : wire = Starts[k]
      BY DEF Framing
    <3>1. wire = Starts[Turn]
      BY DEF ReceiveInv, Place, Between, AtMessage, Filling
    <3>2. handled \in Seq(0..Len(Wire)) /\ Len(handled) <= Len(Stream)
      BY DEF ReceiveInv, ReceiveTypeOK, Ordered
    <3>3. Turn \in 1..(Len(Stream) + 1) /\ DOMAIN Starts = 1..(Len(Stream) + 1)
      BY <3>2, StreamFacts, StartsAre DEF Turn
    <3>. QED  BY <3>1, <3>3
  <2>. QED  BY <2>1, <2>2 DEF HandledInOrder, InOrder
<1>2. ASSUME \A k \in 1..Len(Stream) : HeaderFits(Stream[k]), pc \in {"payload", "respond"}
      PROVE  HandedOver /\ Header(taken) <= got
  <2>1. phase # "closed"
    BY <1>2 DEF ReceiveInv, Place
  <2>2. PICK k : k = Turn
    OBVIOUS
  <2>3. k \in 1..Len(Stream) /\ taken = Stream[k] /\ AtMessage(k) /\ HeaderFits(Stream[k])
    BY <1>2, <2>1, <2>2, InMessage
  <2>. QED  BY <1>2, <2>3 DEF AtMessage, Filling, PayloadComes, Answering, HandedOver
<1>. QED  BY <1>1, <1>2 DEF AcknowledgedIsWhole, HandedOver, HeaderInBuffer

(* esp-mqtt takes the messages of a connection in the order sent, none      *)
(* twice and none skipped, and begins to read each where the broker began   *)
(* it, however the bytes come in: unless the last bytes of a short message  *)
(* can be taken for a part of its remaining length, or a pause cuts a       *)
(* payload short.                                                           *)
THEOREM HandledInOrderAlways ==
  ASSUME Clear PROVE ReceiveSpec => []HandledInOrder
<1>. DEFINE Steady == ~pausing => ReceiveInv
<1>1. ReceiveInit => Steady
  BY InitReceive
<1>2. Steady /\ [ReceiveNext]_receiveVars => Steady'
  <2>1. [ReceiveNext]_receiveVars => pausing' = pausing
    BY DEF ReceiveNext, receiveVars
  <2>. QED  BY <2>1, ReceiveIsInductive
<1>3. Steady => HandledInOrder
  BY ReceiveSuffices DEF HandledInOrder, AcknowledgedIsWhole
<1>. QED  BY <1>1, <1>2, <1>3, PTL DEF ReceiveSpec

(* What it answers with PUBACK or PUBREC was handed over to the last byte,  *)
(* and the header of a long message is in the buffer at the first event, as *)
(* long as no header ends one or two bytes behind the buffer.               *)
THEOREM AcknowledgedIsWholeAlways ==
  ASSUME Clear, \A k \in 1..Len(Stream) : HeaderFits(Stream[k])
  PROVE  ReceiveSpec => []AcknowledgedIsWhole
<1>. DEFINE Steady == ~pausing => ReceiveInv
<1>1. ReceiveInit => Steady
  BY InitReceive
<1>2. Steady /\ [ReceiveNext]_receiveVars => Steady'
  <2>1. [ReceiveNext]_receiveVars => pausing' = pausing
    BY DEF ReceiveNext, receiveVars
  <2>. QED  BY <2>1, ReceiveIsInductive
<1>3. Steady => AcknowledgedIsWhole
  BY ReceiveSuffices DEF HandledInOrder, AcknowledgedIsWhole
<1>. QED  BY <1>1, <1>2, <1>3, PTL DEF ReceiveSpec

-----------------------------------------------------------------------------
(* The buffer, with pauses inside payloads or without: whatever the bytes   *)
(* are taken for, the reader never asks for more than fits.                 *)
Held == {m \in Message : Buffer >= m.fixed + 4}

Midway(p, g, w, m) ==
  \/ p = "idle" /\ NextRead(g, w, m) # "error"
  \/ p = "length" /\ NextRead(g, w, m) = "length"
  \/ p \in {"topic", "rest"} /\ p = AfterLength(g, m)
  \/ p \in {"deliver", "payload", "respond"}

Buffered ==
  /\ ReceiveTypeOK
  /\ IF phase = "closed" THEN pc = "idle"
     ELSE \/ got = 0 /\ pc \in {"idle", "type"}
          \/ got >= 1 /\ taken \in Held /\ Midway(pc, got, wire, taken)

LEMMA HeldFacts ==
  ASSUME NEW m \in Held, NEW g \in Nat, NEW w
  PROVE  /\ m \in Message /\ m.fixed \in 2..5 /\ Buffer \in Nat /\ Buffer >= m.fixed + 4
         /\ Total(m) \in Nat /\ Header(m) \in Int /\ Target(m) \in Nat /\ Target(m) <= Buffer
         /\ NextRead(g, w, m) \in {"length", AfterLength(g, m)}
         /\ NextRead(g, w, m) = "length" => g < 6
         /\ AfterLength(g, m) \in {"error", "topic", "rest", "deliver"}
         /\ AfterLength(g, m) = "topic" => g < m.fixed + 2
<1>1. m \in Message /\ Buffer \in Nat /\ Buffer >= m.fixed + 4
  BY StreamFacts DEF Held
<1>2. m.fixed \in 2..5 /\ Total(m) \in Nat /\ Header(m) \in Int
  BY <1>1, MessageFacts
<1>3. Target(m) \in Nat /\ Target(m) <= Buffer
  BY <1>1, <1>2, TargetIs
<1>4. /\ AfterLength(g, m) \in {"error", "topic", "rest", "deliver"}
      /\ AfterLength(g, m) = "topic" => g < m.fixed + 2
  BY <1>1, AfterLengthIs
<1>5. /\ NextRead(g, w, m) \in {"length", AfterLength(g, m)}
      /\ NextRead(g, w, m) = "length" => g < 6
  BY <1>4 DEF NextRead
<1>. QED  BY <1>1, <1>2, <1>3, <1>4, <1>5

LEMMA TakenIsHeld == Taken \subseteq Held
<1>1. {Stream[k] : k \in Numbers} \subseteq Held
  BY StreamFacts DEF Numbers, Held
<1>2. {m \in Strays : Looks(m)} \subseteq Held
  BY ReceiveAssumption DEF Held
<1>. QED  BY <1>1, <1>2 DEF Taken

LEMMA InBuffer ==
  ASSUME Buffered, pc \in Pcs \ {"idle", "type"}
  PROVE  /\ phase # "closed" /\ got >= 1 /\ got \in Nat /\ got \in 0..Buffer
         /\ wire \in Nat /\ wire \in 0..Len(Wire) /\ Len(Wire) \in Nat
         /\ taken \in Held /\ Midway(pc, got, wire, taken)
<1>1. phase # "closed" /\ got >= 1 /\ taken \in Held /\ Midway(pc, got, wire, taken)
  BY DEF Buffered
<1>2. got \in 0..Buffer /\ wire \in 0..Len(Wire) /\ Len(Wire) \in Nat /\ Buffer \in Nat
  BY StreamFacts, WireIs DEF Buffered, ReceiveTypeOK
<1>. QED  BY <1>1, <1>2

(* The next state after a read of r bytes.                                  *)
LEMMA TookKeeps ==
  ASSUME Buffered, UNCHANGED <<pausing, taken>>, pc \in {"length", "topic", "rest"},
         NEW r \in Nat, NEW next, Took(r, next), r >= 1, got + r <= Buffer,
         Midway(next, got + r, wire + r, taken)
  PROVE  Buffered'
<1>1. /\ wire + r <= Len(Wire) /\ wire' = wire + r /\ got' = got + r /\ pc' = next
      /\ UNCHANGED <<phase, begin, before, passed, handled, conn>>
  BY DEF Took
<1>2. /\ phase # "closed" /\ got >= 1 /\ got \in Nat /\ wire \in Nat /\ Len(Wire) \in Nat
      /\ taken \in Held /\ Buffer \in Nat
  BY InBuffer, StreamFacts DEF Pcs
<1>3. got' \in 0..Buffer /\ got' >= 1 /\ wire' \in 0..Len(Wire)
  BY <1>1, <1>2
<1>4. next \in Pcs
  <2>1. got + r \in Nat
    BY <1>2
  <2>. QED  BY DEF Midway, Pcs
<1>5. ReceiveTypeOK'
  BY <1>1, <1>3, <1>4 DEF Buffered, ReceiveTypeOK, Pcs
<1>. QED  BY <1>1, <1>2, <1>3, <1>5 DEF Buffered

LEMMA FillKeepsBuffer ==
  ASSUME Buffered, ReadLength \/ ReadTopic \/ ReadRest, UNCHANGED pausing
  PROVE  Buffered'
<1>. DEFINE m == taken
<1>1. pc \in {"length", "topic", "rest"} /\ taken' = taken
  BY DEF ReadLength, ReadTopic, ReadRest, GiveUp
<1>2. /\ got >= 1 /\ got \in Nat /\ m \in Held /\ Midway(pc, got, wire, m)
  BY <1>1, InBuffer DEF Pcs
<1>3. /\ m \in Message /\ m.fixed \in 2..5 /\ Buffer \in Nat /\ Buffer >= m.fixed + 4
      /\ Target(m) \in Nat /\ Target(m) <= Buffer
  BY <1>2, HeldFacts
<1>4. GiveUp => Buffered'
  BY DEF GiveUp, Buffered, ReceiveTypeOK
<1>. HIDE DEF m
<1>5. CASE ReadLength
  <2>. DEFINE next == NextRead(got + 1, wire + 1, m)
  <2>1. IF next = "error" THEN GiveUp ELSE Took(1, next)
    BY <1>5 DEF ReadLength, m
  <2>2. got < 6
    BY <1>2, <1>5, HeldFacts DEF ReadLength, Midway
  <2>3. got + 1 <= Buffer /\ got + 1 \in Nat
    BY <1>2, <1>3, <2>2
  <2>4. /\ next \in {"length", AfterLength(got + 1, m)}
        /\ AfterLength(got + 1, m) \in {"error", "topic", "rest", "deliver"}
    BY <1>2, <2>3, HeldFacts
  <2>5. next # "error" => Midway(next, got + 1, wire + 1, m)
    BY <2>4 DEF Midway
  <2>. HIDE DEF next
  <2>. QED  BY <1>1, <1>4, <2>1, <2>3, <2>5, TookKeeps DEF m
<1>6. CASE ReadTopic
  <2>1. PICK r \in 1..(got - m.fixed + 2) :
          CASE AfterLength(got + r, m) = "topic" -> Took(r, "idle")
            [] AfterLength(got + r, m) = "error" -> GiveUp
            [] OTHER -> Took(r, AfterLength(got + r, m))
    BY <1>6 DEF ReadTopic, m
  <2>2. got < m.fixed + 2
    BY <1>2, <1>6, HeldFacts DEF ReadTopic, Midway
  <2>3. r \in Nat /\ r >= 1 /\ got + r <= Buffer /\ got + r \in Nat
    <3>. DEFINE f == m.fixed
    <3>1. f \in Nat /\ got < f + 2 /\ r \in Int /\ 1 <= r /\ r <= got - f + 2 /\ Buffer >= f + 4
      BY <1>2, <1>3, <2>2
    <3>. HIDE DEF f
    <3>. QED  BY <1>2, <1>3, <3>1
  <2>4. /\ NextRead(got + r, wire + r, m) \in {"length", AfterLength(got + r, m)}
        /\ AfterLength(got + r, m) \in {"error", "topic", "rest", "deliver"}
    BY <1>2, <2>3, HeldFacts
  <2>5. CASE AfterLength(got + r, m) = "topic"
    <3>1. Took(r, "idle") /\ Midway("idle", got + r, wire + r, m)
      BY <2>1, <2>4, <2>5 DEF Midway
    <3>. QED  BY <1>1, <2>3, <3>1, TookKeeps DEF m
  <2>6. CASE AfterLength(got + r, m) = "error"
    BY <1>4, <2>1, <2>6
  <2>7. CASE AfterLength(got + r, m) \in {"rest", "deliver"}
    <3>1. /\ Took(r, AfterLength(got + r, m))
          /\ Midway(AfterLength(got + r, m), got + r, wire + r, m)
      BY <2>1, <2>7 DEF Midway
    <3>. QED  BY <1>1, <2>3, <3>1, TookKeeps DEF m
  <2>. QED  BY <2>4, <2>5, <2>6, <2>7
<1>7. CASE ReadRest
  <2>1. PICK r \in 1..(Target(m) - got) :
          Took(r, IF got + r < Target(m) THEN "idle" ELSE "deliver")
    BY <1>7 DEF ReadRest, m
  <2>2. r \in Nat /\ r >= 1 /\ got + r <= Buffer /\ got + r \in Nat /\ got + r >= got
    BY <1>2, <1>3
  <2>3. AfterLength(got + r, m) \in {"rest", "deliver"}
    <3>1. \/ Total(m) <= Buffer
          \/ m.type = "publish" /\ got >= m.fixed + 2 /\ CorrectedLength(m) <= Buffer
      BY <1>2, <1>3, <1>7, AfterLengthIs DEF ReadRest, Midway
    <3>2. got >= m.fixed + 2 => got + r >= m.fixed + 2
      BY <1>2, <1>3, <2>2
    <3>. QED  BY <1>3, <2>2, <3>1, <3>2, AfterLengthIs
  <2>4. NextRead(got + r, wire + r, m) \in {"length", AfterLength(got + r, m)}
    BY <1>2, <2>2, HeldFacts
  <2>5. Midway("idle", got + r, wire + r, m) /\ Midway("deliver", got + r, wire + r, m)
    BY <2>3, <2>4 DEF Midway
  <2>. QED  BY <1>1, <2>1, <2>2, <2>5, TookKeeps DEF m
<1>. QED  BY <1>5, <1>6, <1>7

(* The passes of the task around the reads.                                 *)
LEMMA PassKeepsBuffer ==
  ASSUME Buffered, EnterReceive \/ Timeout \/ ReadType, UNCHANGED pausing
  PROVE  Buffered'
<1>1. /\ got \in 0..Buffer /\ wire \in 0..Len(Wire) /\ Len(Wire) \in Nat /\ Buffer \in Nat
      /\ begin \in 0..Len(Wire)
  BY StreamFacts, WireIs DEF Buffered, ReceiveTypeOK
<1>2. got >= 1 => got \in Nat
  BY <1>1
<1>3. CASE EnterReceive
  <2>1. /\ pc = "idle" /\ phase # "closed" /\ before' = got /\ begin' \in 0..Len(Wire)
        /\ IF got = 0 THEN pc' = "type" ELSE pc' = NextRead(got, wire, taken)
        /\ UNCHANGED <<phase, wire, taken, got, passed, handled, conn>>
    BY <1>1, <1>3 DEF EnterReceive
  <2>2. CASE got = 0
    BY <1>1, <2>1, <2>2 DEF Buffered, ReceiveTypeOK
  <2>3. CASE got # 0
    <3>1. got >= 1 /\ taken \in Held /\ NextRead(got, wire, taken) # "error"
      BY <2>1, <2>3 DEF Buffered, Midway
    <3>2. /\ pc' \in {"length", AfterLength(got, taken)} /\ pc' # "error"
          /\ AfterLength(got, taken) \in {"error", "topic", "rest", "deliver"}
      BY <1>2, <2>1, <2>3, <3>1, HeldFacts
    <3>3. pc' \in Pcs /\ Midway(pc', got, wire, taken)
      BY <2>1, <2>3, <3>2 DEF Midway, Pcs
    <3>. QED  BY <1>1, <2>1, <3>1, <3>3 DEF Buffered, ReceiveTypeOK, Pcs
  <2>. QED  BY <2>2, <2>3
<1>4. CASE Timeout
  <2>1. GiveUp => Buffered'
    BY DEF GiveUp, Buffered, ReceiveTypeOK
  <2>2. CASE /\ pc \in {"type", "length", "topic", "rest"} /\ pc' = "idle"
             /\ UNCHANGED <<phase, wire, taken, begin, got, before, passed, handled, conn>>
    <3>1. ReceiveTypeOK'
      BY <2>2 DEF Buffered, ReceiveTypeOK
    <3>2. CASE pc = "type"
      BY <2>2, <3>1, <3>2 DEF Buffered, Midway
    <3>3. CASE pc # "type"
      <4>1. phase # "closed" /\ got >= 1 /\ got \in Nat /\ taken \in Held
            /\ Midway(pc, got, wire, taken)
        BY <2>2, <3>3, InBuffer DEF Pcs
      <4>2. NextRead(got, wire, taken) \in {"length", AfterLength(got, taken)}
        BY <4>1, HeldFacts
      <4>3. Midway("idle", got, wire, taken)
        BY <2>2, <3>3, <4>1, <4>2 DEF Midway
      <4>. QED  BY <2>2, <3>1, <4>1, <4>3 DEF Buffered
    <3>. QED  BY <3>2, <3>3
  <2>. QED  BY <1>4, <2>1, <2>2 DEF Timeout
<1>5. CASE ReadType
  <2>1. /\ pc = "type" /\ wire + 1 <= Len(Wire) /\ wire' = wire + 1 /\ got' = got + 1
        /\ pc' = "length" /\ taken' \in Held
        /\ UNCHANGED <<phase, begin, before, passed, handled, conn>>
    BY <1>5, TakenIsHeld DEF ReadType, Took
  <2>2. phase # "closed" /\ got = 0
    BY <2>1 DEF Buffered, Midway
  <2>3. taken' \in Message /\ Buffer >= 1
    <3>1. taken' \in Message /\ taken'.fixed \in 2..5 /\ Buffer >= taken'.fixed + 4
      BY <2>1, HeldFacts
    <3>. QED  BY <1>1, <3>1
  <2>4. got' = 1 /\ got' \in 0..Buffer /\ wire' \in 0..Len(Wire)
    BY <1>1, <2>1, <2>2, <2>3
  <2>5. Midway("length", got', wire', taken')
    BY <2>4 DEF Midway, NextRead
  <2>6. ReceiveTypeOK'
    BY <2>1, <2>3, <2>4 DEF Buffered, ReceiveTypeOK
  <2>. QED  BY <2>1, <2>2, <2>4, <2>5, <2>6 DEF Buffered
<1>. QED  BY <1>3, <1>4, <1>5

(* A message is handled, whole or as far as it came.                        *)
LEMMA HandleKeepsBuffer ==
  ASSUME Buffered, UNCHANGED pausing,
         Connack \/ Handle \/ Deliver \/ ReadPayload \/ PayloadTimeout \/ Respond
  PROVE  Buffered'
<1>. DEFINE m == taken
<1>1. pc \in {"deliver", "payload", "respond"}
  BY DEF Connack, Handle, Deliver, ReadPayload, PayloadTimeout, Respond
<1>2. /\ phase # "closed" /\ got >= 1 /\ got \in Nat /\ got \in 0..Buffer /\ m \in Held
      /\ wire \in Nat /\ wire \in 0..Len(Wire) /\ Len(Wire) \in Nat
  BY <1>1, InBuffer DEF Pcs
<1>3. /\ handled \in Seq(0..Len(Wire)) /\ begin \in 0..Len(Wire) /\ begin \in Nat
      /\ passed \in Nat /\ 0 \in 0..Buffer
  <2>1. Len(Wire) \in Nat /\ Buffer \in Nat
    BY WireIs, StreamFacts
  <2>. QED  BY <2>1 DEF Buffered, ReceiveTypeOK
<1>4. Append(handled, begin) \in Seq(0..Len(Wire))
  BY <1>3
<1>5. GiveUp => Buffered'
  BY DEF GiveUp, Buffered, ReceiveTypeOK
<1>6. ASSUME Finish, phase' \in {"connecting", "connected"}
      PROVE  Buffered'
  BY <1>3, <1>4, <1>6 DEF Finish, Buffered, ReceiveTypeOK
<1>7. ASSUME NEW w \in 0..Len(Wire), NEW n \in Nat, Delivered(w, n)
      PROVE  Buffered'
  <2>1. /\ wire' = w /\ UNCHANGED <<phase, taken, begin, before, conn>>
        /\ \/ pc' = "respond" /\ passed' = n /\ UNCHANGED <<got, handled>>
           \/ pc' = "idle" /\ passed' = 0 /\ got' = 0 /\ handled' = Append(handled, begin)
    BY <1>7 DEF Delivered
  <2>2. CASE pc' = "respond" /\ passed' = n /\ UNCHANGED <<got, handled>>
    <3>1. ReceiveTypeOK'
      BY <2>1, <2>2 DEF Buffered, ReceiveTypeOK
    <3>. QED  BY <1>2, <2>1, <2>2, <3>1 DEF Buffered, Midway
  <2>3. CASE pc' = "idle" /\ passed' = 0 /\ got' = 0 /\ handled' = Append(handled, begin)
    <3>1. ReceiveTypeOK'
      BY <1>3, <1>4, <2>1, <2>3 DEF Buffered, ReceiveTypeOK
    <3>. QED  BY <1>2, <2>1, <2>3, <3>1 DEF Buffered
  <2>. QED  BY <2>1, <2>2, <2>3
<1>8. CASE Connack \/ Handle
  <2>1. GiveUp \/ (Finish /\ phase' \in {"connecting", "connected"})
    BY <1>8 DEF Connack, Handle
  <2>. QED  BY <1>5, <1>6, <2>1
<1>9. CASE Respond
  <2>1. Finish /\ phase' \in {"connecting", "connected"}
    BY <1>2, <1>9 DEF Respond, Buffered, ReceiveTypeOK
  <2>. QED  BY <1>6, <2>1
<1>10. CASE PayloadTimeout
  BY <1>2, <1>3, <1>7, <1>10 DEF PayloadTimeout
<1>11. CASE ReadPayload
  <2>1. PICK r \in 1..Min({Buffer, begin + Total(m) - wire, Len(Wire) - wire}) :
          IF wire + r = begin + Total(m) THEN Delivered(wire + r, passed + r)
          ELSE /\ wire' = wire + r
               /\ passed' = passed + r
               /\ UNCHANGED <<phase, pc, taken, begin, got, before, handled, conn>>
    BY <1>11 DEF ReadPayload
  <2>2. wire + r \in 0..Len(Wire) /\ passed + r \in Nat
    <3>1. Total(m) \in Nat /\ Buffer \in Nat
      BY <1>2, HeldFacts
    <3>. DEFINE a == begin + Total(m) - wire
                b == Len(Wire) - wire
                n == Min({Buffer, a, b})
    <3>2. a \in Int /\ b \in Int /\ Buffer \in Int
      BY <1>2, <1>3, <3>1
    <3>3. n \in Int /\ n <= b
      <4>. HIDE DEF a, b
      <4>. QED  BY <3>2, MinOfThree
    <3>4. r \in 1..n
      OBVIOUS
    <3>. HIDE DEF n
    <3>5. r \in Nat /\ r <= b
      BY <3>2, <3>3, <3>4
    <3>. QED  BY <1>2, <1>3, <3>5
  <2>3. CASE wire + r = begin + Total(m)
    BY <1>7, <2>1, <2>2, <2>3
  <2>4. CASE wire + r # begin + Total(m)
    <3>1. /\ wire' = wire + r /\ passed' = passed + r /\ pc = "payload"
          /\ UNCHANGED <<phase, pc, taken, begin, got, before, handled, conn>>
      BY <1>11, <2>1, <2>4 DEF ReadPayload
    <3>2. wire' \in 0..Len(Wire) /\ passed' \in Nat
      BY <2>2, <3>1
    <3>. QED  BY <1>2, <3>1, <3>2 DEF Buffered, ReceiveTypeOK, Midway, m
  <2>. QED  BY <2>3, <2>4
<1>12. CASE Deliver
  <2>1. CASE got < m.fixed + 2 + m.topic
    BY <1>5, <1>12, <2>1 DEF Deliver
  <2>2. CASE ~(got < m.fixed + 2 + m.topic)
    <3>1. /\ passed' = Max({0, Min({got, Total(m)}) - Header(m)})
          /\ pc' \in {"payload", "respond", "idle"}
          /\ pc' # "idle" => UNCHANGED <<got, handled>>
          /\ pc' = "idle" => got' = 0 /\ handled' = Append(handled, begin)
          /\ UNCHANGED <<phase, wire, taken, begin, before, conn>>
      BY <1>12, <2>2 DEF Deliver
    <3>2. passed' \in Nat
      <4>1. Total(m) \in Nat /\ Header(m) \in Int
        BY <1>2, HeldFacts
      <4>. DEFINE n == Min({got, Total(m)})
                  d == n - Header(m)
      <4>2. n \in Int
        BY <1>2, <4>1, MinPair
      <4>. HIDE DEF n
      <4>3. d \in Int
        BY <4>1, <4>2
      <4>4. passed' = Max({0, d})
        BY <3>1 DEF n
      <4>. HIDE DEF d
      <4>5. Max({0, d}) = IF 0 >= d THEN 0 ELSE d
        BY <4>3, MaxPair
      <4>. QED  BY <4>3, <4>4, <4>5
    <3>3. CASE pc' = "idle"
      BY <1>2, <1>3, <1>4, <3>1, <3>2, <3>3 DEF Buffered, ReceiveTypeOK
    <3>4. CASE pc' # "idle"
      BY <1>2, <3>1, <3>2, <3>4 DEF Buffered, ReceiveTypeOK, Midway, m
    <3>. QED  BY <3>3, <3>4
  <2>. QED  BY <2>1, <2>2
<1>. QED  BY <1>8, <1>9, <1>10, <1>11, <1>12

LEMMA InitBuffered == ReceiveInit => Buffered
<1>1. ReceiveInit => ReceiveTypeOK
  BY InitReceive DEF ReceiveInv
<1>. QED  BY <1>1 DEF ReceiveInit, Buffered

LEMMA BufferedIsInductive ==
  ASSUME Buffered, [ReceiveNext]_receiveVars
  PROVE  Buffered'
<1>1. CASE UNCHANGED receiveVars
  <2>1. ReceiveTypeOK'
    BY <1>1 DEF receiveVars, Buffered, ReceiveTypeOK
  <2>. QED  BY <1>1, <2>1 DEF receiveVars, Buffered
<1>2. CASE ReceiveNext
  <2>1. UNCHANGED pausing
    BY <1>2 DEF ReceiveNext
  <2>2. GiveUp => Buffered'
    BY <2>1 DEF GiveUp, Buffered, ReceiveTypeOK
  <2>3. CASE Reopen
    <3>1. conn' \in 1..MaxConnections /\ 0 \in 0..Len(Wire) /\ 0 \in 0..Buffer
      <4>1. conn \in 1..MaxConnections /\ MaxConnections \in Nat
        BY ReceiveAssumption DEF Buffered, ReceiveTypeOK
      <4>. QED  BY <2>3, <4>1, WireIs, StreamFacts DEF Reopen
    <3>2. ReceiveTypeOK'
      BY <2>1, <2>3, <3>1 DEF Reopen, Buffered, ReceiveTypeOK
    <3>. QED  BY <2>3, <3>2 DEF Reopen, Buffered
  <2>4. CASE ReadFails \/ RespondFails
    BY <2>2, <2>4 DEF ReadFails, RespondFails
  <2>. QED  BY <1>2, <2>1, <2>3, <2>4, PassKeepsBuffer, FillKeepsBuffer, HandleKeepsBuffer
       DEF ReceiveNext, Progress
<1>. QED  BY <1>1, <1>2

-----------------------------------------------------------------------------
(* The timing of the keepalive for every keepalive, every pace of the task  *)
(* and every answer time of the broker that leave room enough.              *)

(* Ticks in which the messages read before the PINGRESP were read.          *)
Reading(left) == (Backlog - left) * MaxPass

(* While no PINGRESP is awaited the last pass found half the keepalive not  *)
(* over; while one is, the time since the PINGREQ is what the broker took   *)
(* and what reading took, one message a pass.                               *)
Calm ==
  /\ reply = "none"
  /\ age < Half + late
  /\ alive => silence <= age + Answer + Reading(0) + MaxPass

Awaited(since, more) ==
  \/ reply = "due" /\ since <= more + owed
  \/ reply = "arrived" /\ since <= more + Answer + Reading(ahead) + late

Watching ==
  /\ reply \in {"due", "arrived"}
  /\ age < 2 * Half + late
  /\ alive => Awaited(age, Half - 1 + MaxPass) /\ Awaited(silence, 0)

(* KeepaliveTypeOK, one variable at a time.                                 *)
Flags ==
  up \in BOOLEAN /\ waiting \in BOOLEAN /\ alive \in BOOLEAN /\ alarm \in BOOLEAN
Counts ==
  /\ age \in Nat /\ silence \in Nat /\ quiet \in Nat
  /\ late \in 0..MaxPass
  /\ reply \in {"none", "due", "arrived"}
  /\ owed \in 0..Answer
  /\ ahead \in 0..Backlog

Timing ==
  /\ Flags /\ Counts
  /\ quiet = age
  /\ up => (IF waiting THEN Watching ELSE Calm)
  /\ ~up => late = 0 /\ reply = "none"
  /\ alarm => ~alive

(* One message more is read in at most one pass.                            *)
LEMMA ReadingFacts ==
  ASSUME Enough
  PROVE  /\ \A left \in 0..Backlog :
              /\ Reading(left) \in Nat /\ Reading(left) <= Reading(0)
              /\ left > 0 => Reading(left - 1) = Reading(left) + MaxPass
         /\ Reading(0) \in Nat
         /\ Half >= Answer + Reading(0) + 2 * MaxPass
<1>1. {Half, MaxPass, Answer, Backlog} \subseteq Nat
  BY KeepaliveAssumption
<1>2. ASSUME NEW left \in 0..Backlog
      PROVE  Reading(left) \in Nat /\ Reading(left) <= Reading(0)
  BY <1>1, <1>2 DEF Reading
<1>3. ASSUME NEW left \in 0..Backlog, left > 0
      PROVE  Reading(left - 1) = Reading(left) + MaxPass
  BY <1>1, <1>3 DEF Reading
<1>z. Reading(0) \in Nat
  BY <1>1, <1>2
<1>4. (Backlog + 2) * MaxPass = Reading(0) + 2 * MaxPass
  BY <1>1 DEF Reading
<1>5. Half >= Answer + Reading(0) + 2 * MaxPass
  BY <1>1, <1>2, <1>4 DEF Enough
<1>. QED  BY <1>2, <1>3, <1>z, <1>5

LEMMA InitTiming ==
  ASSUME Enough, KeepaliveInit
  PROVE  Timing
<1>c. {MaxPass, Answer, Backlog} \subseteq Nat
  BY KeepaliveAssumption
<1>1. Flags
  BY DEF KeepaliveInit, Flags
<1>a. Counts
  BY <1>c DEF KeepaliveInit, Counts
<1>2. Calm
  BY ReadingFacts, KeepaliveAssumption DEF KeepaliveInit, Calm
<1>. QED  BY <1>1, <1>a, <1>2 DEF KeepaliveInit, Timing

(* Every step keeps the timing.                                             *)
LEMMA StepTiming ==
  ASSUME Enough, Timing, [KeepaliveNext]_keepaliveVars
  PROVE  Timing'
<1>c. /\ Half \in Nat \ {0} /\ MaxPass \in Nat /\ Answer \in Nat /\ Backlog \in Nat
  BY KeepaliveAssumption
<1>r. /\ \A left \in 0..Backlog :
           /\ Reading(left) \in Nat /\ Reading(left) <= Reading(0)
           /\ left > 0 => Reading(left - 1) = Reading(left) + MaxPass
      /\ Reading(0) \in Nat
      /\ Half >= Answer + Reading(0) + 2 * MaxPass
  BY ReadingFacts
<1>1. CASE Tick
  BY <1>c, <1>r, <1>1 DEF Tick, Timing, Flags, Counts, Watching, Calm, Awaited
<1>2. CASE PassReads
  BY <1>c, <1>r, <1>2 DEF PassReads, HasTimedOut, Answered, AgeNow, Waits,
    Timing, Flags, Counts, Watching, Calm, Awaited
<1>3. CASE PassPings
  BY <1>c, <1>r, <1>3 DEF PassPings, HasTimedOut, Answered, AgeNow, Waits,
    Timing, Flags, Counts, Watching, Calm, Awaited
<1>4. CASE PassGivesUp
  <2>1. Flags'
    BY <1>4 DEF PassGivesUp, AbortConnection, Timing, Flags
  <2>2. Counts' /\ quiet' = age' /\ late' = 0 /\ reply' = "none"
    BY <1>c, <1>4 DEF PassGivesUp, AbortConnection, Timing, Counts
  <2>3. ~alive
    BY <1>c, <1>r, <1>4 DEF PassGivesUp, HasTimedOut, Answered, AgeNow, Waits,
      Timing, Flags, Counts, Watching, Calm, Awaited
  <2>4. ~up' /\ ~alive'
    BY <1>4, <2>3 DEF PassGivesUp, AbortConnection
  <2>. QED  BY <2>1, <2>2, <2>4 DEF Timing
<1>5. CASE PassFails
  <2>1. Flags' /\ ~up' /\ ~alarm'
    BY <1>5 DEF PassFails, AbortConnection, Timing, Flags
  <2>2. Counts' /\ quiet' = age' /\ late' = 0 /\ reply' = "none"
    BY <1>c, <1>5 DEF PassFails, AbortConnection, Timing, Counts
  <2>. QED  BY <2>1, <2>2 DEF Timing
<1>6. CASE Reconnect
  <2>1. Flags' /\ ~waiting' /\ ~alarm' /\ up'
    BY <1>6 DEF Reconnect, Timing, Flags
  <2>2. Counts' /\ quiet' = age' /\ age' = 0 /\ silence' = 0 /\ late' = 0 /\ reply' = "none"
    BY <1>c, <1>6 DEF Reconnect, Timing, Counts
  <2>3. Calm'
    BY <1>c, <1>r, <2>2 DEF Calm
  <2>. QED  BY <2>1, <2>2, <2>3 DEF Timing
<1>7. CASE BrokerAnswers
  BY <1>c, <1>r, <1>7 DEF BrokerAnswers, Timing, Flags, Counts, Watching, Calm, Awaited
<1>8. CASE BrokerDies
  BY <1>c, <1>r, <1>8 DEF BrokerDies, Timing, Flags, Counts, Watching, Calm, Awaited
<1>9. CASE UNCHANGED keepaliveVars
  BY <1>9 DEF keepaliveVars, Timing, Flags, Counts, Watching, Calm, Awaited
<1>. QED  BY <1>1, <1>2, <1>3, <1>4, <1>5, <1>6, <1>7, <1>8, <1>9 DEF KeepaliveNext

LEMMA TimingSuffices ==
  ASSUME Enough, Timing
  PROVE  NoFalseAlarm /\ PeerWatched
<1>c. /\ Half \in Nat \ {0} /\ MaxPass \in Nat /\ Answer \in Nat /\ Backlog \in Nat
  BY KeepaliveAssumption
<1>r. /\ \A left \in 0..Backlog : Reading(left) \in Nat /\ Reading(left) <= Reading(0)
      /\ Half >= Answer + Reading(0) + 2 * MaxPass
  BY ReadingFacts
<1>1. NoFalseAlarm
  BY DEF Timing, NoFalseAlarm
<1>2. DeadPeerDetected
  BY <1>c, <1>r DEF DeadPeerDetected, Timing, Flags, Counts, Watching, Calm
<1>3. BrokerHears
  BY <1>c, <1>r DEF BrokerHears, Timing, Flags, Counts, Watching, Calm, Awaited
<1>. QED  BY <1>1, <1>2, <1>3 DEF PeerWatched

LEMMA StepFlagsAndCounts ==
  ASSUME Flags, Counts, [KeepaliveNext]_keepaliveVars
  PROVE  Flags' /\ Counts'
<1>c. /\ Half \in Nat \ {0} /\ MaxPass \in Nat /\ Answer \in Nat /\ Backlog \in Nat
  BY KeepaliveAssumption
<1>1. CASE Tick
  <2>1. Flags'
    BY <1>1 DEF Tick, Flags
  <2>2. Counts'
    BY <1>c, <1>1 DEF Tick, Counts
  <2>. QED  BY <2>1, <2>2
<1>2. CASE PassReads
  <2>1. Flags'
    BY <1>2 DEF PassReads, HasTimedOut, Answered, AgeNow, Waits, Flags
  <2>2. Counts'
    BY <1>c, <1>2 DEF PassReads, HasTimedOut, Answered, AgeNow, Waits, Counts
  <2>. QED  BY <2>1, <2>2
<1>3. CASE PassPings
  <2>1. Flags'
    BY <1>3 DEF PassPings, HasTimedOut, Answered, AgeNow, Waits, Flags
  <2>2. Counts'
    BY <1>c, <1>3 DEF PassPings, HasTimedOut, Answered, AgeNow, Waits, Counts
  <2>. QED  BY <2>1, <2>2
<1>4. CASE PassGivesUp \/ PassFails
  <2>1. Flags'
    BY <1>4 DEF PassGivesUp, PassFails, AbortConnection, Flags
  <2>2. Counts'
    BY <1>c, <1>4 DEF PassGivesUp, PassFails, AbortConnection, Counts
  <2>. QED  BY <2>1, <2>2
<1>5. CASE Reconnect
  <2>1. Flags'
    BY <1>5 DEF Reconnect, Flags
  <2>2. Counts'
    BY <1>c, <1>5 DEF Reconnect, Counts
  <2>. QED  BY <2>1, <2>2
<1>6. CASE BrokerAnswers \/ BrokerDies
  <2>1. Flags'
    BY <1>6 DEF BrokerAnswers, BrokerDies, Flags
  <2>2. Counts'
    BY <1>c, <1>6 DEF BrokerAnswers, BrokerDies, Counts
  <2>. QED  BY <2>1, <2>2
<1>7. CASE UNCHANGED keepaliveVars
  <2>1. Flags'
    BY <1>7 DEF keepaliveVars, Flags
  <2>2. Counts'
    BY <1>c, <1>7 DEF keepaliveVars, Counts
  <2>. QED  BY <2>1, <2>2
<1>. QED  BY <1>1, <1>2, <1>3, <1>4, <1>5, <1>6, <1>7 DEF KeepaliveNext

LEMMA InitFlagsAndCounts == KeepaliveInit => Flags /\ Counts
<1>. SUFFICES ASSUME KeepaliveInit  PROVE Flags /\ Counts
  OBVIOUS
<1>1. Flags
  BY DEF KeepaliveInit, Flags
<1>2. Counts
  BY KeepaliveAssumption DEF KeepaliveInit, Counts
<1>. QED  BY <1>1, <1>2

(* Time passes as the passes of the task let it, whatever the broker does.  *)
Paced ==
  /\ Flags /\ Counts
  /\ quiet = age
  /\ up => (IF waiting THEN age < 2 * Half + late ELSE age < Half + late)
  /\ ~up => late = 0

LEMMA StepPaced ==
  ASSUME MaxPass <= Half, Paced, [KeepaliveNext]_keepaliveVars
  PROVE  Paced'
<1>c. /\ Half \in Nat \ {0} /\ MaxPass \in Nat /\ Answer \in Nat /\ Backlog \in Nat
  BY KeepaliveAssumption
<1>t. Flags' /\ Counts'
  BY StepFlagsAndCounts DEF Paced
<1>1. CASE Tick
  <2>1. quiet' = age'
    BY <1>c, <1>1 DEF Tick, Paced, Counts
  <2>2. /\ up' => (IF waiting' THEN age' < 2 * Half + late' ELSE age' < Half + late')
        /\ ~up' => late' = 0
    BY <1>c, <1>1 DEF Tick, Paced, Flags, Counts
  <2>. QED  BY <1>t, <2>1, <2>2 DEF Paced
<1>2. CASE PassReads
  <2>1. quiet' = age'
    BY <1>c, <1>2 DEF PassReads, HasTimedOut, Answered, AgeNow, Waits, Paced, Counts
  <2>2. /\ up' => (IF waiting' THEN age' < 2 * Half + late' ELSE age' < Half + late')
        /\ ~up' => late' = 0
    BY <1>c, <1>2 DEF PassReads, HasTimedOut, Answered, AgeNow, Waits, Paced, Flags, Counts
  <2>. QED  BY <1>t, <2>1, <2>2 DEF Paced
<1>3. CASE PassPings
  <2>1. up /\ up' = up /\ waiting' /\ late' = 0 /\ age' = AgeNow /\ ~Waits /\ quiet' = age'
    BY <1>c, <1>3 DEF PassPings, HasTimedOut, Answered, AgeNow, Waits, Paced, Counts
  <2>2. age' < 2 * Half
    <3>1. CASE Answered
      BY <1>c, <2>1, <3>1 DEF AgeNow
    <3>2. CASE ~Answered
      <4>1. age' = age /\ ~waiting
        BY <2>1, <3>2 DEF AgeNow, Waits
      <4>2. age \in Nat /\ age < Half + late /\ late <= MaxPass /\ late \in Nat
        BY <1>c, <2>1, <4>1 DEF Paced, Counts
      <4>. QED  BY <1>c, <4>1, <4>2
    <3>. QED  BY <3>1, <3>2
  <2>. QED  BY <1>c, <1>t, <2>1, <2>2 DEF Paced, Counts
<1>4. CASE PassGivesUp \/ PassFails
  <2>1. quiet' = age'
    BY <1>c, <1>4 DEF PassGivesUp, PassFails, AbortConnection, Paced, Counts
  <2>2. /\ up' => (IF waiting' THEN age' < 2 * Half + late' ELSE age' < Half + late')
        /\ ~up' => late' = 0
    BY <1>c, <1>4 DEF PassGivesUp, PassFails, AbortConnection, Paced, Flags, Counts
  <2>. QED  BY <1>t, <2>1, <2>2 DEF Paced
<1>5. CASE Reconnect
  <2>1. quiet' = age'
    BY <1>c, <1>5 DEF Reconnect, Paced, Counts
  <2>2. /\ up' => (IF waiting' THEN age' < 2 * Half + late' ELSE age' < Half + late')
        /\ ~up' => late' = 0
    BY <1>c, <1>5 DEF Reconnect, Paced, Flags, Counts
  <2>. QED  BY <1>t, <2>1, <2>2 DEF Paced
<1>6. CASE BrokerAnswers \/ BrokerDies
  <2>1. quiet' = age'
    BY <1>c, <1>6 DEF BrokerAnswers, BrokerDies, Paced, Counts
  <2>2. /\ up' => (IF waiting' THEN age' < 2 * Half + late' ELSE age' < Half + late')
        /\ ~up' => late' = 0
    BY <1>c, <1>6 DEF BrokerAnswers, BrokerDies, Paced, Flags, Counts
  <2>. QED  BY <1>t, <2>1, <2>2 DEF Paced
<1>7. CASE UNCHANGED keepaliveVars
  <2>1. quiet' = age'
    BY <1>c, <1>7 DEF keepaliveVars, Paced, Counts
  <2>2. /\ up' => (IF waiting' THEN age' < 2 * Half + late' ELSE age' < Half + late')
        /\ ~up' => late' = 0
    BY <1>c, <1>7 DEF keepaliveVars, Paced, Flags, Counts
  <2>. QED  BY <1>t, <2>1, <2>2 DEF Paced
<1>. QED  BY <1>1, <1>2, <1>3, <1>4, <1>5, <1>6, <1>7 DEF KeepaliveNext

(* process_keepalive never cuts off a broker that answers every PINGREQ in  *)
(* time, whatever else the task has to read first, if half the keepalive    *)
(* leaves room enough for that.                                             *)
THEOREM NoFalseAlarmAlways == KeepaliveSpec => []NoFalseAlarm
<1>1. CASE Enough
  <2>1. KeepaliveInit => Timing
    BY <1>1, InitTiming
  <2>2. Timing /\ [KeepaliveNext]_keepaliveVars => Timing'
    BY <1>1, StepTiming
  <2>3. Timing => NoFalseAlarm
    BY <1>1, TimingSuffices
  <2>. QED  BY <2>1, <2>2, <2>3, PTL DEF KeepaliveSpec
<1>2. CASE ~Enough
  <2>1. NoFalseAlarm
    BY <1>2 DEF NoFalseAlarm
  <2>. QED  BY <2>1, PTL
<1>. QED  BY <1>1, <1>2

(* It ends a connection with a silent broker within the keepalive and one   *)
(* pass; a broker that works hears of the client within the keepalive, if   *)
(* there is room enough: provided the task makes a pass in half of it.      *)
THEOREM PeerWatchedAlways ==
  ASSUME MaxPass <= Half PROVE KeepaliveSpec => []PeerWatched
<1>1. KeepaliveInit => Paced
  BY InitFlagsAndCounts, KeepaliveAssumption DEF KeepaliveInit, Paced
<1>2. Paced /\ [KeepaliveNext]_keepaliveVars => Paced'
  BY StepPaced
<1>3. CASE Enough
  <2>1. KeepaliveInit => Timing
    BY <1>3, InitTiming
  <2>2. Timing /\ [KeepaliveNext]_keepaliveVars => Timing'
    BY <1>3, StepTiming
  <2>3. Timing => PeerWatched
    BY <1>3, TimingSuffices
  <2>. QED  BY <2>1, <2>2, <2>3, PTL DEF KeepaliveSpec
<1>4. CASE ~Enough
  <2>1. Paced => DeadPeerDetected
    BY KeepaliveAssumption DEF DeadPeerDetected, Paced, Flags, Counts
  <2>2. Paced => PeerWatched
    BY <1>4, <2>1 DEF PeerWatched, BrokerHears
  <2>. QED  BY <1>1, <1>2, <2>2, PTL DEF KeepaliveSpec
<1>. QED  BY <1>3, <1>4

-----------------------------------------------------------------------------
(* The types of the client and of the prediction, as MCDevice runs them.    *)

(* What LifecycleTypeOK says, with the mutual exclusion it needs: a pass    *)
(* begins only when no task has api_lock.                                   *)
LifeTypes ==
  /\ setting \in Settings
  /\ state \in {"init", "disconnected", "connected", "wait"}
  /\ run \in BOOLEAN /\ hurry \in BOOLEAN /\ open \in BOOLEAN /\ asked \in BOOLEAN
  /\ bits \subseteq {"stopped", "reconnect", "disconnect"}
  /\ seen \subseteq Tasks
  /\ owner \in Owners
  /\ other \in {"idle", "reconnecting"}
Locking ==
  /\ task \in [Tasks -> TaskPc]
  /\ lock = {t \in Tasks : task[t] \in Passing}
  /\ \A t, u \in lock : t = u
Asking == requests \in 0..MaxRequests
Dropping == drops \in 0..2

LEMMA TaskTypes ==
  ASSUME LifeTypes, Locking, Dropping, NEW t \in Tasks, Task(t), UNCHANGED setting
  PROVE  LifeTypes' /\ Locking' /\ Dropping' /\ UNCHANGED requests
<1>1. LifeTypes' /\ UNCHANGED requests
  <2>1. CASE TaskRuns(t)
    BY <2>1 DEF TaskRuns, LifeTypes, apis
  <2>2. CASE TaskClearsStopped(t)
    BY <2>2 DEF TaskClearsStopped, LifeTypes, apis
  <2>3. CASE BeginPass(t)
    BY <2>3 DEF BeginPass, LifeTypes, apis
  <2>4. CASE PassDisconnected(t)
    BY <2>4 DEF PassDisconnected, EndPass, LifeTypes, apis
  <2>5. CASE PassInit(t)
    BY <2>5 DEF PassInit, LifeTypes, apis
  <2>6. CASE NoTransport(t)
    BY <2>6 DEF NoTransport, EndPass, LifeTypes, apis
  <2>7. CASE Connect(t)
    BY <2>7 DEF Connect, EndPass, Abort, LifeTypes, apis
  <2>8. CASE PassDisconnect(t)
    BY <2>8 DEF PassDisconnect, EndPass, Abort, LifeTypes, apis
  <2>9. CASE PassReceives(t)
    BY <2>9 DEF PassReceives, EndPass, Abort, LifeTypes, apis
  <2>17. CASE PassResends(t)
    BY <2>17 DEF PassResends, Sends, Abort, LifeTypes, apis
  <2>18. CASE PassReleases(t)
    BY <2>18 DEF PassReleases, Sends, Abort, LifeTypes, apis
  <2>19. CASE PassKeepsAlive(t)
    BY <2>19 DEF PassKeepsAlive, EndPass, Abort, LifeTypes, apis
  <2>20. CASE PassRefreshes(t)
    BY <2>20 DEF PassRefreshes, EndPass, Abort, LifeTypes, apis
  <2>10. CASE WaitOver(t)
    BY <2>10 DEF WaitOver, EndPass, LifeTypes, apis
  <2>11. CASE KeepWaiting(t)
    BY <2>11 DEF KeepWaiting, LifeTypes, apis
  <2>12. CASE Wakes(t)
    BY <2>12 DEF Wakes, LifeTypes, apis
  <2>13. CASE Poll(t)
    BY <2>13 DEF Poll, Abort, LifeTypes, apis
  <2>14. CASE TaskCloses(t)
    BY <2>14 DEF TaskCloses, LifeTypes, apis
  <2>15. CASE TaskSetsState(t)
    BY <2>15 DEF TaskSetsState, LifeTypes, apis
  <2>16. CASE TaskEnds(t)
    BY <2>16 DEF TaskEnds, LifeTypes, apis
  <2>. QED  BY <2>1, <2>2, <2>3, <2>4, <2>5, <2>6, <2>7, <2>8, <2>9, <2>10, <2>11, <2>12, <2>13, <2>14, <2>15, <2>16,
       <2>17, <2>18, <2>19, <2>20 DEF Task
<1>2. Locking'
  <2>1. CASE TaskRuns(t)
    BY <2>1 DEF TaskRuns, Locking, TaskPc, Passing, Goto
  <2>2. CASE TaskClearsStopped(t)
    BY <2>2 DEF TaskClearsStopped, Locking, TaskPc, Passing, Goto
  <2>3. CASE BeginPass(t)
    BY <2>3 DEF BeginPass, Locking, TaskPc, Passing, Goto
  <2>4. CASE PassDisconnected(t)
    BY <2>4 DEF PassDisconnected, EndPass, Locking, TaskPc, Passing, Goto
  <2>5. CASE PassInit(t)
    BY <2>5 DEF PassInit, Locking, TaskPc, Passing, Goto
  <2>6. CASE NoTransport(t)
    BY <2>6 DEF NoTransport, EndPass, Locking, TaskPc, Passing, Goto
  <2>7. CASE Connect(t)
    BY <2>7 DEF Connect, EndPass, Abort, Locking, TaskPc, Passing, Goto
  <2>8. CASE PassDisconnect(t)
    BY <2>8 DEF PassDisconnect, EndPass, Abort, Locking, TaskPc, Passing, Goto
  <2>9. CASE PassReceives(t)
    BY <2>9 DEF PassReceives, EndPass, Abort, Locking, TaskPc, Passing, Goto
  <2>17. CASE PassResends(t)
    BY <2>17 DEF PassResends, Sends, Abort, Locking, TaskPc, Passing, Goto
  <2>18. CASE PassReleases(t)
    BY <2>18 DEF PassReleases, Sends, Abort, Locking, TaskPc, Passing, Goto
  <2>19. CASE PassKeepsAlive(t)
    BY <2>19 DEF PassKeepsAlive, EndPass, Abort, Locking, TaskPc, Passing, Goto
  <2>20. CASE PassRefreshes(t)
    BY <2>20 DEF PassRefreshes, EndPass, Abort, Locking, TaskPc, Passing, Goto
  <2>10. CASE WaitOver(t)
    BY <2>10 DEF WaitOver, EndPass, Locking, TaskPc, Passing, Goto
  <2>11. CASE KeepWaiting(t)
    BY <2>11 DEF KeepWaiting, Locking, TaskPc, Passing, Goto
  <2>12. CASE Wakes(t)
    BY <2>12 DEF Wakes, Locking, TaskPc, Passing, Goto
  <2>13. CASE Poll(t)
    BY <2>13 DEF Poll, Abort, Locking, TaskPc, Passing, Goto
  <2>14. CASE TaskCloses(t)
    BY <2>14 DEF TaskCloses, Locking, TaskPc, Passing, Goto
  <2>15. CASE TaskSetsState(t)
    BY <2>15 DEF TaskSetsState, Locking, TaskPc, Passing, Goto
  <2>16. CASE TaskEnds(t)
    BY <2>16 DEF TaskEnds, Locking, TaskPc, Passing, Goto
  <2>. QED  BY <2>1, <2>2, <2>3, <2>4, <2>5, <2>6, <2>7, <2>8, <2>9, <2>10, <2>11, <2>12, <2>13, <2>14, <2>15, <2>16,
       <2>17, <2>18, <2>19, <2>20 DEF Task
<1>3. Dropping'
  <2>1. (\E next \in {"init", "wait"} : Abort(next)) \/ ReportDisconnected => Dropping'
    BY DEF Abort, ReportDisconnected, Dropping
  <2>2. drops' = 0 => Dropping'
    BY DEF Dropping
  <2>3. UNCHANGED drops => Dropping'
    BY DEF Dropping
  <2>. QED  BY <2>1, <2>2, <2>3 DEF Task, TaskRuns, TaskClearsStopped, BeginPass, PassDisconnected, PassInit, NoTransport, Connect,
    PassDisconnect, PassReceives, PassResends, PassReleases, Sends,
    PassKeepsAlive, PassRefreshes, ReportDisconnected, WaitOver, KeepWaiting, Wakes, Poll, TaskCloses, TaskSetsState, TaskEnds
<1>. QED  BY <1>1, <1>2, <1>3

LEMMA CallTypes ==
  ASSUME LifeTypes, Locking, Dropping, Asking, UNCHANGED setting,
         \/ Start \/ Stop \/ StopReturns \/ DestroyIdle
         \/ Disconnect \/ ReconnectLooks \/ ReconnectSets \/ PublishAborts
  PROVE  LifeTypes' /\ Locking' /\ Dropping' /\ Asking'
<1>m. MaxRequests \in Nat /\ MaxRequests' = MaxRequests
  BY LifecycleAssumption DEF LifeTypes, MaxRequests
<1>1. CASE Start
  <2>1. LifeTypes'
    BY <1>1 DEF Start, Goto, LifeTypes, Owners
  <2>2. Locking'
    BY <1>1 DEF Start, Goto, Locking, TaskPc, Passing
  <2>3. Asking'
    BY <1>m, <1>1 DEF Start, Goto, Asking
  <2>4. Dropping'
    BY <1>1 DEF Start, Dropping
  <2>. QED  BY <2>1, <2>2, <2>3, <2>4
<1>2. CASE Stop
  <2>1. LifeTypes'
    BY <1>2 DEF Stop, LifeTypes, Owners
  <2>2. Locking'
    BY <1>2 DEF Stop, Locking, TaskPc, Passing
  <2>3. Asking'
    BY <1>m, <1>2 DEF Stop, Asking
  <2>4. Dropping'
    BY <1>2 DEF Stop, Dropping
  <2>. QED  BY <2>1, <2>2, <2>3, <2>4
<1>3. CASE StopReturns
  <2>1. LifeTypes'
    BY <1>3 DEF StopReturns, LifeTypes, Owners
  <2>2. Locking'
    BY <1>3 DEF StopReturns, Locking, TaskPc, Passing
  <2>3. Asking'
    BY <1>m, <1>3 DEF StopReturns, Asking
  <2>4. Dropping'
    BY <1>3 DEF StopReturns, Dropping
  <2>. QED  BY <2>1, <2>2, <2>3, <2>4
<1>4. CASE DestroyIdle
  <2>1. LifeTypes'
    BY <1>4 DEF DestroyIdle, LifeTypes, Owners
  <2>2. Locking'
    BY <1>4 DEF DestroyIdle, Locking, TaskPc, Passing
  <2>3. Asking'
    BY <1>m, <1>4 DEF DestroyIdle, Asking
  <2>4. Dropping'
    BY <1>4 DEF DestroyIdle, Dropping
  <2>. QED  BY <2>1, <2>2, <2>3, <2>4
<1>5. CASE Disconnect
  <2>1. LifeTypes'
    BY <1>5 DEF Disconnect, LifeTypes, Owners
  <2>2. Locking'
    BY <1>5 DEF Disconnect, Locking, TaskPc, Passing
  <2>3. Asking'
    BY <1>m, <1>5 DEF Disconnect, Asking
  <2>4. Dropping'
    BY <1>5 DEF Disconnect, Dropping
  <2>. QED  BY <2>1, <2>2, <2>3, <2>4
<1>6. CASE ReconnectLooks
  <2>1. LifeTypes'
    BY <1>6 DEF ReconnectLooks, LifeTypes, Owners
  <2>2. Locking'
    BY <1>6 DEF ReconnectLooks, Locking, TaskPc, Passing
  <2>3. Asking'
    BY <1>m, <1>6 DEF ReconnectLooks, Asking
  <2>4. Dropping'
    BY <1>6 DEF ReconnectLooks, Dropping
  <2>. QED  BY <2>1, <2>2, <2>3, <2>4
<1>7. CASE ReconnectSets
  <2>1. LifeTypes'
    BY <1>7 DEF ReconnectSets, LifeTypes, Owners
  <2>2. Locking'
    BY <1>7 DEF ReconnectSets, Locking, TaskPc, Passing
  <2>3. Asking'
    BY <1>m, <1>7 DEF ReconnectSets, Asking
  <2>4. Dropping'
    BY <1>7 DEF ReconnectSets, Dropping
  <2>. QED  BY <2>1, <2>2, <2>3, <2>4
<1>8. CASE PublishAborts
  <2>1. LifeTypes'
    BY <1>8 DEF PublishAborts, Abort, apis, LifeTypes, Owners
  <2>2. Locking'
    BY <1>8 DEF PublishAborts, Abort, apis, Locking, TaskPc, Passing
  <2>3. Asking'
    BY <1>m, <1>8 DEF PublishAborts, Abort, apis, Asking
  <2>4. Dropping'
    BY <1>8 DEF PublishAborts, Abort, ReportDisconnected, Dropping
  <2>. QED  BY <2>1, <2>2, <2>3, <2>4
<1>. QED  BY <1>1, <1>2, <1>3, <1>4, <1>5, <1>6, <1>7, <1>8

LEMMA LifecycleTypesSuffice ==
  ASSUME LifeTypes, Locking, Dropping, Asking
  PROVE  LifecycleTypeOK
<1>1. Cardinality(lock) <= 1
  <2>1. CASE lock = {}
    BY <2>1, FS_EmptySet
  <2>2. CASE lock # {}
    <3>1. PICK t \in lock : lock = {t}
      BY <2>2 DEF Locking
    <3>2. Cardinality({t}) = 1
      BY FS_Singleton
    <3>. QED  BY <3>1, <3>2
  <2>. QED  BY <2>1, <2>2
<1>. QED  BY <1>1 DEF LifeTypes, Locking, Dropping, Asking, LifecycleTypeOK, Owners

(* Whatever part a behaviour of MCDevice is of, every variable of the client*)
(* and of the forest has its type: the reader never holds more than the     *)
(* buffer, whatever it takes the bytes for, at most one task has the lock,  *)
(* no call is made too often, no record holds an index too wide for it.     *)
THEOREM ClientTypeCorrect == Spec => []TypeOK
<1>. DEFINE IInv == /\ LifeTypes /\ Locking /\ Dropping /\ Asking
                   /\ Buffered /\ FileInv
                   /\ Flags /\ Counts
<1>1. Init => IInv
  <2>. SUFFICES ASSUME Init  PROVE IInv
    OBVIOUS
  <2>1. LifeTypes
    BY DEF Init, LifecycleInit, LifeTypes, Owners
  <2>2. Locking
    BY DEF Init, LifecycleInit, Locking, TaskPc, Passing
  <2>3. Asking
    BY LifecycleAssumption DEF Init, LifecycleInit, Asking, MaxRequests
  <2>4. Dropping
    BY DEF Init, LifecycleInit, Dropping
  <2>. QED  BY <2>1, <2>2, <2>3, <2>4, InitBuffered, InitFlagsAndCounts, InitFile DEF Init
<1>2. IInv /\ [Next]_vars => IInv'
  <2>. SUFFICES ASSUME IInv, [Next]_vars  PROVE IInv'
    OBVIOUS
  <2>1. /\ [LifecycleNext]_lifecycleVars /\ [ReceiveNext]_receiveVars
        /\ [KeepaliveNext]_keepaliveVars /\ [ForestNext]_forestVars
    BY DEF Next, vars, predictionVars
  <2>2. Buffered' /\ FileInv'
    BY <2>1, BufferedIsInductive, FileIsInductive
  <2>3. Flags' /\ Counts'
    BY <2>1, StepFlagsAndCounts
  <2>4. LifeTypes' /\ Locking' /\ Dropping' /\ Asking'
    <3>1. CASE UNCHANGED lifecycleVars
      <4>1. MaxRequests' = MaxRequests /\ requests' = requests
        BY <3>1 DEF lifecycleVars, apis, MaxRequests
      <4>. QED  BY <3>1, <4>1 DEF lifecycleVars, apis, LifeTypes, Locking, Dropping, Asking
    <3>2. ASSUME NEW t \in Tasks, Task(t), UNCHANGED setting
          PROVE  LifeTypes' /\ Locking' /\ Dropping' /\ Asking'
      <4>1. LifeTypes' /\ Locking' /\ Dropping' /\ UNCHANGED requests
        BY <3>2, TaskTypes
      <4>. QED  BY <3>2, <4>1 DEF Asking, MaxRequests
    <3>. QED  BY <2>1, <3>1, <3>2, CallTypes DEF LifecycleNext
  <2>. QED  BY <2>2, <2>3, <2>4
<1>3. IInv => TypeOK
  <2>. SUFFICES ASSUME IInv  PROVE TypeOK
    OBVIOUS
  <2>1. KeepaliveTypeOK
    BY DEF Flags, Counts, KeepaliveTypeOK
  <2>. QED  BY <2>1, LifecycleTypesSuffice DEF TypeOK, Buffered, FileInv
<1>. HIDE DEF IInv
<1>. QED  BY <1>1, <1>2, <1>3, PTL DEF Spec
=============================================================================
