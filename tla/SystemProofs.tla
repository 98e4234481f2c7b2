---------------------------- MODULE SystemProofs ----------------------------
(* The composed system, for every number of rows, every window, every queue *)
(* length, and every bound on faults and on retransmissions: the discipline *)
(* of the api_lock, and the load the window of the script lets reach the    *)
(* device while no timer fires.                                             *)
EXTENDS System, DriverProofs

FirmwareInv == FirmwareTypeOK /\ LockDiscipline

LEMMA FirmwareInitInv ==
  ASSUME Init
  PROVE  DriverInv /\ FirmwareInv
<1>1. DriverInv
  BY DriverInitInv DEF Init, FirmwareInit
<1>2. NetworkTypeOK
  BY <1>1 DEF DriverInv, DriverTypeOK
<1>3. FirmwareTypeOK
  BY <1>2, FirmwareAssumption DEF Init, FirmwareInit, FirmwareTypeOK
<1>4. LockDiscipline
  BY DEF Init, FirmwareInit, LockDiscipline
<1>. QED  BY <1>1, <1>3, <1>4 DEF FirmwareInv

(* The tasks of the device and its surroundings keep the types.             *)
LEMMA FirmwareTypes ==
  ASSUME FirmwareInv, FirmwareNext
  PROVE  FirmwareTypeOK'
<1>1. FirmwareTypeOK /\ LockDiscipline
  BY DEF FirmwareInv
<1>2. /\ toDevice \in Seq(Ids) /\ toHost \in Seq(Ids) /\ outbox \in Seq(Ids)
      /\ queue \in Seq(Ids) /\ delivering \in Seq(Ids) /\ predicting \in Seq(Ids)
      /\ faults \in 0..MaxFaults
  BY <1>1 DEF FirmwareTypeOK, NetworkTypeOK
<1>3. Fault => faults' \in 0..MaxFaults
  BY <1>2, FirmwareAssumption DEF Fault
<1>4. CASE BeginPass
  <2>1. outbox' \in Seq(Ids)
    <3>1. Len(outbox) \in Nat
      BY <1>2, LenProperties
    <3>2. ASSUME NEW n \in 1..Len(outbox)
          PROVE  SubSeq(outbox, n + 1, Len(outbox)) \in Seq(Ids)
      <4>1. n + 1 \in Int /\ Len(outbox) \in Int
        BY <3>1
      <4>2. \A i \in (n + 1)..Len(outbox) : outbox[i] \in Ids
        BY <1>2, <3>1, ElementOfSeq
      <4>. QED  BY <4>1, <4>2, SubSeqProperties
    <3>. QED  BY <1>2, <1>4, <3>2 DEF BeginPass
  <2>2. faults' \in 0..MaxFaults
    BY <1>2, <1>3, <1>4 DEF BeginPass
  <2>. QED  BY <1>1, <1>4, <2>1, <2>2 DEF BeginPass, FirmwareTypeOK, NetworkTypeOK
<1>5. CASE Connect \/ Reconnect \/ KeepWaiting \/ ReceiveNothing \/ ReceiveFails \/ SendNothing
             \/ SendFails \/ PollFails
  BY <1>1, <1>5 DEF Connect, Reconnect, KeepWaiting, ReceiveNothing, ReceiveFails, SendNothing,
                    SendFails, PollFails, EndPass, FirmwareTypeOK, NetworkTypeOK
<1>6. CASE ConnectFails
  BY <1>1, <1>3, <1>6 DEF ConnectFails, EndPass, FirmwareTypeOK, NetworkTypeOK
<1>7. CASE Receive
  <2>1. <<Head(toDevice)>> \in Seq(Ids) /\ Tail(toDevice) \in Seq(Ids)
    BY <1>2, <1>7, HeadTailProperties DEF Receive
  <2>. QED  BY <1>1, <1>7, <2>1 DEF Receive, FirmwareTypeOK, NetworkTypeOK
<1>8. CASE Deliver
  <2>1. queue \o delivering \in Seq(Ids) /\ <<>> \in Seq(Ids)
    BY <1>2, ConcatProperties
  <2>. QED  BY <1>1, <1>8, <2>1 DEF Deliver, FirmwareTypeOK, NetworkTypeOK
<1>9. CASE SendAnswer
  <2>1. Head(outbox) \in Ids /\ Tail(outbox) \in Seq(Ids)
    BY <1>2, <1>9, HeadTailProperties DEF SendAnswer
  <2>2. Append(toHost, Head(outbox)) \in Seq(Ids)
    BY <1>2, <2>1, AppendProperties
  <2>3. toHost' \in Seq(Ids)
    BY <1>2, <1>9, <2>2 DEF SendAnswer, RouteToHost
  <2>. QED  BY <1>1, <1>9, <2>1, <2>3
            DEF SendAnswer, EndPass, FirmwareTypeOK, NetworkTypeOK
<1>10. CASE TakeRequest
  <2>1. <<Head(queue)>> \in Seq(Ids) /\ Tail(queue) \in Seq(Ids)
    BY <1>2, <1>10, HeadTailProperties DEF TakeRequest
  <2>. QED  BY <1>1, <1>10, <2>1 DEF TakeRequest, FirmwareTypeOK, NetworkTypeOK
<1>11. CASE LockForEnqueue
  BY <1>1, <1>11 DEF LockForEnqueue, FirmwareTypeOK, NetworkTypeOK
<1>12. CASE EnqueueAnswer
  <2>1. outbox \o predicting \in Seq(Ids) /\ <<>> \in Seq(Ids)
    BY <1>2, ConcatProperties
  <2>. QED  BY <1>1, <1>12, <2>1 DEF EnqueueAnswer, FirmwareTypeOK, NetworkTypeOK
<1>13. CASE LoseConnection
  <2>1. <<>> \in Seq(Ids)
    OBVIOUS
  <2>. QED  BY <1>1, <1>3, <1>13, <2>1
            DEF LoseConnection, DropSession, FirmwareTypeOK, NetworkTypeOK
<1>14. CASE Reset
  <2>1. <<>> \in Seq(Ids)
    OBVIOUS
  <2>. QED  BY <1>1, <1>3, <1>14, <2>1
            DEF Reset, DropSession, Booted, FirmwareTypeOK, NetworkTypeOK
<1>. QED  BY <1>4, <1>5, <1>6, <1>7, <1>8, <1>9, <1>10, <1>11, <1>12, <1>13, <1>14
          DEF FirmwareNext, Pass

(* ... and the discipline of the api_lock.                                  *)
LEMMA FirmwareLocks ==
  ASSUME FirmwareInv, FirmwareNext
  PROVE  LockDiscipline'
<1>1. /\ LockDiscipline
      /\ mqttTask \in {"poll", "pass", "deliver", "send"}
      /\ pubTask \in {"receive", "enqueue", "locked"}
      /\ lock \in {"free", "mqtt", "pub"}
      /\ outbox \in Seq(Ids) /\ queue \in Seq(Ids)
  BY DEF FirmwareInv, FirmwareTypeOK
<1>2. CASE BeginPass \/ PollFails
  BY <1>1, <1>2 DEF BeginPass, PollFails, LockDiscipline
<1>3. CASE Connect \/ ConnectFails \/ Reconnect \/ KeepWaiting \/ ReceiveFails \/ SendNothing
             \/ SendAnswer \/ SendFails
  BY <1>1, <1>3
     DEF Connect, ConnectFails, Reconnect, KeepWaiting, ReceiveFails, SendNothing, SendAnswer,
         SendFails, EndPass, LockDiscipline
<1>4. CASE Receive
  <2>1. delivering' # <<>>
    BY <1>4 DEF Receive
  <2>. QED  BY <1>1, <1>4, <2>1 DEF Receive, LockDiscipline
<1>5. CASE ReceiveNothing \/ Deliver
  BY <1>1, <1>5 DEF ReceiveNothing, Deliver, LockDiscipline
<1>6. CASE TakeRequest
  <2>1. predicting' # <<>>
    BY <1>6 DEF TakeRequest
  <2>. QED  BY <1>1, <1>6, <2>1 DEF TakeRequest, LockDiscipline
<1>7. CASE LockForEnqueue \/ EnqueueAnswer
  BY <1>1, <1>7 DEF LockForEnqueue, EnqueueAnswer, LockDiscipline
<1>8. CASE LoseConnection
  BY <1>1, <1>8 DEF LoseConnection, LockDiscipline
<1>9. CASE Reset
  BY <1>9 DEF Reset, Booted, LockDiscipline
<1>. QED  BY <1>2, <1>3, <1>4, <1>5, <1>6, <1>7, <1>8, <1>9 DEF FirmwareNext, Pass

LEMMA FirmwareStepPreserves ==
  ASSUME DriverInv, FirmwareInv, FirmwareStep
  PROVE  (DriverInv /\ FirmwareInv)'
<1>1. FirmwareTypeOK' /\ LockDiscipline'
  BY FirmwareTypes, FirmwareLocks DEF FirmwareStep
<1>2. NetworkTypeOK'
  BY <1>1 DEF FirmwareTypeOK
<1>. QED  BY <1>1, <1>2, PipesPreserve DEF FirmwareStep, FirmwareInv

(* The script shares only the pipes with the device.                        *)
LEMMA ScriptSidePreserves ==
  ASSUME DriverInv, FirmwareInv,
         ScriptStep \/ \E r \in Ids : TimerStep(r)
  PROVE  (DriverInv /\ FirmwareInv)'
<1>1. DriverInv'
  BY MainPreserves, OnMessagePreserves, TimerPreserves DEF ScriptStep, TimerStep
<1>2. NetworkTypeOK'
  BY <1>1 DEF DriverInv, DriverTypeOK
<1>3. UNCHANGED firmwareVars
  BY DEF ScriptStep, TimerStep
<1>. QED  BY <1>1, <1>2, <1>3
          DEF FirmwareInv, FirmwareTypeOK, LockDiscipline, firmwareVars

LEMMA StutterPreserves ==
  ASSUME DriverInv, FirmwareInv, UNCHANGED vars
  PROVE  (DriverInv /\ FirmwareInv)'
<1>1. UNCHANGED driverVars /\ UNCHANGED firmwareVars
        /\ UNCHANGED <<toDevice, toHost, online>>
  BY DEF vars
<1>2. NetworkTypeOK'
  BY <1>1 DEF DriverInv, DriverTypeOK, NetworkTypeOK
<1>3. DriverInv'
  BY <1>1, <1>2, PipesPreserve
<1>. QED  BY <1>1, <1>2, <1>3
          DEF FirmwareInv, FirmwareTypeOK, LockDiscipline, firmwareVars

THEOREM SystemInvariance == Spec => [](DriverInv /\ FirmwareInv)
<1>1. Init => DriverInv /\ FirmwareInv
  BY FirmwareInitInv
<1>2. DriverInv /\ FirmwareInv /\ [Next]_vars => (DriverInv /\ FirmwareInv)'
  BY FirmwareStepPreserves, ScriptSidePreserves, StutterPreserves DEF Next
<1>. QED  BY <1>1, <1>2, PTL DEF Spec

(* The state of the firmware keeps its types.                               *)
THEOREM FirmwareTypeCorrect == Spec => []FirmwareTypeOK
<1>1. DriverInv /\ FirmwareInv => FirmwareTypeOK
  BY DEF FirmwareInv
<1>. QED  BY <1>1, SystemInvariance, PTL

(* The api_lock is held by the task inside its critical section and by no   *)
(* other, whatever connections break and whenever the device restarts.      *)
THEOREM ApiLockExcludes == Spec => []LockDiscipline
<1>1. DriverInv /\ FirmwareInv => LockDiscipline
  BY DEF FirmwareInv
<1>. QED  BY <1>1, SystemInvariance, PTL

-----------------------------------------------------------------------------
(* While no timer fires.                                                    *)

Load ==
  Len(outbox) + Len(predicting) + Len(queue) + Len(delivering) + Len(toDevice)

HandlerLoad == IF handler \in {"found", "cancelled"} THEN 1 ELSE 0

(* The length of the line of requests inside the device.                    *)
LEMMA PipelineLength ==
  ASSUME FirmwareTypeOK
  PROVE  Len(Pipeline) = Load
<1>1. /\ outbox \in Seq(Ids) /\ predicting \in Seq(Ids) /\ queue \in Seq(Ids)
      /\ delivering \in Seq(Ids) /\ toDevice \in Seq(Ids)
  BY DEF FirmwareTypeOK, NetworkTypeOK
<1>2. /\ outbox \o predicting \in Seq(Ids)
      /\ Len(outbox \o predicting) = Len(outbox) + Len(predicting)
  BY <1>1, ConcatProperties
<1>3. /\ outbox \o predicting \o queue \in Seq(Ids)
      /\ Len(outbox \o predicting \o queue)
           = Len(outbox) + Len(predicting) + Len(queue)
  BY <1>1, <1>2, ConcatProperties
<1>4. /\ outbox \o predicting \o queue \o delivering \in Seq(Ids)
      /\ Len(outbox \o predicting \o queue \o delivering)
           = Len(outbox) + Len(predicting) + Len(queue) + Len(delivering)
  BY <1>1, <1>3, ConcatProperties
<1>. QED  BY <1>1, <1>4, ConcatProperties DEF Pipeline, Load

LEMMA Lengths ==
  ASSUME DriverInv, FirmwareInv
  PROVE  /\ Len(outbox) \in Nat /\ Len(predicting) \in Nat /\ Len(queue) \in Nat
         /\ Len(delivering) \in Nat /\ Len(toDevice) \in Nat
         /\ Len(toHost) \in Nat /\ Len(sent) \in Nat
  BY LenProperties DEF DriverInv, DriverTypeOK, NetworkTypeOK, FirmwareInv, FirmwareTypeOK

(* The device makes no message out of nothing.                              *)
LEMMA FirmwareKeepsLoad ==
  ASSUME DriverInv, FirmwareInv, FirmwareNext
  PROVE  Load' + Len(toHost') <= Load + Len(toHost)
<1>1. /\ outbox \in Seq(Ids) /\ predicting \in Seq(Ids) /\ queue \in Seq(Ids)
      /\ delivering \in Seq(Ids) /\ toDevice \in Seq(Ids) /\ toHost \in Seq(Ids)
      /\ LockDiscipline
  BY DEF FirmwareInv, FirmwareTypeOK, NetworkTypeOK
<1>2. /\ Len(outbox) \in Nat /\ Len(predicting) \in Nat /\ Len(queue) \in Nat
      /\ Len(delivering) \in Nat /\ Len(toDevice) \in Nat /\ Len(toHost) \in Nat
  BY Lengths
<1>3. Len(<<>>) = 0
  OBVIOUS
<1>4. CASE BeginPass
  <2>1. /\ Len(outbox') <= Len(outbox) /\ Len(outbox') \in Nat
        /\ UNCHANGED <<predicting, queue, delivering, toDevice, toHost>>
    <3>1. ASSUME NEW n \in 1..Len(outbox)
          PROVE  /\ Len(SubSeq(outbox, n + 1, Len(outbox))) <= Len(outbox)
                 /\ Len(SubSeq(outbox, n + 1, Len(outbox))) \in Nat
      <4>1. \A i \in (n + 1)..Len(outbox) : outbox[i] \in Ids
        BY <1>1, <1>2, ElementOfSeq
      <4>. QED  BY <1>2, <4>1, SubSeqProperties
    <3>. QED  BY <1>2, <1>4, <3>1 DEF BeginPass
  <2>. QED  BY <1>2, <2>1 DEF Load
<1>5. CASE Connect \/ ConnectFails \/ Reconnect \/ KeepWaiting \/ ReceiveNothing \/ ReceiveFails
             \/ SendNothing \/ SendFails \/ PollFails \/ LockForEnqueue
  BY <1>2, <1>5
     DEF Connect, ConnectFails, Reconnect, KeepWaiting, ReceiveNothing, ReceiveFails, SendNothing,
         SendFails, PollFails, LockForEnqueue, Load
<1>6. CASE Receive
  <2>1. delivering = <<>>
    BY <1>1, <1>6 DEF Receive, LockDiscipline
  <2>2. Len(Tail(toDevice)) = Len(toDevice) - 1 /\ Len(<<Head(toDevice)>>) = 1
    BY <1>1, <1>6, HeadTailProperties DEF Receive
  <2>. QED  BY <1>2, <1>3, <1>6, <2>1, <2>2 DEF Receive, Load
<1>7. CASE Deliver
  <2>1. Len(queue \o delivering) = Len(queue) + Len(delivering)
    BY <1>1, ConcatProperties
  <2>. QED  BY <1>2, <1>3, <1>7, <2>1 DEF Deliver, Load
<1>8. CASE SendAnswer
  <2>1. Len(Tail(outbox)) = Len(outbox) - 1 /\ Head(outbox) \in Ids
    BY <1>1, <1>8, HeadTailProperties DEF SendAnswer
  <2>2. Len(Append(toHost, Head(outbox))) = Len(toHost) + 1
    BY <1>1, <2>1, AppendProperties
  <2>3. Len(toHost') <= Len(toHost) + 1 /\ Len(toHost') \in Nat
    BY <1>2, <1>8, <2>2 DEF SendAnswer, RouteToHost
  <2>. QED  BY <1>2, <1>8, <2>1, <2>3 DEF SendAnswer, Load
<1>9. CASE TakeRequest
  <2>1. predicting = <<>>
    BY <1>1, <1>9 DEF TakeRequest, LockDiscipline
  <2>2. Len(Tail(queue)) = Len(queue) - 1 /\ Len(<<Head(queue)>>) = 1
    BY <1>1, <1>9, HeadTailProperties DEF TakeRequest
  <2>. QED  BY <1>2, <1>3, <1>9, <2>1, <2>2 DEF TakeRequest, Load
<1>10. CASE EnqueueAnswer
  <2>1. Len(outbox \o predicting) = Len(outbox) + Len(predicting)
    BY <1>1, ConcatProperties
  <2>. QED  BY <1>2, <1>3, <1>10, <2>1 DEF EnqueueAnswer, Load
<1>11. CASE LoseConnection
  BY <1>2, <1>3, <1>11 DEF LoseConnection, DropSession, Load
<1>12. CASE Reset
  BY <1>2, <1>3, <1>12 DEF Reset, DropSession, Booted, Load
<1>. QED  BY <1>4, <1>5, <1>6, <1>7, <1>8, <1>9, <1>10, <1>11, <1>12
          DEF FirmwareNext, Pass

(* Each step of the script that puts a message on its way, or takes one     *)
(* away, moves the row's entry with it.                                     *)
LEMMA ScriptKeepsLoad ==
  ASSUME DriverInv, FirmwareInv, ScriptStep,
         Load + Len(toHost) + HandlerLoad <= Outstanding
  PROVE  (Load + Len(toHost) + HandlerLoad <= Outstanding)'
<1>1. /\ sent \in Seq(Ids) /\ toDevice \in Seq(Ids) /\ toHost \in Seq(Ids)
      /\ row \in 0..Rows /\ RowInv /\ HandlerInv
  BY DEF DriverInv, DriverTypeOK, NetworkTypeOK
<1>2. /\ Len(outbox) \in Nat /\ Len(predicting) \in Nat /\ Len(queue) \in Nat
      /\ Len(delivering) \in Nat /\ Len(toDevice) \in Nat /\ Len(toHost) \in Nat
      /\ Len(sent) \in Nat
  BY Lengths
<1>3. UNCHANGED <<outbox, predicting, queue, delivering>>
  BY DEF ScriptStep, firmwareVars
<1>4. CASE DefineLists \/ EnterWindow \/ StartTimer \/ EndOfRows \/ Drained
             \/ LoopStop \/ Report
  BY <1>2, <1>3, <1>4
     DEF DefineLists, EnterWindow, StartTimer, EndOfRows, Drained, LoopStop, Report,
         Load, HandlerLoad, Outstanding
<1>5. CASE PublishRow
  <2>1. row \in Ids
    BY <1>1, <1>5, NetworkAssumption DEF PublishRow, RowInv, Ids
  <2>2. Len(Append(toDevice, row)) = Len(toDevice) + 1
    BY <1>1, <2>1, AppendProperties
  <2>3. Len(toDevice') <= Len(toDevice) + 1 /\ Len(toDevice') \in Nat
    BY <1>2, <1>5, <2>2 DEF PublishRow, Publish, RouteToDevice
  <2>. QED  BY <1>2, <1>3, <1>5, <2>3 DEF PublishRow, Load, HandlerLoad, Outstanding
<1>6. CASE AppendSent
  <2>1. row \in Ids
    BY <1>1, <1>6, NetworkAssumption DEF AppendSent, RowInv, Ids
  <2>2. Len(Append(sent, row)) = Len(sent) + 1
    BY <1>1, <2>1, AppendProperties
  <2>. QED  BY <1>2, <1>3, <1>6, <2>2 DEF AppendSent, Load, HandlerLoad, Outstanding
<1>7. CASE HandlerDies \/ IgnoreAnswer \/ FindRow
  <2>1. Len(toHost') = Len(toHost) - 1
    BY <1>1, <1>7, HeadTailProperties DEF HandlerDies, IgnoreAnswer, FindRow
  <2>. QED  BY <1>2, <1>3, <1>7, <2>1
            DEF HandlerDies, IgnoreAnswer, FindRow, Load, HandlerLoad, Outstanding
<1>8. CASE CancelTimer \/ RecordResult
  BY <1>2, <1>3, <1>8 DEF CancelTimer, RecordResult, Load, HandlerLoad, Outstanding
<1>9. CASE DeleteSent
  <2>1. index \in 1..Len(sent)
    BY <1>1, <1>9 DEF DeleteSent, HandlerInv
  <2>2. Len(RemoveAt(sent, index)) = Len(sent) - 1
    BY <1>1, <2>1, RemoveAtProperties
  <2>. QED  BY <1>2, <1>3, <1>9, <2>2 DEF DeleteSent, Load, HandlerLoad, Outstanding
<1>. QED  BY <1>4, <1>5, <1>6, <1>7, <1>8, <1>9 DEF ScriptStep, Main, OnMessage

PromptInv ==
  /\ DriverInv
  /\ FirmwareInv
  /\ Load + Len(toHost) + HandlerLoad <= Outstanding

LEMMA PromptInvariance ==
  ASSUME StaleAnswers = {<<>>}
  PROVE  PromptSpec => []PromptInv
<1>1. Init => PromptInv
  <2>. SUFFICES ASSUME Init PROVE PromptInv
    OBVIOUS
  <2>1. DriverInv /\ FirmwareInv
    BY FirmwareInitInv
  <2>2. Load + Len(toHost) + HandlerLoad <= Outstanding
    <3>1. toHost = <<>>
      BY DEF Init, DriverInit
    <3>2. Len(<<>>) = 0
      OBVIOUS
    <3>. QED  BY <3>1, <3>2 DEF Init, DriverInit, FirmwareInit, Load, HandlerLoad, Outstanding
  <2>. QED  BY <2>1, <2>2 DEF PromptInv
<1>2. PromptInv /\ [ScriptStep \/ FirmwareStep]_vars => PromptInv'
  <2>. SUFFICES ASSUME PromptInv, [ScriptStep \/ FirmwareStep]_vars PROVE PromptInv'
    OBVIOUS
  <2>1. DriverInv /\ FirmwareInv /\ Load + Len(toHost) + HandlerLoad <= Outstanding
    BY DEF PromptInv
  <2>2. CASE ScriptStep
    BY <2>1, <2>2, ScriptSidePreserves, ScriptKeepsLoad DEF PromptInv
  <2>3. CASE FirmwareStep
    <3>1. (DriverInv /\ FirmwareInv)'
      BY <2>1, <2>3, FirmwareStepPreserves
    <3>2. Load' + Len(toHost') <= Load + Len(toHost)
      BY <2>1, <2>3, FirmwareKeepsLoad DEF FirmwareStep
    <3>3. HandlerLoad' = HandlerLoad /\ Outstanding' = Outstanding
      BY <2>3 DEF FirmwareStep, driverVars, HandlerLoad, Outstanding
    <3>4. /\ Load \in Nat /\ Load' \in Nat /\ Len(toHost) \in Nat /\ Len(toHost') \in Nat
          /\ HandlerLoad \in Nat /\ Outstanding \in Nat
      <4>1. /\ Load \in Nat /\ Len(toHost) \in Nat /\ Outstanding \in Nat
        BY <2>1, Lengths DEF Load, Outstanding
      <4>2. /\ Len(outbox') \in Nat /\ Len(predicting') \in Nat /\ Len(queue') \in Nat
            /\ Len(delivering') \in Nat /\ Len(toDevice') \in Nat
            /\ Len(toHost') \in Nat
        BY <3>1, LenProperties
           DEF FirmwareInv, FirmwareTypeOK, NetworkTypeOK
      <4>. QED  BY <4>1, <4>2 DEF Load, HandlerLoad
    <3>. QED  BY <2>1, <3>1, <3>2, <3>3, <3>4 DEF PromptInv
  <2>4. CASE UNCHANGED vars
    <3>1. (DriverInv /\ FirmwareInv)'
      BY <2>1, <2>4, StutterPreserves
    <3>2. Load' = Load /\ toHost' = toHost /\ HandlerLoad' = HandlerLoad
            /\ Outstanding' = Outstanding
      BY <2>4 DEF vars, driverVars, firmwareVars, Load, HandlerLoad, Outstanding
    <3>. QED  BY <2>1, <3>1, <3>2 DEF PromptInv
  <2>. QED  BY <2>2, <2>3, <2>4
<1>. QED  BY <1>1, <1>2, PTL DEF PromptSpec

(* As long as every answer comes in time, the messages on their way are at  *)
(* most the rows the script waits for: its window bounds the load of the    *)
(* broker and of the device.                                                *)
THEOREM LoadBounded ==
  ASSUME StaleAnswers = {<<>>}
  PROVE  PromptSpec => []LoadWithinWindow
<1>1. PromptInv => LoadWithinWindow
  BY PipelineLength
     DEF PromptInv, FirmwareInv, LoadWithinWindow, Travelling, HandlerLoad
<1>. QED  BY <1>1, PromptInvariance, PTL

(* With a window of at most one row more than mqtt_queue holds (the code    *)
(* has 11 and 10) the two tasks of the device never lock each other out, as *)
(* long as no timer fires.                                                  *)
THEOREM NoDeadlockWhilePrompt ==
  ASSUME StaleAnswers = {<<>>}, Window <= QueueLength + 1
  PROVE  PromptSpec => []NoDeadlock
<1>1. PromptInv => NoDeadlock
  <2>. SUFFICES ASSUME PromptInv, Deadlocked PROVE FALSE
    BY DEF NoDeadlock
  <2>1. DriverInv /\ FirmwareInv /\ Load + Len(toHost) + HandlerLoad <= Outstanding
    BY DEF PromptInv
  <2>2. Outstanding <= Window /\ Window \in Nat /\ QueueLength \in Nat
    BY <2>1, DriverAssumption, FirmwareAssumption DEF DriverInv, WindowRespected
  <2>3. delivering # <<>> /\ predicting # <<>> /\ Len(queue) = QueueLength
    BY <2>1 DEF FirmwareInv, LockDiscipline, Deadlocked
  <2>4. Len(delivering) >= 1 /\ Len(predicting) >= 1
    <3>1. delivering \in Seq(Ids) /\ predicting \in Seq(Ids)
      BY <2>1 DEF FirmwareInv, FirmwareTypeOK
    <3>. QED  BY <2>3, <3>1, EmptySeq, LenProperties
  <2>5. /\ Len(outbox) \in Nat /\ Len(predicting) \in Nat /\ Len(delivering) \in Nat
        /\ Len(toDevice) \in Nat /\ Len(toHost) \in Nat
        /\ HandlerLoad \in Nat /\ Outstanding \in Nat
    BY <2>1, Lengths DEF HandlerLoad, Outstanding
  <2>. QED  BY <2>1, <2>2, <2>3, <2>4, <2>5 DEF Load
<1>. QED  BY <1>1, PromptInvariance, PTL
-----------------------------------------------------------------------------
(* The composed system implements the validation run of module Validation,  *)
(* for every value of the constants: whatever is proved of the script       *)
(* against the FIFO device holds for the script and the ESP32 with its two  *)
(* tasks, its queue and its outbox.  From it follows that rows are recorded *)
(* in their order while no timer fires.                                     *)

-----------------------------------------------------------------------------
(* Sequences.                                                               *)

LEMMA EmptyConcat ==
  ASSUME NEW S
  PROVE  <<>> \o <<>> = <<>>
<1>1. <<>> \in Seq(S)
  OBVIOUS
<1>. QED  BY <1>1, ConcatEmptySeq

(* A request keeps its place when it moves from one part of the line to the *)
(* next.                                                                    *)
LEMMA HeadThenTail ==
  ASSUME NEW S, NEW s \in Seq(S), s # <<>>
  PROVE  <<Head(s)>> \o Tail(s) = s
<1>1. Len(s) \in Nat \ {0}
  BY EmptySeq
<1>2. SubSeq(s, 1, Len(s)) = <<s[1]>> \o SubSeq(s, 1 + 1, Len(s))
  BY <1>1, SubSeqRecursiveFirst
<1>3. Tail(s) = SubSeq(s, 2, Len(s)) /\ SubSeq(s, 1, Len(s)) = s
  BY TailIsSubSeq, SubSeqFull
<1>4. Head(s) = s[1]
  OBVIOUS
<1>. QED  BY <1>2, <1>3, <1>4

(* What is cut off the front of the first part is cut off the front of all. *)
LEMMA DropFront ==
  ASSUME NEW S, NEW s \in Seq(S), NEW t \in Seq(S), NEW n \in 0..Len(s)
  PROVE  SubSeq(s, n + 1, Len(s)) \o t = SubSeq(s \o t, n + 1, Len(s \o t))
<1> DEFINE cut == SubSeq(s, n + 1, Len(s))
           all == SubSeq(s \o t, n + 1, Len(s \o t))
<1>1. Len(s) \in Nat /\ Len(t) \in Nat
  BY LenProperties
<1>2. /\ s \o t \in Seq(S)
      /\ Len(s \o t) = Len(s) + Len(t)
      /\ \A i \in 1..(Len(s) + Len(t)) :
           (s \o t)[i] = IF i <= Len(s) THEN s[i] ELSE t[i - Len(s)]
  BY ConcatProperties
<1>3. /\ cut \in Seq(S)
      /\ Len(cut) = Len(s) - n
      /\ \A i \in 1..(Len(s) - n) : cut[i] = s[n + i]
  <2>1. \A i \in (n + 1)..Len(s) : s[i] \in S
    BY <1>1, ElementOfSeq
  <2>2. /\ cut \in Seq(S)
        /\ Len(cut) = IF n + 1 <= Len(s) THEN Len(s) - (n + 1) + 1 ELSE 0
        /\ \A i \in 1..(Len(s) - (n + 1) + 1) : cut[i] = s[(n + 1) + i - 1]
    BY <1>1, <2>1, SubSeqProperties
  <2>. HIDE DEF cut
  <2>. QED  BY <1>1, <2>2
<1>4. /\ all \in Seq(S)
      /\ Len(all) = Len(s) + Len(t) - n
      /\ \A i \in 1..(Len(s) + Len(t) - n) : all[i] = (s \o t)[n + i]
  <2>1. \A i \in (n + 1)..Len(s \o t) : (s \o t)[i] \in S
    <3>1. \A i \in 1..Len(s \o t) : (s \o t)[i] \in S
      BY <1>2, ElementOfSeq
    <3>. QED  BY <1>1, <1>2, <3>1
  <2>2. /\ all \in Seq(S)
        /\ Len(all) = IF n + 1 <= Len(s \o t) THEN Len(s \o t) - (n + 1) + 1 ELSE 0
        /\ \A i \in 1..(Len(s \o t) - (n + 1) + 1) : all[i] = (s \o t)[(n + 1) + i - 1]
    BY <1>1, <1>2, <2>1, SubSeqProperties
  <2>3. /\ n + 1 \in Nat /\ n \in Nat /\ n <= Len(s)
        /\ Len(s \o t) - (n + 1) + 1 = Len(s) + Len(t) - n
    BY <1>1, <1>2
  <2>. HIDE DEF all
  <2>4. Len(all) = Len(s) + Len(t) - n
    BY <1>1, <1>2, <2>2, <2>3
  <2>5. \A i \in 1..(Len(s) + Len(t) - n) : all[i] = (s \o t)[n + i]
    <3>1. ASSUME NEW i \in 1..(Len(s) + Len(t) - n) PROVE all[i] = (s \o t)[n + i]
      <4>1. all[i] = (s \o t)[(n + 1) + i - 1] /\ i \in Int
        BY <2>2, <2>3
      <4>2. (n + 1) + i - 1 = n + i
        BY <2>3, <4>1
      <4>. QED  BY <4>1, <4>2
    <3>. QED  BY <3>1
  <2>. QED  BY <2>2, <2>4, <2>5
<1>. DEFINE joined == cut \o t
<1>. HIDE DEF cut, all
<1>5. /\ joined \in Seq(S)
      /\ Len(joined) = Len(s) - n + Len(t)
      /\ \A i \in 1..(Len(s) - n + Len(t)) :
           joined[i] = IF i <= Len(s) - n THEN cut[i] ELSE t[i - (Len(s) - n)]
  <2>1. /\ joined \in Seq(S)
        /\ Len(joined) = Len(cut) + Len(t)
        /\ \A i \in 1..(Len(cut) + Len(t)) :
             joined[i] = IF i <= Len(cut) THEN cut[i] ELSE t[i - Len(cut)]
    BY <1>3, ConcatProperties
  <2>. QED  BY <1>3, <2>1
<1>. HIDE DEF joined
<1>6. ASSUME NEW i \in 1..(Len(s) - n + Len(t))
      PROVE  joined[i] = all[i]
  <2>1. n + i \in 1..(Len(s) + Len(t)) /\ i \in 1..(Len(s) + Len(t) - n)
    BY <1>1
  <2>. n \in Nat /\ i \in Nat
    BY <1>1
  <2>2. all[i] = IF n + i <= Len(s) THEN s[n + i] ELSE t[n + i - Len(s)]
    BY <1>2, <1>4, <2>1
  <2>3. CASE n + i <= Len(s)
    <3>1. i \in 1..(Len(s) - n) /\ i <= Len(s) - n
      BY <1>1, <2>3
    <3>. QED  BY <1>3, <1>5, <2>2, <2>3, <3>1
  <2>4. CASE n + i > Len(s)
    <3>1. i - (Len(s) - n) = n + i - Len(s) /\ ~(i <= Len(s) - n)
      BY <1>1, <2>4
    <3>. QED  BY <1>1, <1>5, <2>2, <2>4, <3>1
  <2>. QED  BY <1>1, <2>3, <2>4
<1>7. Len(joined) = Len(all)
  BY <1>1, <1>4, <1>5
<1>8. joined = all
  BY <1>4, <1>5, <1>6, <1>7, SeqEqual
<1>. QED  BY <1>8 DEF cut, all, joined

(* What is lost with the last part is the end of the line.                  *)
LEMMA DropBack ==
  ASSUME NEW S, NEW s \in Seq(S), NEW t \in Seq(S)
  PROVE  s = SubSeq(s \o t, 1, Len(s))
<1> DEFINE front == SubSeq(s \o t, 1, Len(s))
<1>1. Len(s) \in Nat /\ Len(t) \in Nat
  BY LenProperties
<1>2. /\ s \o t \in Seq(S)
      /\ Len(s \o t) = Len(s) + Len(t)
      /\ \A i \in 1..(Len(s) + Len(t)) :
           (s \o t)[i] = IF i <= Len(s) THEN s[i] ELSE t[i - Len(s)]
  BY ConcatProperties
<1>3. \A i \in 1..Len(s) : (s \o t)[i] \in S
  <2>1. \A i \in 1..Len(s \o t) : (s \o t)[i] \in S
    BY <1>2, ElementOfSeq
  <2>. QED  BY <1>1, <1>2, <2>1
<1>4. /\ front \in Seq(S)
      /\ Len(front) = IF 1 <= Len(s) THEN Len(s) - 1 + 1 ELSE 0
      /\ \A i \in 1..(Len(s) - 1 + 1) : front[i] = (s \o t)[1 + i - 1]
  BY <1>1, <1>3, SubSeqProperties
<1>. HIDE DEF front
<1>5. Len(front) = Len(s) /\ \A i \in 1..Len(s) : front[i] = s[i]
  BY <1>1, <1>2, <1>4
<1>6. s = front
  BY <1>4, <1>5, SeqEqual
<1>. QED  BY <1>6 DEF front

-----------------------------------------------------------------------------
(* The line of requests.                                                    *)

LEMMA Parts ==
  ASSUME FirmwareInv
  PROVE  /\ outbox \in Seq(Ids) /\ predicting \in Seq(Ids) /\ queue \in Seq(Ids)
         /\ delivering \in Seq(Ids) /\ toDevice \in Seq(Ids) /\ <<>> \in Seq(Ids)
         /\ Pipeline \in Seq(Ids)
         /\ Pipeline = outbox \o (predicting \o (queue \o (delivering \o toDevice)))
         /\ predicting \o (queue \o (delivering \o toDevice)) \in Seq(Ids)
         /\ queue \o (delivering \o toDevice) \in Seq(Ids)
         /\ outbox \o predicting \o queue \o delivering \in Seq(Ids)
<1>1. /\ outbox \in Seq(Ids) /\ predicting \in Seq(Ids) /\ queue \in Seq(Ids)
      /\ delivering \in Seq(Ids) /\ toDevice \in Seq(Ids) /\ <<>> \in Seq(Ids)
  BY DEF FirmwareInv, FirmwareTypeOK, NetworkTypeOK
<1>2. /\ Pipeline = outbox \o (predicting \o (queue \o (delivering \o toDevice)))
      /\ predicting \o (queue \o (delivering \o toDevice)) \in Seq(Ids)
      /\ queue \o (delivering \o toDevice) \in Seq(Ids)
  <2> DEFINE two == delivering \o toDevice
             three == queue \o two
             before == outbox \o predicting
  <2>1. /\ two \in Seq(Ids) /\ three \in Seq(Ids) /\ predicting \o three \in Seq(Ids)
        /\ before \in Seq(Ids) /\ before \o queue \in Seq(Ids)
    BY <1>1
  <2>2. ((before \o queue) \o delivering) \o toDevice = (before \o queue) \o two
    BY <1>1
  <2>3. (before \o queue) \o two = before \o three
    <3>. HIDE DEF before, two
    <3>. QED  BY <1>1, <2>1
  <2>4. (outbox \o predicting) \o three = outbox \o (predicting \o three)
    <3>. HIDE DEF three
    <3>. QED  BY <1>1, <2>1
  <2>. QED  BY <2>1, <2>2, <2>3, <2>4 DEF Pipeline
<1>3. /\ outbox \o predicting \in Seq(Ids)
      /\ outbox \o predicting \o queue \in Seq(Ids)
      /\ outbox \o predicting \o queue \o delivering \in Seq(Ids)
  BY <1>1, ConcatProperties
<1>4. Pipeline \in Seq(Ids)
  BY <1>1, <1>3, ConcatProperties DEF Pipeline
<1>. QED  BY <1>1, <1>2, <1>3, <1>4

(* A published row enters the line at its end.                              *)
LEMMA PublishEnters ==
  ASSUME FirmwareInv, NEW r \in Ids,
         UNCHANGED <<outbox, predicting, queue, delivering>>,
         toDevice' = Append(toDevice, r)
  PROVE  Pipeline' = Append(Pipeline, r)
<1> DEFINE front == outbox \o predicting \o queue \o delivering
<1>1. /\ front \in Seq(Ids) /\ toDevice \in Seq(Ids) /\ Pipeline \in Seq(Ids)
  BY Parts
<1>2. Pipeline = front \o toDevice /\ Pipeline' = front \o Append(toDevice, r)
  BY DEF Pipeline
<1>. HIDE DEF front
<1>3. front \o Append(toDevice, r) = Append(front \o toDevice, r)
  BY <1>1
<1>. QED  BY <1>2, <1>3

LEMMA SameParts ==
  ASSUME UNCHANGED <<outbox, predicting, queue, delivering, toDevice>>
  PROVE  Pipeline' = Pipeline
BY DEF Pipeline

(* A change at the front of the line leaves what is behind it.             *)
LEMMA FrontChanges ==
  ASSUME FirmwareInv, FirmwareInv',
         UNCHANGED <<predicting, queue, delivering, toDevice>>
  PROVE  Pipeline' = outbox' \o (predicting \o (queue \o (delivering \o toDevice)))
<1> DEFINE two == delivering \o toDevice
           three == queue \o two
           before == outbox' \o predicting
<1>1. outbox' \in Seq(Ids)
  BY DEF FirmwareInv, FirmwareTypeOK
<1>2. /\ predicting \in Seq(Ids) /\ queue \in Seq(Ids)
      /\ delivering \in Seq(Ids) /\ toDevice \in Seq(Ids)
  BY Parts
<1>3. two \in Seq(Ids) /\ three \in Seq(Ids) /\ before \in Seq(Ids)
  BY <1>1, <1>2
<1>4. ((before \o queue) \o delivering) \o toDevice = (before \o queue) \o two
  BY <1>1, <1>2
<1>5. (before \o queue) \o two = before \o three
  <2>. HIDE DEF before, two
  <2>. QED  BY <1>2, <1>3
<1>6. (outbox' \o predicting) \o three = outbox' \o (predicting \o three)
  <2>. HIDE DEF three
  <2>. QED  BY <1>1, <1>2, <1>3
<1>. QED  BY <1>4, <1>5, <1>6 DEF Pipeline

(* The tasks of the device hand requests on, and the line stays the same.   *)
LEMMA HandOver ==
  ASSUME FirmwareInv, Receive \/ Deliver \/ TakeRequest \/ EnqueueAnswer
  PROVE  Pipeline' = Pipeline
<1>1. LockDiscipline
  BY DEF FirmwareInv
<1>2. /\ outbox \in Seq(Ids) /\ predicting \in Seq(Ids) /\ queue \in Seq(Ids)
      /\ delivering \in Seq(Ids) /\ toDevice \in Seq(Ids) /\ <<>> \in Seq(Ids)
  BY Parts
<1>3. CASE Receive
  <2> DEFINE front == outbox \o predicting \o queue
             first == <<Head(toDevice)>>
             rest == Tail(toDevice)
  <2>1. /\ delivering = <<>> /\ delivering' = first /\ toDevice' = rest
        /\ toDevice # <<>> /\ UNCHANGED <<outbox, predicting, queue>>
    BY <1>1, <1>3 DEF Receive, LockDiscipline
  <2>2. front \in Seq(Ids)
    BY <1>2
  <2>3. first \in Seq(Ids) /\ rest \in Seq(Ids)
    BY <1>2, <2>1, HeadTailProperties
  <2>4. Pipeline = (front \o <<>>) \o toDevice /\ Pipeline' = (front \o first) \o rest
    BY <2>1 DEF Pipeline
  <2>. HIDE DEF front, first, rest
  <2>5. (front \o first) \o rest = front \o (first \o rest)
    BY <2>2, <2>3
  <2>6. front \o <<>> = front
    BY <2>2, ConcatEmptySeq
  <2>7. first \o rest = toDevice
    BY <1>2, <2>1, HeadThenTail DEF first, rest
  <2>. QED  BY <2>4, <2>5, <2>6, <2>7
<1>4. CASE Deliver
  <2> DEFINE front == outbox \o predicting
             both == front \o (queue \o delivering)
  <2>1. /\ queue' = queue \o delivering /\ delivering' = <<>>
        /\ UNCHANGED <<outbox, predicting, toDevice>>
    BY <1>4 DEF Deliver
  <2>2. front \in Seq(Ids) /\ queue \o delivering \in Seq(Ids)
    BY <1>2
  <2>3. /\ Pipeline = ((front \o queue) \o delivering) \o toDevice
        /\ Pipeline' = (both \o <<>>) \o toDevice
    BY <2>1 DEF Pipeline
  <2>. HIDE DEF front
  <2>4. (front \o queue) \o delivering = both /\ both \in Seq(Ids)
    BY <1>2, <2>2
  <2>. HIDE DEF both
  <2>5. both \o <<>> = both
    BY <2>4, ConcatEmptySeq
  <2>. QED  BY <2>3, <2>4, <2>5
<1>5. CASE TakeRequest
  <2> DEFINE first == <<Head(queue)>>
             rest == Tail(queue)
             both == outbox \o queue
  <2>1. /\ predicting = <<>> /\ predicting' = first /\ queue' = rest
        /\ queue # <<>> /\ UNCHANGED <<outbox, delivering, toDevice>>
    BY <1>1, <1>5 DEF TakeRequest, LockDiscipline
  <2>2. first \in Seq(Ids) /\ rest \in Seq(Ids)
    BY <1>2, <2>1, HeadTailProperties
  <2>3. /\ Pipeline = (((outbox \o <<>>) \o queue) \o delivering) \o toDevice
        /\ Pipeline' = (((outbox \o first) \o rest) \o delivering) \o toDevice
    BY <2>1 DEF Pipeline
  <2>. HIDE DEF first, rest
  <2>4. (outbox \o first) \o rest = outbox \o (first \o rest)
    BY <1>2, <2>2
  <2>5. outbox \o <<>> = outbox
    BY <1>2, ConcatEmptySeq
  <2>6. first \o rest = queue
    BY <1>2, <2>1, HeadThenTail DEF first, rest
  <2>. QED  BY <2>3, <2>4, <2>5, <2>6
<1>6. CASE EnqueueAnswer
  <2> DEFINE both == outbox \o predicting
  <2>1. /\ outbox' = both /\ predicting' = <<>>
        /\ UNCHANGED <<queue, delivering, toDevice>>
    BY <1>6 DEF EnqueueAnswer
  <2>2. both \in Seq(Ids)
    BY <1>2
  <2>3. /\ Pipeline = ((both \o queue) \o delivering) \o toDevice
        /\ Pipeline' = (((both \o <<>>) \o queue) \o delivering) \o toDevice
    BY <2>1 DEF Pipeline
  <2>. HIDE DEF both
  <2>4. both \o <<>> = both
    BY <2>2, ConcatEmptySeq
  <2>. QED  BY <2>3, <2>4
<1>. QED  BY <1>3, <1>4, <1>5, <1>6

(* Everything else the device and its surroundings do to the line, except   *)
(* for sending an answer, leaves a contiguous part of it.                   *)
LEMMA LeavesAPart ==
  ASSUME FirmwareInv, FirmwareInv', FirmwareNext, ~(SendAnswer /\ online)
  PROVE  /\ toHost' = toHost
         /\ \E first \in 1..(Len(Pipeline) + 1), last \in 0..Len(Pipeline) :
              Pipeline' = SubSeq(Pipeline, first, last)
<1> DEFINE after == predicting \o (queue \o (delivering \o toDevice))
           before == outbox \o predicting \o queue \o delivering
<1>1. /\ outbox \in Seq(Ids) /\ toDevice \in Seq(Ids) /\ Pipeline \in Seq(Ids)
      /\ after \in Seq(Ids) /\ before \in Seq(Ids)
      /\ Pipeline = outbox \o after
  BY Parts
<1>2. Pipeline = before \o toDevice
  BY DEF Pipeline
<1>3. Len(outbox) \in Nat /\ Len(before) \in Nat /\ Len(Pipeline) \in Nat
  BY <1>1, LenProperties
<1>4. /\ Len(Pipeline) = Len(outbox) + Len(after) /\ Len(after) \in Nat
      /\ Len(Pipeline) = Len(before) + Len(toDevice) /\ Len(toDevice) \in Nat
  <2>1. Len(outbox \o after) = Len(outbox) + Len(after) /\ Len(after) \in Nat
    BY <1>1, ConcatProperties, LenProperties
  <2>2. Len(before \o toDevice) = Len(before) + Len(toDevice) /\ Len(toDevice) \in Nat
    BY <1>1, ConcatProperties, LenProperties
  <2>. QED  BY <1>1, <1>2, <2>1, <2>2
<1>5. ASSUME Pipeline' = Pipeline, toHost' = toHost
      PROVE  /\ toHost' = toHost
             /\ \E first \in 1..(Len(Pipeline) + 1), last \in 0..Len(Pipeline) :
                  Pipeline' = SubSeq(Pipeline, first, last)
  <2>1. Pipeline' = SubSeq(Pipeline, 1, Len(Pipeline))
    BY <1>1, <1>5, SubSeqFull
  <2>2. 1 \in 1..(Len(Pipeline) + 1) /\ Len(Pipeline) \in 0..Len(Pipeline)
    BY <1>3
  <2>. QED  BY <1>5, <2>1, <2>2
<1>6. ASSUME NEW n \in 0..Len(outbox), Pipeline' = SubSeq(outbox, n + 1, Len(outbox)) \o after
      PROVE  \E first \in 1..(Len(Pipeline) + 1), last \in 0..Len(Pipeline) :
               Pipeline' = SubSeq(Pipeline, first, last)
  <2>1. SubSeq(outbox, n + 1, Len(outbox)) \o after
          = SubSeq(outbox \o after, n + 1, Len(outbox \o after))
    <3>. HIDE DEF after
    <3>. QED  BY <1>1, DropFront
  <2>2. Pipeline' = SubSeq(Pipeline, n + 1, Len(Pipeline))
    BY <1>1, <1>6, <2>1
  <2>3. n + 1 \in 1..(Len(Pipeline) + 1) /\ Len(Pipeline) \in 0..Len(Pipeline)
    BY <1>3, <1>4
  <2>. QED  BY <2>2, <2>3
<1>7. CASE BeginPass
  <2>1. toHost' = toHost /\ UNCHANGED <<predicting, queue, delivering, toDevice>>
    BY <1>7 DEF BeginPass
  <2>2. CASE outbox' = outbox
    BY <1>5, <2>1, <2>2, SameParts
  <2>3. ASSUME NEW n \in 1..Len(outbox), outbox' = SubSeq(outbox, n + 1, Len(outbox))
        PROVE  \E first \in 1..(Len(Pipeline) + 1), last \in 0..Len(Pipeline) :
                 Pipeline' = SubSeq(Pipeline, first, last)
    <3>1. Pipeline' = outbox' \o after
      BY <2>1, FrontChanges
    <3>. HIDE DEF after
    <3>2. n \in 0..Len(outbox)
      BY <1>3
    <3>. QED  BY <1>6, <2>3, <3>1, <3>2
  <2>. QED  BY <1>7, <2>1, <2>2, <2>3 DEF BeginPass
<1>8. CASE Connect \/ ConnectFails \/ Reconnect \/ KeepWaiting \/ ReceiveNothing
             \/ ReceiveFails \/ SendNothing \/ SendFails \/ PollFails \/ LockForEnqueue
  <2>1. UNCHANGED <<outbox, predicting, queue, delivering, toDevice, toHost>>
    BY <1>8 DEF Connect, ConnectFails, Reconnect, KeepWaiting, ReceiveNothing,
                ReceiveFails, SendNothing, SendFails, PollFails, LockForEnqueue
  <2>. QED  BY <1>5, <2>1, SameParts
<1>9. CASE Receive \/ Deliver \/ TakeRequest \/ EnqueueAnswer
  <2>1. toHost' = toHost
    BY <1>9 DEF Receive, Deliver, TakeRequest, EnqueueAnswer
  <2>. QED  BY <1>5, <1>9, <2>1, HandOver
<1>10. CASE SendAnswer
  <2>1. /\ toHost' = toHost /\ outbox # <<>> /\ outbox' = Tail(outbox)
        /\ UNCHANGED <<predicting, queue, delivering, toDevice>>
    BY <1>10 DEF SendAnswer
  <2>2. Tail(outbox) = SubSeq(outbox, 1 + 1, Len(outbox))
    BY <1>1, <2>1, TailIsSubSeq
  <2>3. Pipeline' = outbox' \o after
    BY <2>1, FrontChanges
  <2>4. 1 \in 0..Len(outbox)
    BY <1>1, <2>1, EmptySeq
  <2>. HIDE DEF after
  <2>. QED  BY <1>6, <2>1, <2>2, <2>3, <2>4
<1>11. CASE LoseConnection
  <2>1. /\ toHost' = toHost /\ toDevice' = <<>>
        /\ UNCHANGED <<outbox, predicting, queue, delivering>>
    BY <1>11 DEF LoseConnection, DropSession
  <2>2. Pipeline' = before \o <<>>
    BY <2>1 DEF Pipeline
  <2>3. before \o <<>> = before /\ before = SubSeq(before \o toDevice, 1, Len(before))
    <3>. HIDE DEF before
    <3>. QED  BY <1>1, ConcatEmptySeq, DropBack
  <2>4. Pipeline' = SubSeq(Pipeline, 1, Len(before))
    BY <1>2, <2>2, <2>3
  <2>5. 1 \in 1..(Len(Pipeline) + 1) /\ Len(before) \in 0..Len(Pipeline)
    BY <1>3, <1>4
  <2>. QED  BY <2>1, <2>4, <2>5
<1>12. CASE Reset
  <2>1. toHost' = toHost
    BY <1>12 DEF Reset
  <2>2. Pipeline' = <<>>
    <3>1. Pipeline' = <<>> \o <<>> \o <<>> \o <<>> \o <<>>
      BY <1>12 DEF Reset, DropSession, Booted, Pipeline
    <3>. QED  BY <3>1, EmptyConcat
  <2>3. SubSeq(Pipeline, 1, 0) = <<>>
    BY SubSeqEmpty
  <2>4. 1 \in 1..(Len(Pipeline) + 1) /\ 0 \in 0..Len(Pipeline)
    BY <1>3
  <2>. QED  BY <2>1, <2>2, <2>3, <2>4
<1>. QED  BY <1>7, <1>8, <1>9, <1>10, <1>11, <1>12 DEF FirmwareNext, Pass

(* An answer sent over a live connection is the oldest request in line.     *)
LEMMA SendsTheOldest ==
  ASSUME FirmwareInv, FirmwareInv', SendAnswer, online
  PROVE  /\ Pipeline # <<>>
         /\ toHost' = Append(toHost, Head(Pipeline))
         /\ Pipeline' = Tail(Pipeline)
<1> DEFINE after == predicting \o (queue \o (delivering \o toDevice))
<1>1. /\ outbox \in Seq(Ids) /\ after \in Seq(Ids)
      /\ Pipeline = outbox \o after /\ Pipeline \in Seq(Ids)
  BY Parts
<1>2. /\ outbox # <<>> /\ toHost' = Append(toHost, Head(outbox))
      /\ outbox' = Tail(outbox)
      /\ UNCHANGED <<predicting, queue, delivering, toDevice>>
  BY DEF SendAnswer, RouteToHost
<1>3. Pipeline' = Tail(outbox) \o after
  BY <1>2, FrontChanges
<1>. HIDE DEF after
<1>4. Len(outbox) \in Nat \ {0} /\ Len(after) \in Nat
  BY <1>1, <1>2, EmptySeq, LenProperties
<1>5. /\ Len(Pipeline) = Len(outbox) + Len(after)
      /\ \A i \in 1..(Len(outbox) + Len(after)) :
           Pipeline[i] = IF i <= Len(outbox) THEN outbox[i] ELSE after[i - Len(outbox)]
  BY <1>1, ConcatProperties
<1>6. Pipeline # <<>>
  BY <1>1, <1>4, <1>5, EmptySeq
<1>7. Head(Pipeline) = Head(outbox)
  <2>1. Pipeline[1] = outbox[1]
    BY <1>4, <1>5
  <2>. QED  BY <1>1, <1>2, <1>6, <2>1
<1>8. Tail(outbox) \o after = Tail(Pipeline)
  <2>1. Tail(outbox) = SubSeq(outbox, 1 + 1, Len(outbox))
    BY <1>1, <1>2, TailIsSubSeq
  <2>2. 1 \in 0..Len(outbox)
    BY <1>4
  <2>3. SubSeq(outbox, 1 + 1, Len(outbox)) \o after
          = SubSeq(outbox \o after, 1 + 1, Len(outbox \o after))
    BY <1>1, <2>2, DropFront
  <2>4. Tail(Pipeline) = SubSeq(Pipeline, 2, Len(Pipeline))
    BY <1>1, <1>6, TailIsSubSeq
  <2>. QED  BY <1>1, <2>1, <2>3, <2>4
<1>. QED  BY <1>2, <1>3, <1>6, <1>7, <1>8

-----------------------------------------------------------------------------
(* The steps.                                                               *)

LEMMA MainImplements ==
  ASSUME DriverInv, FirmwareInv, Main, UNCHANGED firmwareVars
  PROVE  Abstract!Main
<1>1. UNCHANGED <<outbox, predicting, queue, delivering>>
  BY DEF firmwareVars
<1>2. toDevice' = toDevice => Pipeline' = Pipeline
  BY <1>1, SameParts
<1>3. CASE DefineLists \/ EnterWindow \/ AppendSent \/ StartTimer \/ EndOfRows
             \/ Drained \/ LoopStop \/ Report
  <2>1. toDevice' = toDevice
    BY <1>3 DEF DefineLists, EnterWindow, AppendSent, StartTimer, EndOfRows, Drained,
                LoopStop, Report
  <2>2. Pipeline' = Pipeline
    BY <1>2, <2>1
  <2>. QED  BY <1>3, <2>2
            DEF DefineLists, EnterWindow, AppendSent, StartTimer, EndOfRows, Drained,
                LoopStop, Report, Abstract!Main, Abstract!DefineLists,
                Abstract!EnterWindow, Abstract!AppendSent, Abstract!StartTimer,
                Abstract!EndOfRows, Abstract!Drained, Abstract!LoopStop, Abstract!Report
<1>4. CASE PublishRow
  <2>1. row \in Ids
    BY <1>4, NetworkAssumption
       DEF DriverInv, DriverTypeOK, RowInv, PublishRow, Ids
  <2>2. Abstract!Publish(row)
    <3>1. CASE handler \in {"dead", "joined"}
      BY <1>2, <1>4, <3>1 DEF PublishRow, Publish, Abstract!Publish
    <3>2. CASE handler \notin {"dead", "joined"}
      BY <1>1, <1>2, <1>4, <2>1, <3>2, PublishEnters
         DEF PublishRow, Publish, RouteToDevice, Abstract!Publish, Abstract!RouteToDevice
    <3>. QED  BY <3>1, <3>2
  <2>. QED  BY <1>4, <2>2 DEF PublishRow, Abstract!Main, Abstract!PublishRow
<1>. QED  BY <1>3, <1>4 DEF Main

LEMMA OnMessageImplements ==
  ASSUME FirmwareInv, OnMessage, UNCHANGED firmwareVars
  PROVE  Abstract!OnMessage
<1>1. UNCHANGED <<outbox, predicting, queue, delivering, toDevice>>
  BY DEF firmwareVars, OnMessage, HandlerDies, IgnoreAnswer, FindRow, CancelTimer,
         DeleteSent, RecordResult
<1>2. Pipeline' = Pipeline
  BY <1>1, SameParts
<1>3. CASE HandlerDies \/ IgnoreAnswer \/ CancelTimer \/ RecordResult
  BY <1>2, <1>3
     DEF HandlerDies, IgnoreAnswer, CancelTimer, RecordResult, Positions, Cancel,
         Abstract!OnMessage, Abstract!HandlerDies, Abstract!IgnoreAnswer,
         Abstract!CancelTimer, Abstract!RecordResult, Abstract!Positions, Abstract!Cancel
<1>4. CASE FindRow
  BY <1>2, <1>4
     DEF FindRow, IsFirst, Positions, Abstract!OnMessage, Abstract!FindRow,
         Abstract!IsFirst, Abstract!Positions
<1>5. CASE DeleteSent
  BY <1>2, <1>5
     DEF DeleteSent, RemoveAt, Abstract!OnMessage, Abstract!DeleteSent, Abstract!RemoveAt
<1>. QED  BY <1>3, <1>4, <1>5 DEF OnMessage

LEMMA TimerImplements ==
  ASSUME FirmwareInv, NEW r \in Ids, TimerStep(r)
  PROVE  Abstract!Timers(r)
<1>1. UNCHANGED <<outbox, predicting, queue, delivering>>
  BY DEF TimerStep, firmwareVars
<1>2. toDevice' = toDevice => Pipeline' = Pipeline
  BY <1>1, SameParts
<1>3. CASE Expire(r) \/ Rearm(r)
  BY <1>2, <1>3
     DEF Expire, Rearm, Abstract!Timers, Abstract!Expire, Abstract!Rearm
<1>4. CASE Room /\ Resend(r)
  <2>1. Abstract!Publish(r)
    <3>1. CASE handler \in {"dead", "joined"}
      BY <1>2, <1>4, <3>1 DEF Resend, Publish, Abstract!Publish
    <3>2. CASE handler \notin {"dead", "joined"}
      BY <1>1, <1>2, <1>4, <3>2, PublishEnters
         DEF Resend, Publish, RouteToDevice, Abstract!Publish, Abstract!RouteToDevice
    <3>. QED  BY <3>1, <3>2
  <2>. QED  BY <1>4, <2>1
            DEF Room, Resend, Abstract!Timers, Abstract!Room, Abstract!Resend
<1>. QED  BY <1>3, <1>4 DEF TimerStep

LEMMA FirmwareImplements ==
  ASSUME FirmwareInv, FirmwareInv', FirmwareStep
  PROVE  Abstract!DeviceAnswers \/ Abstract!DeviceLoses
<1>1. FirmwareNext /\ UNCHANGED driverVars
  BY DEF FirmwareStep
<1>2. CASE SendAnswer /\ online
  <2>1. /\ Pipeline # <<>> /\ toHost' = Append(toHost, Head(Pipeline))
        /\ Pipeline' = Tail(Pipeline)
    BY <1>2, SendsTheOldest
  <2>2. online' = online
    BY <1>2 DEF SendAnswer
  <2>3. UNCHANGED Abstract!driverVars
    BY <1>1 DEF driverVars, Abstract!driverVars
  <2>. QED  BY <2>1, <2>2, <2>3 DEF Abstract!DeviceAnswers, Abstract!Device!Answer
<1>3. CASE ~(SendAnswer /\ online)
  <2>1. /\ toHost' = toHost
        /\ \E first \in 1..(Len(Pipeline) + 1), last \in 0..Len(Pipeline) :
             Pipeline' = SubSeq(Pipeline, first, last)
    BY <1>1, <1>3, LeavesAPart
  <2>2. online' \in BOOLEAN
    BY DEF FirmwareInv, FirmwareTypeOK, NetworkTypeOK
  <2>3. UNCHANGED Abstract!driverVars
    BY <1>1 DEF driverVars, Abstract!driverVars
  <2>. QED  BY <2>1, <2>2, <2>3 DEF Abstract!DeviceLoses, Abstract!Device!Lose
<1>. QED  BY <1>2, <1>3

(* The script with the ESP32 behaves as the script with the FIFO device,    *)
(* for every bound on faults and retransmissions.                           *)
THEOREM SystemImplementsValidation == Spec => ImplementsValidation
<1>1. Init => Abstract!Init
  <2>. SUFFICES ASSUME Init PROVE Abstract!Init
    OBVIOUS
  <2>1. Pipeline = <<>>
    <3>1. Pipeline = <<>> \o <<>> \o <<>> \o <<>> \o <<>>
      BY DEF Init, FirmwareInit, Pipeline
    <3>. QED  BY <3>1, EmptyConcat
  <2>2. Abstract!DriverInit
    BY DEF Init, DriverInit, Abstract!DriverInit, Ids, Abstract!Ids
  <2>3. online \in BOOLEAN
    BY DEF Init, FirmwareInit
  <2>. QED  BY <2>1, <2>2, <2>3 DEF Abstract!Init
<1>2. /\ DriverInv /\ FirmwareInv /\ (DriverInv /\ FirmwareInv)' /\ [Next]_vars
      => [Abstract!Next]_(Abstract!vars)
  <2>. SUFFICES ASSUME DriverInv, FirmwareInv, FirmwareInv', [Next]_vars
                PROVE  [Abstract!Next]_(Abstract!vars)
    OBVIOUS
  <2>1. CASE ScriptStep
    BY <2>1, MainImplements, OnMessageImplements DEF ScriptStep, Abstract!Next
  <2>2. CASE \E r \in Ids : TimerStep(r)
    BY <2>2, TimerImplements DEF Abstract!Next, Ids, Abstract!Ids
  <2>3. CASE FirmwareStep
    BY <2>3, FirmwareImplements DEF Abstract!Next
  <2>4. CASE UNCHANGED vars
    <3>1. Pipeline' = Pipeline
      BY <2>4, SameParts DEF vars, firmwareVars
    <3>. QED  BY <2>4, <3>1 DEF vars, driverVars, Abstract!vars
  <2>. QED  BY <2>1, <2>2, <2>3, <2>4 DEF Next
<1>. QED  BY <1>1, <1>2, SystemInvariance, PTL
          DEF Spec, ImplementsValidation, Abstract!Spec

-----------------------------------------------------------------------------
(* The order of the rows, while no timer fires.                             *)

Rising(s) == \A j, k \in 1..Len(s) : j < k => s[j] < s[k]
Below(s, t) == \A j \in 1..Len(s), k \in 1..Len(t) : s[j] < t[k]

(* A part of a sequence has its order, and so have two that are joined.     *)
LEMMA PartOrder ==
  ASSUME NEW s \in Seq(Nat), NEW first \in 1..(Len(s) + 1), NEW last \in 0..Len(s)
  PROVE  /\ SubSeq(s, first, last) \in Seq(Nat)
         /\ Rising(s) => Rising(SubSeq(s, first, last))
         /\ \A t \in Seq(Nat) : /\ Below(s, t) => Below(SubSeq(s, first, last), t)
                                /\ Below(t, s) => Below(t, SubSeq(s, first, last))
<1> DEFINE part == SubSeq(s, first, last)
<1>1. Len(s) \in Nat
  BY LenProperties
<1>2. \A k \in first..last : s[k] \in Nat
  BY <1>1, ElementOfSeq
<1>3. /\ part \in Seq(Nat)
      /\ Len(part) = IF first <= last THEN last - first + 1 ELSE 0
      /\ \A k \in 1..(last - first + 1) : part[k] = s[first + k - 1]
  BY <1>1, <1>2, SubSeqProperties
<1>. HIDE DEF part
<1>4. \A k \in 1..Len(part) : first + k - 1 \in 1..Len(s) /\ part[k] = s[first + k - 1]
  BY <1>1, <1>3
<1>5. Len(part) \in Nat
  BY <1>1, <1>3
<1>6. Rising(s) => Rising(part)
  <2>. SUFFICES ASSUME Rising(s), NEW j \in 1..Len(part), NEW k \in 1..Len(part), j < k
                PROVE  part[j] < part[k]
    BY DEF Rising
  <2>1. first + j - 1 < first + k - 1
    BY <1>5
  <2>2. s[first + j - 1] < s[first + k - 1]
    BY <1>4, <2>1 DEF Rising
  <2>. QED  BY <1>4, <2>2
<1>7. \A t \in Seq(Nat) : (Below(s, t) => Below(part, t)) /\ (Below(t, s) => Below(t, part))
  BY <1>1, <1>4, <1>5 DEF Below
<1>. QED  BY <1>3, <1>6, <1>7 DEF part

LEMMA JoinOrder ==
  ASSUME NEW s \in Seq(Nat), NEW t \in Seq(Nat)
  PROVE  /\ s \o t \in Seq(Nat)
         /\ Rising(s) /\ Rising(t) /\ Below(s, t) => Rising(s \o t)
         /\ \A u \in Seq(Nat) : /\ Below(s, u) /\ Below(t, u) => Below(s \o t, u)
                                /\ Below(u, s) /\ Below(u, t) => Below(u, s \o t)
<1> DEFINE both == s \o t
<1>1. Len(s) \in Nat /\ Len(t) \in Nat
  BY LenProperties
<1>2. /\ both \in Seq(Nat)
      /\ Len(both) = Len(s) + Len(t)
      /\ \A k \in 1..(Len(s) + Len(t)) :
           both[k] = IF k <= Len(s) THEN s[k] ELSE t[k - Len(s)]
  BY ConcatProperties
<1>. HIDE DEF both
<1>3. \A k \in 1..Len(both) : \/ k \in 1..Len(s) /\ both[k] = s[k]
                              \/ k > Len(s) /\ k - Len(s) \in 1..Len(t) /\ both[k] = t[k - Len(s)]
  BY <1>1, <1>2
<1>4. ASSUME Rising(s), Rising(t), Below(s, t), NEW j \in 1..Len(both), NEW k \in 1..Len(both), j < k
      PROVE  both[j] < both[k]
  <2>1. CASE k \in 1..Len(s) /\ both[k] = s[k]
    <3>1. j \in 1..Len(s) /\ both[j] = s[j]
      BY <1>1, <1>2, <1>3, <1>4, <2>1
    <3>. QED  BY <1>4, <2>1, <3>1 DEF Rising
  <2>2. CASE k > Len(s) /\ k - Len(s) \in 1..Len(t) /\ both[k] = t[k - Len(s)]
    <3>1. CASE j \in 1..Len(s) /\ both[j] = s[j]
      BY <1>4, <2>2, <3>1 DEF Below
    <3>2. CASE j > Len(s) /\ j - Len(s) \in 1..Len(t) /\ both[j] = t[j - Len(s)]
      <4>1. j - Len(s) < k - Len(s)
        BY <1>1, <1>2, <1>4
      <4>. QED  BY <1>4, <2>2, <3>2, <4>1 DEF Rising
    <3>. QED  BY <1>3, <3>1, <3>2
  <2>. QED  BY <1>3, <2>1, <2>2
<1>5. Rising(s) /\ Rising(t) /\ Below(s, t) => Rising(both)
  BY <1>4 DEF Rising
<1>6. \A u \in Seq(Nat) : /\ Below(s, u) /\ Below(t, u) => Below(both, u)
                          /\ Below(u, s) /\ Below(u, t) => Below(u, both)
  BY <1>3 DEF Below
<1>. QED  BY <1>2, <1>5, <1>6 DEF both

(* The oldest message that is taken leaves the younger ones.                *)
LEMMA HeadOrder ==
  ASSUME NEW s \in Seq(Nat), s # <<>>, Rising(s)
  PROVE  /\ <<Head(s)>> \in Seq(Nat) /\ Tail(s) \in Seq(Nat)
         /\ Rising(<<Head(s)>>) /\ Rising(Tail(s)) /\ Below(<<Head(s)>>, Tail(s))
         /\ \A t \in Seq(Nat) :
              /\ Below(s, t) => Below(<<Head(s)>>, t) /\ Below(Tail(s), t)
              /\ Below(t, s) => Below(t, <<Head(s)>>) /\ Below(t, Tail(s))
<1> DEFINE first == <<Head(s)>>
<1>1. /\ Head(s) \in Nat /\ Tail(s) \in Seq(Nat)
      /\ Len(Tail(s)) = Len(s) - 1
      /\ \A k \in 1..Len(Tail(s)) : Tail(s)[k] = s[k + 1]
      /\ Len(s) \in Nat \ {0} /\ Head(s) = s[1]
  BY HeadTailProperties, EmptySeq
<1>2. first \in Seq(Nat) /\ Len(first) = 1 /\ first[1] = s[1]
  BY <1>1
<1>. HIDE DEF first
<1>3. \A k \in 1..Len(first) : first[k] = s[1] /\ k = 1
  BY <1>2
<1>4. 1 \in 1..Len(s) /\ \A k \in 1..Len(Tail(s)) : k + 1 \in 1..Len(s) /\ 1 < k + 1
  BY <1>1
<1>5. Rising(first) /\ Rising(Tail(s)) /\ Below(first, Tail(s))
  BY <1>1, <1>3, <1>4 DEF Rising, Below
<1>6. \A t \in Seq(Nat) : /\ Below(s, t) => Below(first, t) /\ Below(Tail(s), t)
                          /\ Below(t, s) => Below(t, first) /\ Below(t, Tail(s))
  BY <1>1, <1>3, <1>4 DEF Below
<1>. QED  BY <1>1, <1>2, <1>5, <1>6 DEF first

(* The rows that have been published.                                       *)
Published == IF main \in {"append", "start"} THEN row + 1 ELSE row

(* Recorded, being recorded, answered, requested, not published: five       *)
(* stages, and each row in one stage is above all in the stages before it.  *)
Line(r, a, h, p) ==
  /\ Rising(r) /\ Rising(a) /\ Rising(h) /\ Rising(p)
  /\ Below(r, a) /\ Below(r, h) /\ Below(r, p)
  /\ Below(a, h) /\ Below(a, p) /\ Below(h, p)

LineInv ==
  /\ Line(results, answer, toHost, Pipeline)
  /\ \A s \in {results, answer, toHost, Pipeline} : Below(s, <<Published>>)

LEMMA LineTypes ==
  ASSUME DriverInv, FirmwareInv
  PROVE  /\ results \in Seq(Nat) /\ answer \in Seq(Nat) /\ toHost \in Seq(Nat)
         /\ Pipeline \in Seq(Nat) /\ <<Published>> \in Seq(Nat) /\ row \in Nat
<1>1. Ids \subseteq Nat
  BY NetworkAssumption DEF Ids
<1>2. \A s : s \in Seq(Ids) => s \in Seq(Nat)
  BY <1>1, SeqMonotonic
<1>3. results \in Seq(Ids) /\ answer \in Seq(Ids) /\ toHost \in Seq(Ids) /\ row \in 0..Rows
  BY DEF DriverInv, DriverTypeOK, NetworkTypeOK
<1>4. Pipeline \in Seq(Ids)
  BY Parts
<1>5. row \in Nat /\ Published \in Nat
  BY <1>3, NetworkAssumption DEF Published
<1>. QED  BY <1>2, <1>3, <1>4, <1>5

(* What was published before the next row stays below it.                   *)
LEMMA NextRow ==
  ASSUME NEW n \in Nat, NEW s \in Seq(Nat), Below(s, <<n>>)
  PROVE  Below(s, <<n + 1>>)
<1>1. Len(<<n>>) = 1 /\ Len(<<n + 1>>) = 1 /\ <<n>>[1] = n /\ <<n + 1>>[1] = n + 1
  OBVIOUS
<1>2. \A j \in 1..Len(s) : s[j] < n /\ s[j] \in Nat
  BY <1>1, ElementOfSeq DEF Below
<1>. QED  BY <1>1, <1>2 DEF Below

LEMMA PublishKeepsLine ==
  ASSUME DriverInv, FirmwareInv, LineInv, PublishRow, UNCHANGED firmwareVars
  PROVE  LineInv'
<1>1. /\ main = "publish" /\ main' = "append"
      /\ UNCHANGED <<row, results, answer, toHost>>
      /\ UNCHANGED <<outbox, predicting, queue, delivering>>
  BY DEF PublishRow, firmwareVars
<1>2. Published = row /\ Published' = row + 1
  BY <1>1 DEF Published
<1>3. /\ results \in Seq(Nat) /\ answer \in Seq(Nat) /\ toHost \in Seq(Nat)
      /\ Pipeline \in Seq(Nat) /\ <<row>> \in Seq(Nat) /\ row \in Nat
  BY <1>2, LineTypes
<1>4. \A s \in {results, answer, toHost, Pipeline} : Below(s, <<row>>) /\ Below(s, <<row + 1>>)
  BY <1>2, <1>3, NextRow DEF LineInv
<1>5. CASE Pipeline' = Pipeline
  BY <1>1, <1>2, <1>4, <1>5 DEF LineInv
<1>6. CASE Pipeline' = Pipeline \o <<row>>
  <2>1. Rising(<<row>>) /\ Below(<<row>>, <<row + 1>>)
    <3>1. Len(<<row>>) = 1 /\ Len(<<row + 1>>) = 1 /\ <<row>>[1] = row /\ <<row + 1>>[1] = row + 1
      OBVIOUS
    <3>. QED  BY <1>3, <3>1 DEF Rising, Below
  <2>2. <<row + 1>> \in Seq(Nat)
    BY <1>3
  <2>3. Line(results, answer, toHost, Pipeline)
    BY DEF LineInv
  <2>4. Rising(Pipeline \o <<row>>) /\ Below(Pipeline \o <<row>>, <<row + 1>>)
    BY <1>3, <1>4, <2>1, <2>2, <2>3, JoinOrder DEF Line
  <2>5. \A s \in {results, answer, toHost} : Below(s, Pipeline \o <<row>>)
    BY <1>3, <1>4, <2>3, JoinOrder DEF Line
  <2>. QED  BY <1>1, <1>2, <1>4, <1>6, <2>3, <2>4, <2>5 DEF LineInv, Line
<1>7. Pipeline' = Pipeline \/ Pipeline' = Pipeline \o <<row>>
  <2>1. row \in Ids
    BY <1>1, NetworkAssumption DEF DriverInv, DriverTypeOK, RowInv, Ids
  <2>2. toDevice' = toDevice \/ toDevice' = Append(toDevice, row)
    BY DEF PublishRow, Publish, RouteToDevice
  <2>3. Pipeline \in Seq(Ids)
    BY Parts
  <2>. QED  BY <1>1, <2>1, <2>2, <2>3, SameParts, PublishEnters, AppendIsConcat
<1>. QED  BY <1>5, <1>6, <1>7

LEMMA ScriptKeepsLine ==
  ASSUME DriverInv, FirmwareInv, LineInv, ScriptStep
  PROVE  LineInv'
<1>1. UNCHANGED firmwareVars
  BY DEF ScriptStep
<1>2. UNCHANGED toDevice => Pipeline' = Pipeline
  BY <1>1, SameParts DEF firmwareVars
<1>3. /\ results \in Seq(Nat) /\ answer \in Seq(Nat) /\ toHost \in Seq(Nat)
      /\ Pipeline \in Seq(Nat) /\ <<Published>> \in Seq(Nat)
  BY LineTypes
<1>4. /\ Line(results, answer, toHost, Pipeline)
      /\ \A s \in {results, answer, toHost, Pipeline} : Below(s, <<Published>>)
  BY DEF LineInv
<1>5. Rising(<<>>) /\ \A s : Below(<<>>, s) /\ Below(s, <<>>)
  BY DEF Rising, Below
<1>6. CASE PublishRow
  BY <1>1, <1>6, PublishKeepsLine
<1>7. CASE DefineLists \/ EnterWindow \/ AppendSent \/ StartTimer \/ EndOfRows
             \/ Drained \/ LoopStop \/ Report \/ CancelTimer \/ DeleteSent
  <2>1. UNCHANGED <<toDevice, results, answer, toHost>>
    BY <1>7 DEF DefineLists, EnterWindow, AppendSent, StartTimer, EndOfRows, Drained, LoopStop,
                Report, CancelTimer, DeleteSent
  <2>2. Published' = Published
    BY <1>7 DEF DefineLists, EnterWindow, AppendSent, StartTimer, EndOfRows, Drained, LoopStop,
                Report, CancelTimer, DeleteSent, Published
  <2>. QED  BY <1>2, <2>1, <2>2 DEF LineInv
<1>8. CASE HandlerDies \/ IgnoreAnswer \/ FindRow
  <2>1. /\ toHost # <<>> /\ toHost' = Tail(toHost)
        /\ UNCHANGED <<main, row, results, toDevice>>
        /\ answer' = answer \/ answer' = <<Head(toHost)>>
    BY <1>8 DEF HandlerDies, IgnoreAnswer, FindRow
  <2>2. Published' = Published
    BY <2>1 DEF Published
  <2>3. /\ Rising(<<Head(toHost)>>) /\ Rising(Tail(toHost))
        /\ Below(<<Head(toHost)>>, Tail(toHost))
        /\ \A t \in Seq(Nat) :
              /\ Below(toHost, t) => Below(<<Head(toHost)>>, t) /\ Below(Tail(toHost), t)
              /\ Below(t, toHost) => Below(t, <<Head(toHost)>>) /\ Below(t, Tail(toHost))
    BY <1>3, <1>4, <2>1, HeadOrder DEF Line
  <2>4. /\ Line(results, answer, Tail(toHost), Pipeline)
        /\ Line(results, <<Head(toHost)>>, Tail(toHost), Pipeline)
    BY <1>3, <1>4, <2>3 DEF Line
  <2>5. Below(Tail(toHost), <<Published>>) /\ Below(<<Head(toHost)>>, <<Published>>)
    BY <1>3, <1>4, <2>3
  <2>. QED  BY <1>2, <1>4, <2>1, <2>2, <2>4, <2>5 DEF LineInv
<1>9. CASE RecordResult
  <2>1. /\ results' = results \o answer /\ answer' = <<>>
        /\ UNCHANGED <<main, row, toHost, toDevice>>
    BY <1>9 DEF RecordResult
  <2>2. Published' = Published
    BY <2>1 DEF Published
  <2>3. /\ Rising(results \o answer)
        /\ Below(results \o answer, toHost) /\ Below(results \o answer, Pipeline)
        /\ Below(results \o answer, <<Published>>)
    BY <1>3, <1>4, JoinOrder DEF Line
  <2>4. Line(results \o answer, <<>>, toHost, Pipeline)
    BY <1>4, <1>5, <2>3 DEF Line
  <2>. QED  BY <1>2, <1>4, <1>5, <2>1, <2>2, <2>3, <2>4 DEF LineInv
<1>. QED  BY <1>6, <1>7, <1>8, <1>9 DEF ScriptStep, Main, OnMessage

LEMMA FirmwareKeepsLine ==
  ASSUME DriverInv, FirmwareInv, FirmwareInv', LineInv, FirmwareStep
  PROVE  LineInv'
<1>1. FirmwareNext /\ UNCHANGED <<main, row, results, answer>>
  BY DEF FirmwareStep, driverVars
<1>2. Published' = Published
  BY <1>1 DEF Published
<1>3. /\ results \in Seq(Nat) /\ answer \in Seq(Nat) /\ toHost \in Seq(Nat)
      /\ Pipeline \in Seq(Nat) /\ <<Published>> \in Seq(Nat)
  BY LineTypes
<1>4. /\ Line(results, answer, toHost, Pipeline)
      /\ \A s \in {results, answer, toHost, Pipeline} : Below(s, <<Published>>)
  BY DEF LineInv
<1>5. CASE SendAnswer /\ online
  <2> DEFINE oldest == <<Head(Pipeline)>>
             rest == Tail(Pipeline)
             sentOn == toHost \o oldest
  <2>1. /\ Pipeline # <<>> /\ Pipeline' = rest
        /\ toHost' = Append(toHost, Head(Pipeline))
    BY <1>5, SendsTheOldest
  <2>2. /\ oldest \in Seq(Nat) /\ rest \in Seq(Nat)
        /\ Rising(oldest) /\ Rising(rest) /\ Below(oldest, rest)
        /\ \A t \in Seq(Nat) :
              /\ Below(Pipeline, t) => Below(oldest, t) /\ Below(rest, t)
              /\ Below(t, Pipeline) => Below(t, oldest) /\ Below(t, rest)
    BY <1>3, <1>4, <2>1, HeadOrder DEF Line
  <2>3. Head(Pipeline) \in Nat
    BY <1>3, <2>1, HeadTailProperties
  <2>4. toHost' = sentOn
    BY <1>3, <2>1, <2>3, AppendIsConcat
  <2>. HIDE DEF oldest, rest
  <2>5. /\ \A s \in {results, answer, toHost} : Below(s, oldest) /\ Below(s, rest)
        /\ Below(oldest, <<Published>>) /\ Below(rest, <<Published>>)
    BY <1>3, <1>4, <2>2 DEF Line
  <2>6. /\ Rising(sentOn) /\ Below(sentOn, rest) /\ Below(sentOn, <<Published>>)
        /\ Below(results, sentOn) /\ Below(answer, sentOn)
    BY <1>3, <1>4, <2>2, <2>5, JoinOrder DEF Line
  <2>. HIDE DEF sentOn
  <2>7. Line(results, answer, sentOn, rest)
    BY <1>4, <2>2, <2>5, <2>6 DEF Line
  <2>. QED  BY <1>1, <1>2, <1>4, <2>1, <2>4, <2>5, <2>6, <2>7 DEF LineInv
<1>6. CASE ~(SendAnswer /\ online)
  <2>1. PICK first \in 1..(Len(Pipeline) + 1), last \in 0..Len(Pipeline) :
          Pipeline' = SubSeq(Pipeline, first, last)
    BY <1>1, <1>6, LeavesAPart
  <2>2. toHost' = toHost
    BY <1>1, <1>6, LeavesAPart
  <2>3. /\ Rising(Pipeline')
        /\ \A t \in Seq(Nat) : /\ Below(Pipeline, t) => Below(Pipeline', t)
                               /\ Below(t, Pipeline) => Below(t, Pipeline')
    BY <1>3, <1>4, <2>1, PartOrder DEF Line
  <2>4. Line(results, answer, toHost, Pipeline')
    BY <1>3, <1>4, <2>3 DEF Line
  <2>5. Below(Pipeline', <<Published>>)
    BY <1>3, <1>4, <2>3
  <2>. QED  BY <1>1, <1>2, <1>4, <2>2, <2>4, <2>5 DEF LineInv
<1>. QED  BY <1>5, <1>6

(* As long as every answer comes in time, whatever is lost on the way and   *)
(* whenever the device restarts, the predictions are recorded in the order  *)
(* of the rows.                                                             *)
THEOREM RecordedInOrderWhilePrompt ==
  ASSUME StaleAnswers = {<<>>}
  PROVE  PromptSpec => []RecordedInOrder
<1>1. Init => DriverInv /\ FirmwareInv /\ LineInv
  <2>. SUFFICES ASSUME Init PROVE DriverInv /\ FirmwareInv /\ LineInv
    OBVIOUS
  <2>1. results = <<>> /\ answer = <<>> /\ toHost = <<>>
    BY DEF Init, DriverInit
  <2>2. Pipeline = <<>>
    <3>1. Pipeline = <<>> \o <<>> \o <<>> \o <<>> \o <<>>
      BY DEF Init, FirmwareInit, Pipeline
    <3>. QED  BY <3>1, EmptyConcat
  <2>3. Rising(<<>>) /\ \A s : Below(<<>>, s)
    BY DEF Rising, Below
  <2>. QED  BY <2>1, <2>2, <2>3, FirmwareInitInv DEF LineInv, Line
<1>2. /\ DriverInv /\ FirmwareInv /\ LineInv /\ [ScriptStep \/ FirmwareStep]_vars
      => (DriverInv /\ FirmwareInv /\ LineInv)'
  <2>. SUFFICES ASSUME DriverInv, FirmwareInv, LineInv, [ScriptStep \/ FirmwareStep]_vars
                PROVE  (DriverInv /\ FirmwareInv /\ LineInv)'
    OBVIOUS
  <2>1. CASE ScriptStep
    BY <2>1, ScriptSidePreserves, ScriptKeepsLine
  <2>2. CASE FirmwareStep
    BY <2>2, FirmwareStepPreserves, FirmwareKeepsLine
  <2>3. CASE UNCHANGED vars
    <3>1. Pipeline' = Pipeline
      BY <2>3, SameParts DEF vars, firmwareVars
    <3>2. LineInv'
      BY <2>3, <3>1 DEF LineInv, Published, vars, driverVars
    <3>. QED  BY <2>3, <3>2, StutterPreserves
  <2>. QED  BY <2>1, <2>2, <2>3
<1>3. DriverInv /\ LineInv => RecordedInOrder
  <2>. SUFFICES ASSUME DriverInv, LineInv PROVE RecordedInOrder
    OBVIOUS
  <2>1. DOMAIN results = 1..Len(results)
    BY DEF DriverInv, DriverTypeOK
  <2>. QED  BY <2>1 DEF LineInv, Line, Rising, RecordedInOrder
<1>. QED  BY <1>1, <1>2, <1>3, PTL DEF PromptSpec
=============================================================================
