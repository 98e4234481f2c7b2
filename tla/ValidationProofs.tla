-------------------------- MODULE ValidationProofs --------------------------
(* The script keeps its properties with any device that keeps the promise   *)
(* of module EchoDevice, for every number of rows, every window, every set  *)
(* of stale answers and every bound on the retransmissions.                 *)
EXTENDS Validation, DriverProofs

LEMMA DevicePreserves ==
  ASSUME DriverInv, DeviceAnswers \/ DeviceLoses
  PROVE  DriverInv'
<1>1. toDevice \in Seq(Ids) /\ toHost \in Seq(Ids) /\ online \in BOOLEAN
  BY DEF DriverInv, DriverTypeOK, NetworkTypeOK
<1>2. CASE DeviceAnswers
  <2>1. /\ toDevice # <<>>
        /\ toHost' = Append(toHost, Head(toDevice))
        /\ toDevice' = Tail(toDevice)
        /\ UNCHANGED <<driverVars, online>>
    BY <1>2 DEF DeviceAnswers, Device!Answer
  <2>2. Head(toDevice) \in Ids /\ toDevice' \in Seq(Ids)
    BY <1>1, <2>1, HeadTailProperties
  <2>3. toHost' \in Seq(Ids)
    BY <1>1, <2>1, <2>2, AppendProperties
  <2>. QED  BY <1>1, <2>1, <2>2, <2>3, PipesPreserve DEF NetworkTypeOK
<1>3. CASE DeviceLoses
  <2>1. PICK first \in 1..(Len(toDevice) + 1), last \in 0..Len(toDevice) :
          toDevice' = SubSeq(toDevice, first, last)
    BY <1>3 DEF DeviceLoses, Device!Lose
  <2>2. Len(toDevice) \in Nat
    BY <1>1, LenProperties
  <2>3. \A i \in first..last : toDevice[i] \in Ids
    BY <1>1, <2>2, ElementOfSeq
  <2>4. first \in Int /\ last \in Int
    BY <2>2
  <2>5. SubSeq(toDevice, first, last) \in Seq(Ids)
    BY <2>3, <2>4, SubSeqProperties
  <2>6. toDevice' \in Seq(Ids)
    BY <2>1, <2>5
  <2>7. toHost' = toHost /\ online' \in BOOLEAN /\ UNCHANGED driverVars
    BY <1>3 DEF DeviceLoses, Device!Lose
  <2>. QED  BY <1>1, <2>6, <2>7, PipesPreserve DEF NetworkTypeOK
<1>. QED  BY <1>2, <1>3

(* The inductive invariant holds in every state of a validation run.        *)
THEOREM DriverInvariance == Spec => []DriverInv
<1>1. Init => DriverInv
  BY DriverInitInv DEF Init
<1>2. DriverInv /\ [Next]_vars => DriverInv'
  <2> SUFFICES ASSUME DriverInv, [Next]_vars
               PROVE  DriverInv'
    OBVIOUS
  <2>1. CASE Main
    BY <2>1, MainPreserves
  <2>2. CASE OnMessage
    BY <2>2, OnMessagePreserves
  <2>3. CASE \E r \in Ids : Timers(r)
    BY <2>3, TimerPreserves DEF Timers
  <2>4. CASE DeviceAnswers \/ DeviceLoses
    BY <2>4, DevicePreserves
  <2>5. CASE UNCHANGED vars
    <3>1. UNCHANGED driverVars /\ UNCHANGED <<toDevice, toHost, online>>
      BY <2>5 DEF vars, driverVars
    <3>2. NetworkTypeOK'
      BY <3>1 DEF DriverInv, DriverTypeOK, NetworkTypeOK
    <3>. QED  BY <3>1, <3>2, PipesPreserve
  <2>. QED  BY <2>1, <2>2, <2>3, <2>4, <2>5 DEF Next
<1>. QED  BY <1>1, <1>2, PTL DEF Spec

(* Type correctness of the script's state.                                  *)
THEOREM TypeCorrect == Spec => []DriverTypeOK
<1>1. DriverInv => DriverTypeOK
  BY DEF DriverInv
<1>. QED  BY <1>1, DriverInvariance, PTL

(* However often a row is retransmitted and answered, on_message appends    *)
(* one prediction for it, and the row then waits for no other.              *)
THEOREM EachRowRecordedOnce == Spec => []RecordedOnce
<1>1. DriverInv => RecordedOnce
  BY InvRecordedOnce
<1>. QED  BY <1>1, DriverInvariance, PTL

(* The position on_message found is that of the answered row until the      *)
(* entry is deleted, although the main thread appends without a lock.       *)
THEOREM IndexNeverStale == Spec => []IndexStillValid
<1>1. DriverInv => IndexStillValid
  BY InvIndexStillValid
<1>. QED  BY <1>1, DriverInvariance, PTL

(* A row that waits for its prediction has a timer that will ask for it     *)
(* again.                                                                   *)
THEOREM NoRowForgotten == Spec => []UnansweredWillBeResent
<1>1. DriverInv => UnansweredWillBeResent
  BY DEF DriverInv
<1>. QED  BY <1>1, DriverInvariance, PTL

(* The report is made from one prediction per row.                          *)
THEOREM ReportsAreComplete == Spec => []ReportComplete
<1>1. DriverInv => ReportComplete
  BY InvReportComplete
<1>. QED  BY <1>1, DriverInvariance, PTL

-----------------------------------------------------------------------------
(* The script implements the abstract run of module Collection.             *)

issuedBar == IF main \in {"append", "start"} THEN row + 1 ELSE row
reportedBar == main \in {"report", "done"}

(* The rows issued and not collected are all in sent, so there are no more  *)
(* of them than entries in the list.                                        *)
LEMMA WaitingFitsSent ==
  ASSUME DriverInv, main = "publish"
  PROVE  Cardinality((0..(row - 1)) \ Recorded) < Window
<1> DEFINE waiting == (0..(row - 1)) \ Recorded
<1>1. DriverTypeOK /\ RowInv /\ CompleteInv /\ WindowRespected
  BY DEF DriverInv
<1>2. /\ Len(sent) \in Nat
      /\ DOMAIN sent = 1..Len(sent)
      /\ DOMAIN results = 1..Len(results)
      /\ row \in Nat
      /\ row < Rows
      /\ Ahead = row
      /\ sent \in [1..Len(sent) -> Ids]
  BY <1>1, ListTypes, LenProperties DEF RowInv, Ahead, DriverTypeOK
<1>3. waiting \subseteq ToSet(sent)
  <2> SUFFICES ASSUME NEW r \in 0..(row - 1), r \notin Recorded
               PROVE  r \in ToSet(sent)
    OBVIOUS
  <2>1. r \in Ids /\ r < Ahead
    BY <1>2, NetworkAssumption DEF Ids
  <2>2. ~ \E k \in 1..Len(results) : results[k] = r
    BY <1>2 DEF Recorded, ToSet
  <2>3. ~(handler = "deleted" /\ answer = <<r>>)
    <3> SUFFICES ASSUME handler = "deleted", answer = <<r>>
                 PROVE  FALSE
      OBVIOUS
    <3>1. r \in ToSet(answer)
      BY DEF ToSet
    <3>. QED  BY <3>1 DEF Recorded
  <2>4. \E k \in 1..Len(sent) : sent[k] = r
    BY <2>1, <2>2, <2>3, <1>1 DEF CompleteInv
  <2>. QED  BY <2>4, <1>2 DEF ToSet
<1>4. sent \in Surjection(1..Len(sent), ToSet(sent))
  BY <1>2 DEF Surjection, ToSet
<1>5. IsFiniteSet(1..Len(sent)) /\ Cardinality(1..Len(sent)) = Len(sent)
  <2>1. 1 \in Int /\ Len(sent) \in Int
    BY <1>2
  <2>2. /\ IsFiniteSet(1..Len(sent))
        /\ Cardinality(1..Len(sent)) = IF 1 > Len(sent) THEN 0 ELSE Len(sent) - 1 + 1
    BY <2>1, FS_Interval
  <2>. QED  BY <2>2, <1>2
<1>6. IsFiniteSet(ToSet(sent)) /\ Cardinality(ToSet(sent)) <= Len(sent)
  BY <1>4, <1>5, FS_Surjection
<1> HIDE DEF waiting
<1>7. IsFiniteSet(waiting) /\ Cardinality(waiting) <= Cardinality(ToSet(sent))
  BY <1>3, <1>6, FS_Subset
<1>8. Cardinality(waiting) \in Nat /\ Cardinality(ToSet(sent)) \in Nat
  BY <1>6, <1>7, FS_CardinalityType
<1>9. Len(sent) < Window
  BY <1>1, <1>2, DriverAssumption DEF WindowRespected, Outstanding
<1>10. Cardinality(waiting) < Window
  BY <1>2, <1>6, <1>7, <1>8, <1>9, DriverAssumption
<1>. QED  BY <1>10 DEF waiting

(* del sent[i] is the moment a row is collected.                            *)
LEMMA DeleteCollects ==
  ASSUME DriverInv, DeleteSent
  PROVE  /\ \E r \in (0..(issuedBar - 1)) \ Recorded : Recorded' = Recorded \cup {r}
         /\ UNCHANGED <<issuedBar, reportedBar>>
<1>1. DriverTypeOK /\ RowInv /\ SentInv /\ HandlerInv /\ ResultsInv
  BY DEF DriverInv
<1>2. /\ index \in 1..Len(sent)
      /\ answer = <<sent[index]>>
      /\ sent[index] \in Nat
      /\ sent[index] < Ahead
      /\ row \in Nat
      /\ DOMAIN results = 1..Len(results)
  BY <1>1, ListTypes DEF DeleteSent, HandlerInv, SentInv
<1>3. sent[index] \in 0..(issuedBar - 1)
  BY <1>2 DEF Ahead, issuedBar
<1>4. Recorded = ToSet(results)
  BY DEF DeleteSent, Recorded
<1>5. sent[index] \notin ToSet(results)
  BY <1>1, <1>2 DEF ResultsInv, ToSet
<1>6. ToSet(<<sent[index]>>) = {sent[index]}
  BY DEF ToSet
<1>7. Recorded' = ToSet(results) \cup {sent[index]}
  BY <1>2, <1>6 DEF DeleteSent, Recorded
<1>8. UNCHANGED <<issuedBar, reportedBar>>
  BY DEF DeleteSent, issuedBar, reportedBar
<1>. QED  BY <1>3, <1>4, <1>5, <1>7, <1>8

(* The append to ypred changes nothing the promise speaks of.               *)
LEMMA RecordStutters ==
  ASSUME DriverInv, RecordResult
  PROVE  UNCHANGED <<issuedBar, Recorded, reportedBar>>
<1>1. PICK r \in Ids : answer = <<r>>
  BY DEF DriverInv, HandlerInv, RecordResult
<1>2. results \in Seq(Ids) /\ <<r>> \in Seq(Ids) /\ Len(results) \in Nat
  BY LenProperties DEF DriverInv, DriverTypeOK
<1>3. results' = Append(results, r) /\ handler = "deleted" /\ handler' = "idle"
  BY <1>1, <1>2, AppendIsConcat DEF RecordResult
<1>4. /\ Len(results') = Len(results) + 1
      /\ \A k \in 1..Len(results) : results'[k] = results[k]
      /\ results'[Len(results) + 1] = r
      /\ DOMAIN results = 1..Len(results)
      /\ DOMAIN results' = 1..Len(results')
  BY <1>2, <1>3, AppendProperties, LenProperties
<1>5. ToSet(results') = ToSet(results) \cup {r}
  <2>1. \A q \in ToSet(results') : q \in ToSet(results) \cup {r}
    <3> SUFFICES ASSUME NEW k \in 1..Len(results')
                 PROVE  results'[k] \in ToSet(results) \cup {r}
      BY <1>4 DEF ToSet
    <3>1. CASE k \in 1..Len(results)
      BY <3>1, <1>4 DEF ToSet
    <3>2. CASE k = Len(results) + 1
      BY <3>2, <1>4
    <3>. QED  BY <3>1, <3>2, <1>2, <1>4
  <2>2. \A q \in ToSet(results) : q \in ToSet(results')
    <3> SUFFICES ASSUME NEW k \in 1..Len(results)
                 PROVE  results[k] \in ToSet(results')
      BY <1>4 DEF ToSet
    <3>1. k \in 1..Len(results') /\ results'[k] = results[k]
      BY <1>2, <1>4
    <3>. QED  BY <3>1, <1>4 DEF ToSet
  <2>3. r \in ToSet(results')
    <3>1. Len(results) + 1 \in 1..Len(results')
      BY <1>2, <1>4
    <3>. QED  BY <3>1, <1>4 DEF ToSet
  <2>. QED  BY <2>1, <2>2, <2>3
<1>6. ToSet(<<r>>) = {r}
  BY DEF ToSet
<1>7. Recorded' = Recorded
  BY <1>1, <1>3, <1>5, <1>6 DEF Recorded
<1>. QED  BY <1>7 DEF RecordResult, issuedBar, reportedBar

(* When loop_stop() has joined the thread of paho every row is collected.   *)
LEMMA JoinedIsComplete ==
  ASSUME DriverInv, LoopStop
  PROVE  /\ Recorded = 0..(Rows - 1)
         /\ reportedBar' = TRUE
         /\ UNCHANGED <<issuedBar, Recorded>>
<1>1. DriverTypeOK /\ RowInv /\ SentInv /\ CompleteInv
  BY DEF DriverInv
<1>2. /\ sent = <<>> /\ row = Rows /\ handler # "deleted" /\ Ahead = Rows
  BY <1>1 DEF LoopStop, SentInv, RowInv, Ahead
<1>3. /\ DOMAIN results = 1..Len(results)
      /\ \A k \in 1..Len(results) : results[k] \in Ids
      /\ \A r \in Ids : r < Rows
      /\ Len(sent) = 0
  BY <1>1, <1>2, ListTypes
<1>4. \A r \in Ids : \E k \in 1..Len(results) : results[k] = r
  BY <1>1, <1>2, <1>3 DEF CompleteInv
<1>5. ToSet(results) = Ids
  BY <1>3, <1>4 DEF ToSet
<1>. QED  BY <1>2, <1>5 DEF LoopStop, Recorded, Ids, issuedBar, reportedBar

(* Every step of a validation run is a step of the abstract run or leaves   *)
(* what it speaks of alone.                                                 *)
THEOREM ScriptKeepsPromise == Spec => KeepsPromise
<1>1. Init => Promise!CollectionInit
  <2> SUFFICES ASSUME Init
               PROVE  Promise!CollectionInit
    OBVIOUS
  <2>1. ToSet(<<>>) = {}
    BY DEF ToSet
  <2>. QED  BY <2>1 DEF Init, DriverInit, Promise!CollectionInit, Recorded
<1>2. DriverInv /\ [Next]_vars =>
        [Promise!CollectionNext]_<<issuedBar, Recorded, reportedBar>>
  <2> SUFFICES ASSUME DriverInv, [Next]_vars
               PROVE  [Promise!CollectionNext]_<<issuedBar, Recorded, reportedBar>>
    OBVIOUS
  <2>1. CASE DefineLists \/ EnterWindow \/ AppendSent \/ EndOfRows \/ Drained \/ Report
    BY <2>1 DEF DefineLists, EnterWindow, AppendSent, EndOfRows, Drained, Report,
                issuedBar, Recorded, reportedBar
  <2>2. CASE PublishRow
    <3>1. row < Rows
      BY <2>2 DEF PublishRow, DriverInv, RowInv
    <3>2. /\ main = "publish" /\ issuedBar = row /\ issuedBar' = row + 1
          /\ UNCHANGED <<Recorded, reportedBar>>
      BY <2>2 DEF PublishRow, issuedBar, Recorded, reportedBar
    <3>3. Cardinality((0..(row - 1)) \ Recorded) < Window
      BY <3>2, WaitingFitsSent
    <3>4. /\ (IF main \in {"append", "start"} THEN row + 1 ELSE row) = row
          /\ (IF main \in {"append", "start"} THEN row + 1 ELSE row)' = row + 1
          /\ UNCHANGED <<Recorded, main \in {"report", "done"}>>
      BY <3>2 DEF issuedBar, reportedBar
    <3>5. \A S : Promise!Cardinality(S) = Cardinality(S)
      BY DEF Promise!Cardinality, Cardinality
    <3>6. Promise!Issue
      BY <3>1, <3>3, <3>4, <3>5 DEF Promise!Issue
    <3>. QED  BY <3>6 DEF Promise!CollectionNext
  <2>3. CASE StartTimer
    BY <2>3 DEF StartTimer, issuedBar, Recorded, reportedBar
  <2>4. CASE LoopStop
    <3>1. Promise!MakeReport
      BY <2>4, JoinedIsComplete DEF Promise!MakeReport, issuedBar, reportedBar
    <3>. QED  BY <3>1 DEF Promise!CollectionNext
  <2>5. CASE HandlerDies \/ IgnoreAnswer \/ FindRow \/ CancelTimer
    BY <2>5 DEF HandlerDies, IgnoreAnswer, FindRow, CancelTimer,
                issuedBar, Recorded, reportedBar
  <2>6. CASE DeleteSent
    <3>1. Promise!CollectRow
      BY <2>6, DeleteCollects DEF Promise!CollectRow, issuedBar, reportedBar
    <3>. QED  BY <3>1 DEF Promise!CollectionNext
  <2>7. CASE RecordResult
    BY <2>7, RecordStutters
  <2>8. CASE \E r \in Ids : Timers(r)
    BY <2>8 DEF Timers, Expire, Resend, Rearm, issuedBar, Recorded, reportedBar
  <2>9. CASE DeviceAnswers \/ DeviceLoses
    BY <2>9 DEF DeviceAnswers, DeviceLoses, driverVars,
                issuedBar, Recorded, reportedBar
  <2>10. CASE UNCHANGED vars
    BY <2>10 DEF vars, issuedBar, Recorded, reportedBar
  <2>. QED  BY <2>1, <2>2, <2>3, <2>4, <2>5, <2>6, <2>7, <2>8, <2>9, <2>10
            DEF Next, Main, OnMessage
<1>. QED  BY <1>1, <1>2, DriverInvariance, PTL
          DEF Spec, KeepsPromise, Promise!CollectionSpec, issuedBar, reportedBar
=============================================================================
