---------------------------- MODULE DriverProofs ----------------------------
(* The inductive invariant of the script, for every number of rows, every   *)
(* window and every set of stale answers, and the proof that each step of   *)
(* the script preserves it.  The steps of the device only read and write    *)
(* the two pipes; modules ValidationProofs and SystemProofs add them.       *)
EXTENDS Driver, SequenceTheorems, FiniteSetTheorems, TLAPS

(* What RemoveAt does to the positions of a sequence.                       *)
LEMMA RemoveAtProperties ==
  ASSUME NEW S, NEW s \in Seq(S), NEW i \in 1..Len(s)
  PROVE  /\ RemoveAt(s, i) \in Seq(S)
         /\ Len(RemoveAt(s, i)) = Len(s) - 1
         /\ \A k \in 1..(Len(s) - 1) :
              RemoveAt(s, i)[k] = IF k < i THEN s[k] ELSE s[k + 1]
<1> DEFINE a == SubSeq(s, 1, i - 1)
           b == SubSeq(s, i + 1, Len(s))
<1>1. /\ a \in Seq(S)
      /\ Len(a) = i - 1
      /\ \A k \in 1..(i - 1) : a[k] = s[k]
  <2>1. \A k \in 1..(i - 1) : s[k] \in S
    BY ElementOfSeq
  <2>2. /\ SubSeq(s, 1, i - 1) \in Seq(S)
        /\ Len(SubSeq(s, 1, i - 1)) = IF 1 <= i - 1 THEN (i - 1) - 1 + 1 ELSE 0
        /\ \A k \in 1..((i - 1) - 1 + 1) : SubSeq(s, 1, i - 1)[k] = s[1 + k - 1]
    BY <2>1, SubSeqProperties
  <2>. QED  BY <2>2
<1>2. /\ b \in Seq(S)
      /\ Len(b) = Len(s) - i
      /\ \A k \in 1..(Len(s) - i) : b[k] = s[i + k]
  <2>1. \A k \in (i + 1)..Len(s) : s[k] \in S
    BY ElementOfSeq
  <2>2. /\ SubSeq(s, i + 1, Len(s)) \in Seq(S)
        /\ Len(SubSeq(s, i + 1, Len(s))) =
             IF i + 1 <= Len(s) THEN Len(s) - (i + 1) + 1 ELSE 0
        /\ \A k \in 1..(Len(s) - (i + 1) + 1) :
             SubSeq(s, i + 1, Len(s))[k] = s[(i + 1) + k - 1]
    BY <2>1, SubSeqProperties
  <2>. QED  BY <2>2
<1>3. RemoveAt(s, i) = a \o b
  BY DEF RemoveAt
<1> HIDE DEF a, b
<1>4. /\ a \o b \in Seq(S)
      /\ Len(a \o b) = Len(a) + Len(b)
      /\ \A k \in 1..(Len(a) + Len(b)) :
           (a \o b)[k] = IF k <= Len(a) THEN a[k] ELSE b[k - Len(a)]
  BY <1>1, <1>2, ConcatProperties
<1>5. \A k \in 1..(Len(s) - 1) :
        (a \o b)[k] = IF k < i THEN s[k] ELSE s[k + 1]
  BY <1>1, <1>2, <1>4
<1>. QED  BY <1>1, <1>2, <1>3, <1>4, <1>5

-----------------------------------------------------------------------------
(* The inductive invariant.                                                 *)

(* The rows below Ahead have been appended to sent.                         *)
Ahead == IF main = "start" THEN row + 1 ELSE row

RowInv ==
  /\ main \in {"publish", "append", "start"} => row < Rows
  /\ main \in {"drain", "join", "report", "done"} => row = Rows

(* sent is sorted, so a row is in it at most once.                          *)
SentInv ==
  /\ \A k \in 1..Len(sent) : sent[k] < Ahead
  /\ \A j, k \in 1..Len(sent) : j < k => sent[j] < sent[k]
  /\ main \in {"setup", "join", "report", "done"} => sent = <<>>

HandlerInv ==
  /\ handler \in {"found", "cancelled"} =>
       index \in 1..Len(sent) /\ answer = <<sent[index]>>
  /\ handler = "deleted" =>
       \E r \in Ids :
         /\ answer = <<r>>
         /\ r < Ahead
         /\ \A k \in 1..Len(sent) : sent[k] # r
         /\ \A k \in 1..Len(results) : results[k] # r
  /\ handler \in {"idle", "dead", "joined"} => answer = <<>>
  /\ handler = "joined" <=> main \in {"report", "done"}
  /\ main = "setup" => handler \in {"idle", "dead"}

ResultsInv ==
  /\ \A k \in 1..Len(results) : results[k] < Ahead
  /\ \A j, k \in 1..Len(results) : results[j] = results[k] => j = k
  /\ \A j \in 1..Len(results), k \in 1..Len(sent) : results[j] # sent[k]

(* No row that has been appended to sent has been forgotten.                *)
CompleteInv ==
  \A r \in Ids : r < Ahead =>
    \/ \E k \in 1..Len(sent) : sent[k] = r
    \/ \E k \in 1..Len(results) : results[k] = r
    \/ handler = "deleted" /\ answer = <<r>>

DriverInv ==
  /\ DriverTypeOK
  /\ RowInv
  /\ SentInv
  /\ HandlerInv
  /\ ResultsInv
  /\ CompleteInv
  /\ UnansweredWillBeResent
  /\ WindowRespected

-----------------------------------------------------------------------------
LEMMA DriverInitInv ==
  ASSUME DriverInit, toDevice = <<>>, online \in BOOLEAN
  PROVE  DriverInv
<1>1. DriverTypeOK
  BY NetworkAssumption, DriverAssumption
     DEF DriverInit, DriverTypeOK, NetworkTypeOK, MainPc, HandlerPc, TimerState, Ids
<1>2. RowInv /\ SentInv /\ HandlerInv /\ ResultsInv /\ CompleteInv
  BY NetworkAssumption
     DEF DriverInit, RowInv, SentInv, HandlerInv, ResultsInv, CompleteInv, Ahead, Ids
<1>3. UnansweredWillBeResent /\ WindowRespected
  BY DriverAssumption
     DEF DriverInit, UnansweredWillBeResent, WindowRespected, Outstanding
<1>. QED  BY <1>1, <1>2, <1>3 DEF DriverInv

(* The steps of the main thread that touch neither sent nor the timers.     *)
LEMMA MainPcPreserves ==
  ASSUME DriverInv,
         DefineLists \/ EnterWindow \/ PublishRow \/ EndOfRows \/ Drained
           \/ LoopStop \/ Report
  PROVE  DriverInv'
<1>. USE NetworkAssumption, DriverAssumption
     DEF DriverInv, DriverTypeOK, NetworkTypeOK, MainPc, HandlerPc, TimerState, Ids
<1>1. CASE DefineLists
  BY <1>1 DEF DefineLists, RowInv, SentInv, HandlerInv, ResultsInv, CompleteInv,
              Ahead, UnansweredWillBeResent, WindowRespected, Outstanding
<1>2. CASE EnterWindow
  BY <1>2 DEF EnterWindow, RowInv, SentInv, HandlerInv, ResultsInv, CompleteInv,
              Ahead, UnansweredWillBeResent, WindowRespected, Outstanding
<1>3. CASE PublishRow
  <2>1. DriverTypeOK'
    <3>1. row \in Ids
      BY <1>3 DEF PublishRow, RowInv
    <3>2. Append(toDevice, row) \in Seq(Ids)
      BY <3>1, AppendProperties
    <3>. QED  BY <1>3, <3>2 DEF PublishRow, Publish, RouteToDevice
  <2>2. (RowInv /\ SentInv /\ HandlerInv /\ ResultsInv /\ CompleteInv
           /\ UnansweredWillBeResent /\ WindowRespected)'
    BY <1>3 DEF PublishRow, RowInv, SentInv, HandlerInv, ResultsInv, CompleteInv,
                Ahead, UnansweredWillBeResent, WindowRespected, Outstanding
  <2>. QED  BY <2>1, <2>2
<1>4. CASE EndOfRows
  BY <1>4 DEF EndOfRows, RowInv, SentInv, HandlerInv, ResultsInv, CompleteInv,
              Ahead, UnansweredWillBeResent, WindowRespected, Outstanding
<1>5. CASE Drained
  BY <1>5 DEF Drained, RowInv, SentInv, HandlerInv, ResultsInv, CompleteInv,
              Ahead, UnansweredWillBeResent, WindowRespected, Outstanding
<1>6. CASE LoopStop
  <2>1. (DriverTypeOK /\ RowInv /\ SentInv /\ HandlerInv)'
    BY <1>6 DEF LoopStop, RowInv, SentInv, HandlerInv, Ahead
  <2>2. (ResultsInv /\ CompleteInv)'
    BY <1>6 DEF LoopStop, ResultsInv, CompleteInv, Ahead
  <2>3. (UnansweredWillBeResent /\ WindowRespected)'
    BY <1>6 DEF LoopStop, UnansweredWillBeResent, WindowRespected, Outstanding
  <2>. QED  BY <2>1, <2>2, <2>3
<1>7. CASE Report
  BY <1>7 DEF Report, RowInv, SentInv, HandlerInv, ResultsInv, CompleteInv,
              Ahead, UnansweredWillBeResent, WindowRespected, Outstanding
<1>. QED  BY <1>1, <1>2, <1>3, <1>4, <1>5, <1>6, <1>7

(* The values in the three lists are rows, and rows are numbers.            *)
LEMMA ListTypes ==
  ASSUME DriverTypeOK
  PROVE  /\ Len(sent) \in Nat /\ DOMAIN sent = 1..Len(sent)
         /\ Len(results) \in Nat /\ DOMAIN results = 1..Len(results)
         /\ \A k \in 1..Len(sent) : sent[k] \in Ids
         /\ \A k \in 1..Len(results) : results[k] \in Ids
         /\ \A r \in Ids : r \in Nat /\ r < Rows
         /\ row \in Nat /\ row <= Rows
<1>1. \A r \in Ids : r \in Nat /\ r < Rows
  BY NetworkAssumption DEF Ids
<1>2. row \in Nat /\ row <= Rows
  BY NetworkAssumption DEF DriverTypeOK
<1>3. sent \in Seq(Ids) /\ results \in Seq(Ids)
  BY DEF DriverTypeOK
<1>. QED  BY <1>1, <1>2, <1>3, LenProperties, ElementOfSeq

(* sent.append((i, timer)): the row is new to sent and to the results, and  *)
(* positions on_message holds stay valid.                                   *)
LEMMA AppendSentPreserves ==
  ASSUME DriverInv, AppendSent
  PROVE  DriverInv'
<1>1. DriverTypeOK /\ RowInv /\ SentInv /\ HandlerInv /\ ResultsInv
        /\ CompleteInv /\ UnansweredWillBeResent /\ WindowRespected
  BY DEF DriverInv
<1>2. /\ main = "append"
      /\ main' = "start"
      /\ Ahead' = row + 1
      /\ Ahead = row
      /\ row \in Ids
  BY <1>1, NetworkAssumption DEF AppendSent, Ahead, RowInv, DriverTypeOK, Ids
<1>3. UNCHANGED <<row, timer, handler, answer, index, results,
                  toDevice, toHost, online>>
  BY DEF AppendSent
<1>4. sent \in Seq(Ids)
  BY <1>1 DEF DriverTypeOK
<1>5. /\ sent' \in Seq(Ids)
      /\ Len(sent') = Len(sent) + 1
      /\ \A k \in 1..Len(sent) : sent'[k] = sent[k]
      /\ sent'[Len(sent) + 1] = row
  BY <1>2, <1>4, AppendProperties DEF AppendSent
<1>6. /\ Len(sent) \in Nat
      /\ \A k \in 1..Len(sent) : sent[k] \in Nat /\ sent[k] < row
      /\ \A k \in 1..Len(results) : results[k] \in Nat /\ results[k] < row
      /\ row \in Nat
      /\ Ids \subseteq Nat
  BY <1>1, <1>2, ListTypes DEF SentInv, ResultsInv
<1>7. \A k \in 1..Len(sent') :
        \/ k \in 1..Len(sent) /\ sent'[k] = sent[k]
        \/ k = Len(sent) + 1 /\ sent'[k] = row
  BY <1>5, <1>6
<1>8. DriverTypeOK'
  BY <1>1, <1>2, <1>3, <1>5 DEF DriverTypeOK, NetworkTypeOK, MainPc
<1>9. RowInv'
  BY <1>1, <1>2, <1>3 DEF RowInv
<1>10. SentInv'
  <2>1. \A k \in 1..Len(sent') : sent'[k] < row + 1
    BY <1>6, <1>7
  <2>2. ASSUME NEW j \in 1..Len(sent'), NEW k \in 1..Len(sent'), j < k
        PROVE  sent'[j] < sent'[k]
    BY <2>2, <1>1, <1>5, <1>6, <1>7 DEF SentInv
  <2>. QED  BY <2>1, <2>2, <1>2 DEF SentInv
<1>11. HandlerInv'
  <2>1. handler \in {"found", "cancelled"} =>
          index \in 1..Len(sent') /\ answer = <<sent'[index]>>
    BY <1>1, <1>5, <1>6 DEF HandlerInv
  <2>2. ASSUME handler = "deleted"
        PROVE  \E r \in Ids :
                 /\ answer = <<r>>
                 /\ r < row + 1
                 /\ \A k \in 1..Len(sent') : sent'[k] # r
                 /\ \A k \in 1..Len(results) : results[k] # r
    <3>1. PICK r \in Ids :
                 /\ answer = <<r>>
                 /\ r < row
                 /\ \A k \in 1..Len(sent) : sent[k] # r
                 /\ \A k \in 1..Len(results) : results[k] # r
      BY <2>2, <1>1, <1>2 DEF HandlerInv
    <3>2. \A k \in 1..Len(sent') : sent'[k] # r
      BY <3>1, <1>6, <1>7
    <3>. QED  BY <3>1, <3>2, <1>6
  <2>. QED  BY <2>1, <2>2, <1>1, <1>2, <1>3 DEF HandlerInv
<1>12. ResultsInv'
  <2>1. \A k \in 1..Len(results) : results[k] < row + 1
    BY <1>6
  <2>2. \A j \in 1..Len(results), k \in 1..Len(sent') : results[j] # sent'[k]
    BY <1>1, <1>6, <1>7 DEF ResultsInv
  <2>. QED  BY <2>1, <2>2, <1>1, <1>2, <1>3 DEF ResultsInv
<1>13. CompleteInv'
  <2> SUFFICES ASSUME NEW r \in Ids, r < row + 1
               PROVE  \/ \E k \in 1..Len(sent') : sent'[k] = r
                      \/ \E k \in 1..Len(results) : results[k] = r
                      \/ handler = "deleted" /\ answer = <<r>>
    BY <1>2, <1>3 DEF CompleteInv
  <2>1. CASE r = row
    BY <2>1, <1>5, <1>6
  <2>2. CASE r < row
    <3>1. CASE \E k \in 1..Len(sent) : sent[k] = r
      BY <3>1, <1>5, <1>6
    <3>. QED  BY <3>1, <2>2, <1>1, <1>2 DEF CompleteInv
  <2>. QED  BY <2>1, <2>2, <1>6
<1>14. UnansweredWillBeResent'
  <2>1. DOMAIN sent = 1..Len(sent) /\ DOMAIN sent' = 1..Len(sent')
    BY <1>4, <1>5, LenProperties
  <2> SUFFICES ASSUME NEW k \in 1..Len(sent')
               PROVE  \/ timer[sent'[k]] \in {"waiting", "fired", "resent"}
                      \/ sent'[k] = row
                      \/ handler = "cancelled" /\ k = index
    BY <2>1, <1>2, <1>3 DEF UnansweredWillBeResent
  <2>. QED  BY <2>1, <1>1, <1>2, <1>7 DEF UnansweredWillBeResent
<1>15. WindowRespected'
  BY <1>1, <1>2, <1>5, <1>6, DriverAssumption DEF WindowRespected, Outstanding
<1>. QED
  BY <1>8, <1>9, <1>10, <1>11, <1>12, <1>13, <1>14, <1>15 DEF DriverInv

(* timer.start() and i += 1.                                                *)
LEMMA StartTimerPreserves ==
  ASSUME DriverInv, StartTimer
  PROVE  DriverInv'
<1>. USE NetworkAssumption, DriverAssumption
     DEF DriverInv, DriverTypeOK, NetworkTypeOK, Ids
<1>1. row \in Ids /\ row' \in 0..Rows
  BY DEF StartTimer, RowInv
<1>2. main = "start" /\ main' = "window" /\ Ahead' = Ahead
  BY DEF StartTimer, Ahead
<1>3. UNCHANGED <<sent, handler, answer, index, results, toDevice, toHost, online>>
  BY DEF StartTimer
<1>4. /\ timer' \in [Ids -> TimerState]
      /\ timer'[row] = "waiting"
      /\ \A r \in Ids : r # row => timer'[r] = timer[r]
  BY <1>1 DEF StartTimer, TimerState
<1>5. (DriverTypeOK /\ RowInv)'
  BY <1>1, <1>2, <1>3, <1>4 DEF RowInv, MainPc
<1>6. (SentInv /\ HandlerInv /\ ResultsInv /\ CompleteInv)'
  BY <1>2, <1>3 DEF SentInv, HandlerInv, ResultsInv, CompleteInv
<1>7. UnansweredWillBeResent'
  <2>1. \A k \in DOMAIN sent : sent[k] \in Ids
    BY ElementOfSeq, LenProperties
  <2>. QED  BY <2>1, <1>2, <1>3, <1>4 DEF UnansweredWillBeResent
<1>8. WindowRespected'
  BY <1>2, <1>3 DEF WindowRespected, Outstanding
<1>. QED  BY <1>5, <1>6, <1>7, <1>8 DEF DriverInv

-----------------------------------------------------------------------------
(* on_message up to the call of cancel(): the lists are only read.          *)
LEMMA ReadAnswerPreserves ==
  ASSUME DriverInv, HandlerDies \/ IgnoreAnswer \/ FindRow
  PROVE  DriverInv'
<1>1. DriverTypeOK /\ RowInv /\ SentInv /\ HandlerInv /\ ResultsInv
        /\ CompleteInv /\ UnansweredWillBeResent /\ WindowRespected
  BY DEF DriverInv
<1>2. /\ UNCHANGED <<main, row, sent, timer, results, toDevice, online>>
      /\ handler = "idle"
      /\ toHost # <<>>
      /\ toHost' = Tail(toHost)
      /\ handler' \in {"dead", "idle", "found"}
  BY DEF HandlerDies, IgnoreAnswer, FindRow
<1>3. Head(toHost) \in Ids /\ toHost' \in Seq(Ids)
  BY <1>1, <1>2, HeadTailProperties DEF DriverTypeOK, NetworkTypeOK
<1>4. answer = <<>>
  BY <1>1, <1>2 DEF HandlerInv
<1>5. CASE handler' \in {"dead", "idle"}
  <2>1. UNCHANGED <<answer, index>> /\ handler' \in HandlerPc
    BY <1>5 DEF HandlerDies, IgnoreAnswer, FindRow, HandlerPc
  <2>2. DriverTypeOK'
    BY <1>1, <1>2, <1>3, <2>1 DEF DriverTypeOK, NetworkTypeOK
  <2>3. HandlerInv'
    BY <1>1, <1>2, <1>4, <1>5, <2>1 DEF HandlerInv
  <2>. QED  BY <1>5, <2>2, <2>3, <1>1, <1>2
            DEF DriverInv, RowInv, SentInv, ResultsInv, CompleteInv, Ahead,
                UnansweredWillBeResent, WindowRespected, Outstanding
<1>6. CASE handler' = "found"
  <2>1. FindRow /\ main # "setup"
    BY <1>2, <1>6 DEF HandlerDies, IgnoreAnswer, FindRow
  <2>2. /\ index' \in 1..Len(sent)
        /\ sent[index'] = Head(toHost)
        /\ answer' = <<Head(toHost)>>
    BY <2>1, <1>1, ListTypes DEF FindRow, IsFirst, Positions
  <2>3. index' \in Nat /\ answer' \in Seq(Ids)
    BY <2>2, <1>1, <1>3, ListTypes
  <2>4. DriverTypeOK'
    BY <1>1, <1>2, <1>3, <1>6, <2>3 DEF DriverTypeOK, NetworkTypeOK, HandlerPc
  <2>5. HandlerInv'
    BY <1>1, <1>2, <1>6, <2>1, <2>2 DEF HandlerInv
  <2>. QED  BY <1>6, <2>4, <2>5, <1>1, <1>2
            DEF DriverInv, RowInv, SentInv, ResultsInv, CompleteInv, Ahead,
                UnansweredWillBeResent, WindowRespected, Outstanding
<1>. QED  BY <1>2, <1>5, <1>6

(* cancel() touches the timer of the one entry about to be deleted.         *)
LEMMA CancelTimerPreserves ==
  ASSUME DriverInv, CancelTimer
  PROVE  DriverInv'
<1>1. DriverTypeOK /\ RowInv /\ SentInv /\ HandlerInv /\ ResultsInv
        /\ CompleteInv /\ UnansweredWillBeResent /\ WindowRespected
  BY DEF DriverInv
<1>2. /\ UNCHANGED <<main, row, sent, answer, index, results,
                     toDevice, toHost, online>>
      /\ handler = "found"
      /\ handler' = "cancelled"
  BY DEF CancelTimer
<1>3. /\ index \in 1..Len(sent)
      /\ answer = <<sent[index]>>
      /\ sent[index] \in Ids
      /\ Len(sent) \in Nat
      /\ DOMAIN sent = 1..Len(sent)
      /\ \A k \in 1..Len(sent) : sent[k] \in Ids /\ sent[k] \in Nat
  BY <1>1, <1>2, ListTypes DEF HandlerInv
<1>4. /\ timer' \in [Ids -> TimerState]
      /\ \A r \in Ids : r # sent[index] => timer'[r] = timer[r]
  BY <1>1, <1>3 DEF CancelTimer, Cancel, DriverTypeOK, TimerState
<1>5. DriverTypeOK'
  BY <1>1, <1>2, <1>4 DEF DriverTypeOK, NetworkTypeOK, HandlerPc
<1>6. HandlerInv'
  BY <1>1, <1>2, <1>3 DEF HandlerInv
<1>7. UnansweredWillBeResent'
  <2> SUFFICES ASSUME NEW k \in 1..Len(sent), k # index
               PROVE  \/ timer'[sent[k]] \in {"waiting", "fired", "resent"}
                      \/ main = "start" /\ sent[k] = row
    BY <1>2, <1>3 DEF UnansweredWillBeResent
  <2>1. sent[k] # sent[index]
    BY <1>1, <1>3 DEF SentInv
  <2>2. timer'[sent[k]] = timer[sent[k]]
    BY <1>3, <1>4, <2>1
  <2>. QED  BY <2>2, <1>1, <1>2, <1>3 DEF UnansweredWillBeResent
<1>8. CompleteInv'
  BY <1>1, <1>2 DEF CompleteInv, Ahead
<1>. QED  BY <1>1, <1>2, <1>5, <1>6, <1>7, <1>8
          DEF DriverInv, RowInv, SentInv, ResultsInv, Ahead,
              WindowRespected, Outstanding

(* del sent[i] takes out the row of the answer and no other.                *)
LEMMA DeleteSentPreserves ==
  ASSUME DriverInv, DeleteSent
  PROVE  DriverInv'
<1>1. DriverTypeOK /\ RowInv /\ SentInv /\ HandlerInv /\ ResultsInv
        /\ CompleteInv /\ UnansweredWillBeResent /\ WindowRespected
  BY DEF DriverInv
<1>2. /\ UNCHANGED <<main, row, timer, answer, index, results,
                     toDevice, toHost, online>>
      /\ Ahead' = Ahead
      /\ handler = "cancelled"
      /\ handler' = "deleted"
  BY DEF DeleteSent, Ahead
<1> DEFINE a == sent[index]
<1>3. /\ index \in 1..Len(sent)
      /\ answer = <<a>>
      /\ a \in Ids
      /\ a < Ahead
      /\ Len(sent) \in Nat
      /\ sent \in Seq(Ids)
      /\ DOMAIN sent = 1..Len(sent)
      /\ \A k \in 1..Len(sent) : sent[k] \in Ids /\ sent[k] \in Nat
  BY <1>1, <1>2, ListTypes DEF HandlerInv, SentInv, DriverTypeOK
<1>4. /\ sent' \in Seq(Ids)
      /\ Len(sent') = Len(sent) - 1
      /\ Len(sent') \in Nat
      /\ DOMAIN sent' = 1..Len(sent')
      /\ \A k \in 1..Len(sent') :
           sent'[k] = IF k < index THEN sent[k] ELSE sent[k + 1]
  <2>1. sent' = RemoveAt(sent, index)
    BY DEF DeleteSent
  <2>2. /\ RemoveAt(sent, index) \in Seq(Ids)
        /\ Len(RemoveAt(sent, index)) = Len(sent) - 1
        /\ \A k \in 1..(Len(sent) - 1) :
             RemoveAt(sent, index)[k] = IF k < index THEN sent[k] ELSE sent[k + 1]
    BY <1>3, RemoveAtProperties
  <2>3. sent' \in Seq(Ids) /\ Len(sent') = Len(sent) - 1
    BY <2>1, <2>2
  <2>4. Len(sent') \in Nat /\ DOMAIN sent' = 1..Len(sent')
    BY <2>3, LenProperties
  <2>. QED  BY <2>1, <2>2, <2>3, <2>4
<1> HIDE DEF a
<1>5. \A j, k \in 1..Len(sent) : j < k => sent[j] < sent[k]
  BY <1>1 DEF SentInv
<1>6. \A k \in 1..Len(sent) : k # index => sent[k] # a
  BY <1>3, <1>5 DEF a
<1>7. \A k \in 1..Len(sent') :
        \E p \in 1..Len(sent) : p # index /\ sent'[k] = sent[p]
  <2> SUFFICES ASSUME NEW k \in 1..Len(sent')
               PROVE  \E p \in 1..Len(sent) : p # index /\ sent'[k] = sent[p]
    OBVIOUS
  <2>1. CASE k < index
    BY <2>1, <1>3, <1>4
  <2>2. CASE ~(k < index)
    <3>1. k + 1 \in 1..Len(sent) /\ k + 1 # index /\ sent'[k] = sent[k + 1]
      BY <2>2, <1>3, <1>4
    <3>. QED  BY <3>1
  <2>. QED  BY <2>1, <2>2
<1>8. DriverTypeOK'
  BY <1>1, <1>2, <1>4 DEF DriverTypeOK, NetworkTypeOK, HandlerPc
<1>9. RowInv'
  BY <1>1, <1>2 DEF RowInv
<1>10. SentInv'
  <2>1. \A k \in 1..Len(sent') : sent'[k] < Ahead
    BY <1>1, <1>7 DEF SentInv
  <2>2. ASSUME NEW j \in 1..Len(sent'), NEW k \in 1..Len(sent'), j < k
        PROVE  sent'[j] < sent'[k]
    <3>1. j + 1 \in 1..Len(sent) /\ k + 1 \in 1..Len(sent)
            /\ j \in 1..Len(sent) /\ k \in 1..Len(sent)
      BY <1>3, <1>4
    <3>2. CASE k < index
      BY <3>1, <3>2, <2>2, <1>3, <1>4, <1>5
    <3>3. CASE ~(k < index) /\ j < index
      BY <3>1, <3>3, <2>2, <1>3, <1>4, <1>5
    <3>4. CASE ~(k < index) /\ ~(j < index)
      BY <3>1, <3>4, <2>2, <1>3, <1>4, <1>5
    <3>. QED  BY <3>2, <3>3, <3>4
  <2>3. main \notin {"setup", "join", "report", "done"}
    BY <1>1, <1>3 DEF SentInv
  <2>. QED  BY <2>1, <2>2, <2>3, <1>2 DEF SentInv
<1>11. HandlerInv'
  <2>1. \A k \in 1..Len(sent') : sent'[k] # a
    BY <1>6, <1>7
  <2>2. \A k \in 1..Len(results) : results[k] # a
    BY <1>1, <1>3 DEF ResultsInv, a
  <2>3. main \notin {"setup", "report", "done"}
    BY <1>1, <1>3 DEF SentInv
  <2>. QED  BY <2>1, <2>2, <2>3, <1>1, <1>2, <1>3 DEF HandlerInv
<1>12. ResultsInv'
  <2>1. \A j \in 1..Len(results), k \in 1..Len(sent') : results[j] # sent'[k]
    BY <1>1, <1>7 DEF ResultsInv
  <2>. QED  BY <2>1, <1>1, <1>2 DEF ResultsInv
<1>13. CompleteInv'
  <2> SUFFICES ASSUME NEW r \in Ids, r < Ahead
               PROVE  \/ \E k \in 1..Len(sent') : sent'[k] = r
                      \/ \E k \in 1..Len(results) : results[k] = r
                      \/ answer = <<r>>
    BY <1>2 DEF CompleteInv
  <2>1. CASE \E k \in 1..Len(sent) : sent[k] = r
    <3>1. PICK k \in 1..Len(sent) : sent[k] = r
      BY <2>1
    <3>2. CASE k < index
      <4>1. k \in 1..Len(sent') /\ sent'[k] = r
        BY <3>1, <3>2, <1>3, <1>4
      <4>. QED  BY <4>1
    <3>3. CASE k = index
      BY <3>1, <3>3, <1>3 DEF a
    <3>4. CASE index < k
      <4>1. k - 1 \in 1..Len(sent') /\ sent'[k - 1] = sent[(k - 1) + 1]
        BY <3>1, <3>4, <1>3, <1>4
      <4>2. (k - 1) + 1 = k
        BY <1>3
      <4>. QED  BY <3>1, <4>1, <4>2
    <3>. QED  BY <3>2, <3>3, <3>4, <1>3
  <2>2. CASE ~ \E k \in 1..Len(sent) : sent[k] = r
    BY <2>2, <1>1, <1>2 DEF CompleteInv
  <2>. QED  BY <2>1, <2>2
<1>14. UnansweredWillBeResent'
  <2> SUFFICES ASSUME NEW k \in 1..Len(sent')
               PROVE  \/ timer[sent'[k]] \in {"waiting", "fired", "resent"}
                      \/ main = "start" /\ sent'[k] = row
    BY <1>2, <1>4 DEF UnansweredWillBeResent
  <2>1. PICK p \in 1..Len(sent) : p # index /\ sent'[k] = sent[p]
    BY <1>7
  <2>. QED  BY <2>1, <1>1, <1>3 DEF UnansweredWillBeResent
<1>15. WindowRespected'
  BY <1>1, <1>2, <1>3, <1>4, DriverAssumption DEF WindowRespected, Outstanding
<1>. QED
  BY <1>8, <1>9, <1>10, <1>11, <1>12, <1>13, <1>14, <1>15 DEF DriverInv

(* ypred.append and its two companions: the row moves into the results.     *)
LEMMA RecordResultPreserves ==
  ASSUME DriverInv, RecordResult
  PROVE  DriverInv'
<1>1. DriverTypeOK /\ RowInv /\ SentInv /\ HandlerInv /\ ResultsInv
        /\ CompleteInv /\ UnansweredWillBeResent /\ WindowRespected
  BY DEF DriverInv
<1>2. /\ UNCHANGED <<main, row, sent, timer, toDevice, toHost, online>>
      /\ Ahead' = Ahead
      /\ handler = "deleted"
      /\ handler' = "idle"
      /\ answer' = <<>>
      /\ index' = 0
  BY DEF RecordResult, Ahead
<1>3. PICK r \in Ids :
        /\ answer = <<r>>
        /\ r < Ahead
        /\ \A k \in 1..Len(sent) : sent[k] # r
        /\ \A k \in 1..Len(results) : results[k] # r
  BY <1>1, <1>2 DEF HandlerInv
<1>4. results \in Seq(Ids) /\ Len(results) \in Nat
  BY <1>1, ListTypes DEF DriverTypeOK
<1>5. /\ results' \in Seq(Ids)
      /\ Len(results') = Len(results) + 1
      /\ \A k \in 1..Len(results) : results'[k] = results[k]
      /\ results'[Len(results) + 1] = r
  <2>1. results' = Append(results, r)
    BY <1>3, <1>4, AppendIsConcat DEF RecordResult
  <2>. QED  BY <2>1, <1>4, AppendProperties
<1>6. \A k \in 1..Len(results') :
        \/ k \in 1..Len(results) /\ results'[k] = results[k]
        \/ k = Len(results) + 1 /\ results'[k] = r
  BY <1>4, <1>5
<1>7. DriverTypeOK'
  BY <1>1, <1>2, <1>5 DEF DriverTypeOK, NetworkTypeOK, HandlerPc
<1>8. HandlerInv'
  BY <1>1, <1>2 DEF HandlerInv
<1>9. ResultsInv'
  <2>1. \A k \in 1..Len(results') : results'[k] < Ahead
    BY <1>1, <1>3, <1>6 DEF ResultsInv
  <2>2. \A j, k \in 1..Len(results') : results'[j] = results'[k] => j = k
    BY <1>1, <1>3, <1>6 DEF ResultsInv
  <2>3. \A j \in 1..Len(results'), k \in 1..Len(sent) : results'[j] # sent[k]
    BY <1>1, <1>3, <1>6 DEF ResultsInv
  <2>. QED  BY <2>1, <2>2, <2>3, <1>2 DEF ResultsInv
<1>10. CompleteInv'
  <2> SUFFICES ASSUME NEW q \in Ids, q < Ahead
               PROVE  \/ \E k \in 1..Len(sent) : sent[k] = q
                      \/ \E k \in 1..Len(results') : results'[k] = q
    BY <1>2 DEF CompleteInv
  <2>1. CASE \E k \in 1..Len(sent) : sent[k] = q
    BY <2>1
  <2>2. CASE \E k \in 1..Len(results) : results[k] = q
    BY <2>2, <1>4, <1>5
  <2>3. CASE answer = <<q>>
    BY <2>3, <1>3, <1>4, <1>5
  <2>. QED  BY <2>1, <2>2, <2>3, <1>1 DEF CompleteInv
<1>11. (SentInv /\ UnansweredWillBeResent)'
  BY <1>1, <1>2 DEF SentInv, UnansweredWillBeResent
<1>. QED  BY <1>1, <1>2, <1>7, <1>8, <1>9, <1>10, <1>11
          DEF DriverInv, RowInv, WindowRespected, Outstanding

(* The steps of a RepeatingTimer only move it between the three states in   *)
(* which it goes on.                                                        *)
LEMMA TimerPreserves ==
  ASSUME DriverInv, NEW r \in Ids, Expire(r) \/ Resend(r) \/ Rearm(r)
  PROVE  DriverInv'
<1>1. DriverTypeOK /\ RowInv /\ SentInv /\ HandlerInv /\ ResultsInv
        /\ CompleteInv /\ UnansweredWillBeResent /\ WindowRespected
  BY DEF DriverInv
<1>2. UNCHANGED <<main, row, sent, handler, answer, index, results, toHost, online>>
  BY DEF Expire, Resend, Rearm
<1>3. toDevice' \in Seq(Ids)
  <2>1. toDevice \in Seq(Ids)
    BY <1>1 DEF DriverTypeOK, NetworkTypeOK
  <2>2. toDevice' = toDevice \/ toDevice' = Append(toDevice, r)
    BY DEF Expire, Resend, Rearm, Publish, RouteToDevice
  <2>. QED  BY <2>1, <2>2, AppendProperties
<1>4. /\ timer' \in [Ids -> TimerState]
      /\ timer'[r] \in {"waiting", "fired", "resent"}
      /\ \A q \in Ids : q # r => timer'[q] = timer[q]
  BY <1>1 DEF Expire, Resend, Rearm, DriverTypeOK, TimerState
<1>5. DriverTypeOK'
  BY <1>1, <1>2, <1>3, <1>4 DEF DriverTypeOK, NetworkTypeOK
<1>6. UnansweredWillBeResent'
  <2>1. \A k \in DOMAIN sent : sent[k] \in Ids
    BY <1>1, ListTypes
  <2>. QED  BY <2>1, <1>1, <1>2, <1>4 DEF UnansweredWillBeResent
<1>7. (RowInv /\ SentInv /\ HandlerInv /\ ResultsInv /\ CompleteInv
         /\ WindowRespected)'
  BY <1>1, <1>2 DEF RowInv, SentInv, HandlerInv, ResultsInv, CompleteInv, Ahead,
                    WindowRespected, Outstanding
<1>. QED  BY <1>5, <1>6, <1>7 DEF DriverInv

LEMMA MainPreserves ==
  ASSUME DriverInv, Main
  PROVE  DriverInv'
BY MainPcPreserves, AppendSentPreserves, StartTimerPreserves DEF Main

LEMMA OnMessagePreserves ==
  ASSUME DriverInv, OnMessage
  PROVE  DriverInv'
BY ReadAnswerPreserves, CancelTimerPreserves, DeleteSentPreserves,
   RecordResultPreserves DEF OnMessage

(* Anything else may move messages in the two pipes.                        *)
LEMMA PipesPreserve ==
  ASSUME DriverInv, UNCHANGED driverVars, NetworkTypeOK'
  PROVE  DriverInv'
BY DEF driverVars, DriverInv, DriverTypeOK, RowInv, SentInv, HandlerInv,
       ResultsInv, CompleteInv, Ahead, UnansweredWillBeResent, WindowRespected,
       Outstanding

-----------------------------------------------------------------------------
(* What the inductive invariant says of the properties of module Driver.    *)

LEMMA InvRecordedOnce ==
  ASSUME DriverInv
  PROVE  RecordedOnce
<1>1. DriverTypeOK /\ SentInv /\ HandlerInv /\ ResultsInv
  BY DEF DriverInv
<1>2. /\ DOMAIN sent = 1..Len(sent)
      /\ DOMAIN results = 1..Len(results)
      /\ \A k \in 1..Len(sent) : sent[k] \in Nat
  BY <1>1, ListTypes
<1>3. \A j, k \in DOMAIN results : results[j] = results[k] => j = k
  BY <1>1, <1>2 DEF ResultsInv
<1>4. \A j, k \in DOMAIN sent : sent[j] = sent[k] => j = k
  <2> SUFFICES ASSUME NEW j \in 1..Len(sent), NEW k \in 1..Len(sent),
                      sent[j] = sent[k]
               PROVE  j = k
    BY <1>2
  <2>1. ~(j < k) /\ ~(k < j)
    BY <1>1, <1>2 DEF SentInv
  <2>. QED  BY <2>1, <1>1, ListTypes
<1>5. \A r \in ToSet(results) : r \notin Held
  BY <1>1, <1>2 DEF ResultsInv, Held, ToSet
<1>6. handler = "deleted" => \A r \in ToSet(answer) : r \notin Held
  <2> SUFFICES ASSUME handler = "deleted", NEW q \in ToSet(answer)
               PROVE  q \notin Held
    OBVIOUS
  <2>1. PICK r \in Ids : answer = <<r>> /\ \A k \in 1..Len(sent) : sent[k] # r
    BY <1>1 DEF HandlerInv
  <2>2. q = r
    BY <2>1 DEF ToSet
  <2>. QED  BY <2>1, <2>2, <1>2 DEF Held, ToSet
<1>. QED  BY <1>3, <1>4, <1>5, <1>6 DEF RecordedOnce, Recorded

LEMMA InvIndexStillValid ==
  ASSUME DriverInv
  PROVE  IndexStillValid
<1>1. DriverTypeOK /\ HandlerInv
  BY DEF DriverInv
<1>. QED  BY <1>1, ListTypes DEF HandlerInv, IndexStillValid

(* A list of all numbers below Rows without repetitions has length Rows.    *)
LEMMA InvReportComplete ==
  ASSUME DriverInv
  PROVE  ReportComplete
<1> SUFFICES ASSUME main \in {"report", "done"}
             PROVE  /\ sent = <<>>
                    /\ ToSet(results) = Ids
                    /\ Len(results) = Rows
  BY DEF ReportComplete
<1>1. DriverTypeOK /\ RowInv /\ SentInv /\ HandlerInv /\ ResultsInv /\ CompleteInv
  BY DEF DriverInv
<1>2. sent = <<>> /\ handler = "joined" /\ row = Rows /\ Ahead = Rows
  BY <1>1 DEF SentInv, HandlerInv, RowInv, Ahead
<1>3. /\ DOMAIN results = 1..Len(results)
      /\ Len(results) \in Nat
      /\ \A k \in 1..Len(results) : results[k] \in Ids
      /\ \A r \in Ids : r < Rows
      /\ Len(sent) = 0
  BY <1>1, <1>2, ListTypes
<1>4. \A r \in Ids : \E k \in 1..Len(results) : results[k] = r
  BY <1>1, <1>2, <1>3 DEF CompleteInv
<1>5. ToSet(results) = Ids
  BY <1>3, <1>4 DEF ToSet
<1>6. results \in [1..Len(results) -> Ids]
  BY <1>1, LenProperties DEF DriverTypeOK
<1>7. results \in Injection(1..Len(results), Ids)
  BY <1>1, <1>6 DEF ResultsInv, Injection, IsInjective
<1>8. results \in Surjection(1..Len(results), Ids)
  BY <1>4, <1>6 DEF Surjection
<1>9. /\ IsFiniteSet(Ids)
      /\ Cardinality(Ids) = Rows
  <2>1. /\ IsFiniteSet(0..(Rows - 1))
        /\ Cardinality(0..(Rows - 1)) = IF 0 > Rows - 1 THEN 0 ELSE Rows - 1 - 0 + 1
    BY NetworkAssumption, FS_Interval
  <2>. QED  BY <2>1, NetworkAssumption DEF Ids
<1>10. Cardinality(1..Len(results)) = Len(results)
  <2>1. Cardinality(1..Len(results)) =
          IF 1 > Len(results) THEN 0 ELSE Len(results) - 1 + 1
    BY <1>3, FS_Interval
  <2>. QED  BY <2>1, <1>3
<1>11. Cardinality(1..Len(results)) = Cardinality(Ids)
  BY <1>7, <1>8, <1>9, FS_Injection
<1>. QED  BY <1>2, <1>5, <1>9, <1>10, <1>11
=============================================================================
