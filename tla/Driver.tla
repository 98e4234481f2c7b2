------------------------------- MODULE Driver -------------------------------
(* RandomForest/mqtt.py with RandomForest/RepeatingTimer.py: the script that*)
(* streams the test rows to the ESP32 and collects the predictions.  Three  *)
(* kinds of threads share its state without a lock: the main thread, the    *)
(* thread paho starts in loop_start(), which runs on_message, and one       *)
(* threading.Timer per unanswered row, which republishes it every 5 s.      *)
(* One action is what a thread does between two reads or writes of state    *)
(* another thread can change.                                               *)
EXTENDS Network, SequencesExt

CONSTANTS
  Window,        \* 11: the main thread waits while len(sent) > 10
  StaleAnswers   \* answers to an earlier run that the broker may still deliver

ASSUME DriverAssumption ==
  /\ Window \in Nat \ {0}
  /\ StaleAnswers \subseteq Seq(Ids)
  /\ StaleAnswers # {}

VARIABLES
  main,      \* where the main thread is
  row,       \* its loop counter i
  sent,      \* the list of (i, timer) pairs, the timer being that of row i
  timer,     \* what the RepeatingTimer of each row is doing
  handler,   \* where the thread of paho is
  answer,    \* <<id>> while on_message handles the answer with that id
  index,     \* the index next(...) found in sent, counted from 1
  results    \* ids in the order ypred, ytest and pred_time were appended to

driverVars == <<main, row, sent, timer, handler, answer, index, results>>

MainPc == {"setup", "window", "publish", "append", "start", "drain",
           "join", "report", "done"}
HandlerPc == {"idle", "found", "cancelled", "deleted", "dead", "joined"}

(* "new": self.timer is None.  "waiting": a threading.Timer waits.  "fired":*)
(* its wait is over and cancel() comes too late for it.  "resent": _run has *)
(* called resend and has not created the next Timer.  "cancelled": the      *)
(* Timer's finished event is set before it fired.                           *)
TimerState == {"new", "waiting", "fired", "resent", "cancelled"}

DriverTypeOK ==
  /\ NetworkTypeOK
  /\ main \in MainPc
  /\ row \in 0..Rows
  /\ sent \in Seq(Ids)
  /\ timer \in [Ids -> TimerState]
  /\ handler \in HandlerPc
  /\ answer \in Seq(Ids)
  /\ index \in Nat
  /\ results \in Seq(Ids)

DriverInit ==
  /\ main = "setup"
  /\ row = 0
  /\ sent = <<>>
  /\ timer = [r \in Ids |-> "new"]
  /\ handler = "idle"
  /\ answer = <<>>
  /\ index = 0
  /\ results = <<>>
  /\ toHost \in StaleAnswers

(* client.publish(): the thread of paho does the sending, so nothing leaves *)
(* once that thread is gone.                                                *)
Publish(id) ==
  IF handler \in {"dead", "joined"} THEN UNCHANGED toDevice ELSE RouteToDevice(id)

-----------------------------------------------------------------------------
(* The main thread.                                                         *)

(* The lists on_message uses come into being after loop_start().            *)
DefineLists ==
  /\ main = "setup"
  /\ main' = "window"
  /\ UNCHANGED <<row, sent, timer, handler, answer, index, results,
                 toDevice, toHost, online>>

(* Mutant: the rows are counted from 0 and the test still reads <=.         *)
EnterWindowPastEnd ==
  /\ main = "window"
  /\ row <= Rows
  /\ Len(sent) < Window
  /\ main' = "publish"
  /\ UNCHANGED <<row, sent, timer, handler, answer, index, results,
                 toDevice, toHost, online>>

(* Mutant: while len(sent) > 11.                                            *)
EnterWindowOneMore ==
  /\ main = "window"
  /\ row < Rows
  /\ Len(sent) <= Window
  /\ main' = "publish"
  /\ UNCHANGED <<row, sent, timer, handler, answer, index, results,
                 toDevice, toHost, online>>

(* The window test; the publication it allows comes later.                  *)
EnterWindow ==
  /\ main = "window"
  /\ row < Rows
  /\ Len(sent) < Window
  /\ main' = "publish"
  /\ UNCHANGED <<row, sent, timer, handler, answer, index, results,
                 toDevice, toHost, online>>

PublishRow ==
  /\ main = "publish"
  /\ Publish(row)
  /\ main' = "append"
  /\ UNCHANGED <<row, sent, timer, handler, answer, index, results,
                 toHost, online>>

(* Mutant: sent.insert(0, ...), the newest row first.                       *)
InsertSent ==
  /\ main = "append"
  /\ sent' = <<row>> \o sent
  /\ main' = "start"
  /\ UNCHANGED <<row, timer, handler, answer, index, results,
                 toDevice, toHost, online>>

AppendSent ==
  /\ main = "append"
  /\ sent' = Append(sent, row)
  /\ main' = "start"
  /\ UNCHANGED <<row, timer, handler, answer, index, results,
                 toDevice, toHost, online>>

(* timer.start() and i += 1.  A cancel() that came before found self.timer  *)
(* None and did nothing.                                                    *)
StartTimer ==
  /\ main = "start"
  /\ timer' = [timer EXCEPT ![row] = "waiting"]
  /\ row' = row + 1
  /\ main' = "window"
  /\ UNCHANGED <<sent, handler, answer, index, results,
                 toDevice, toHost, online>>

EndOfRows ==
  /\ main = "window"
  /\ row = Rows
  /\ main' = "drain"
  /\ UNCHANGED <<row, sent, timer, handler, answer, index, results,
                 toDevice, toHost, online>>

Drained ==
  /\ main = "drain"
  /\ sent = <<>>
  /\ main' = "join"
  /\ UNCHANGED <<row, sent, timer, handler, answer, index, results,
                 toDevice, toHost, online>>

(* Mutant: the script does not join the thread of paho.                     *)
LoopStopWithoutJoin ==
  /\ main = "join"
  /\ main' = "report"
  /\ UNCHANGED <<row, sent, timer, handler, answer, index, results,
                 toDevice, toHost, online>>

(* loop_stop() joins the thread of paho, which finishes the callback it is  *)
(* in; disconnect() follows.                                                *)
LoopStop ==
  /\ main = "join"
  /\ handler \in {"idle", "dead"}
  /\ handler' = "joined"
  /\ main' = "report"
  /\ UNCHANGED <<row, sent, timer, answer, index, results,
                 toDevice, toHost, online>>

Report ==
  /\ main = "report"
  /\ main' = "done"
  /\ UNCHANGED <<row, sent, timer, handler, answer, index, results,
                 toDevice, toHost, online>>

Main ==
  \/ DefineLists \/ EnterWindow \/ PublishRow \/ AppendSent \/ StartTimer
  \/ EndOfRows \/ Drained \/ LoopStop \/ Report

-----------------------------------------------------------------------------
(* on_message, in the thread of paho.                                       *)

Positions(id) == {k \in DOMAIN sent : sent[k] = id}

(* The first position of id, as next(...) returns it.                       *)
IsFirst(k, id) ==
  /\ k \in Positions(id)
  /\ \A j \in Positions(id) : k <= j

(* NameError: sent does not exist yet; only StopIteration is caught, so the *)
(* exception ends the thread.                                               *)
HandlerDies ==
  /\ handler = "idle"
  /\ toHost # <<>>
  /\ main = "setup"
  /\ toHost' = Tail(toHost)
  /\ handler' = "dead"
  /\ UNCHANGED <<main, row, sent, timer, answer, index, results,
                 toDevice, online>>

(* StopIteration: no such row is waiting, the answer is dropped.            *)
IgnoreAnswer ==
  /\ handler = "idle"
  /\ toHost # <<>>
  /\ main # "setup"
  /\ Positions(Head(toHost)) = {}
  /\ toHost' = Tail(toHost)
  /\ UNCHANGED <<main, row, sent, timer, handler, answer, index, results,
                 toDevice, online>>

FindRow ==
  /\ handler = "idle"
  /\ toHost # <<>>
  /\ main # "setup"
  /\ \E k \in DOMAIN sent :
       /\ IsFirst(k, Head(toHost))
       /\ index' = k
  /\ answer' = <<Head(toHost)>>
  /\ toHost' = Tail(toHost)
  /\ handler' = "found"
  /\ UNCHANGED <<main, row, sent, timer, results, toDevice, online>>

(* RepeatingTimer.cancel() reaches the current threading.Timer, if any, and *)
(* only if that one has not fired.                                          *)
Cancel(r) ==
  timer' = [timer EXCEPT ![r] = IF @ = "waiting" THEN "cancelled" ELSE @]

CancelTimer ==
  /\ handler = "found"
  /\ Cancel(sent[index])
  /\ handler' = "cancelled"
  /\ UNCHANGED <<main, row, sent, answer, index, results,
                 toDevice, toHost, online>>

(* Mutant: del sent[i] forgotten.                                           *)
KeepSent ==
  /\ handler = "cancelled"
  /\ handler' = "deleted"
  /\ UNCHANGED <<main, row, sent, timer, answer, index, results,
                 toDevice, toHost, online>>

DeleteSent ==
  /\ handler = "cancelled"
  /\ sent' = RemoveAt(sent, index)
  /\ handler' = "deleted"
  /\ UNCHANGED <<main, row, timer, answer, index, results,
                 toDevice, toHost, online>>

RecordResult ==
  /\ handler = "deleted"
  /\ results' = results \o answer
  /\ answer' = <<>>
  /\ index' = 0
  /\ handler' = "idle"
  /\ UNCHANGED <<main, row, sent, timer, toDevice, toHost, online>>

OnMessage ==
  \/ HandlerDies \/ IgnoreAnswer \/ FindRow
  \/ CancelTimer \/ DeleteSent \/ RecordResult

-----------------------------------------------------------------------------
(* RepeatingTimer._run, in the thread of a threading.Timer.                 *)

(* finished.wait(interval) returns and finished is not set.                 *)
Expire(r) ==
  /\ timer[r] = "waiting"
  /\ timer' = [timer EXCEPT ![r] = "fired"]
  /\ UNCHANGED <<main, row, sent, handler, answer, index, results,
                 toDevice, toHost, online>>

(* Mutant: a plain Timer, which fires once.                                 *)
ResendOnce(r) ==
  /\ timer[r] = "fired"
  /\ timer' = [timer EXCEPT ![r] = "cancelled"]
  /\ Publish(r)
  /\ UNCHANGED <<main, row, sent, handler, answer, index, results,
                 toHost, online>>

(* self.func, that is resend: publish the same pack again.                  *)
Resend(r) ==
  /\ timer[r] = "fired"
  /\ timer' = [timer EXCEPT ![r] = "resent"]
  /\ Publish(r)
  /\ UNCHANGED <<main, row, sent, handler, answer, index, results,
                 toHost, online>>

(* self.start(): a new Timer, whatever happened to the row meanwhile.       *)
Rearm(r) ==
  /\ timer[r] = "resent"
  /\ timer' = [timer EXCEPT ![r] = "waiting"]
  /\ UNCHANGED <<main, row, sent, handler, answer, index, results,
                 toDevice, toHost, online>>

-----------------------------------------------------------------------------
(* Properties.                                                              *)

Held == ToSet(sent)

Recorded == ToSet(results) \cup (IF handler = "deleted" THEN ToSet(answer) ELSE {})

(* A row is recorded once however often it is sent and answered (the copies *)
(* made by resend are all answered), and it is not waited for any more: the *)
(* deletion from sent and the append to ypred of on_message agree.          *)
RecordedOnce ==
  /\ \A j, k \in DOMAIN results : results[j] = results[k] => j = k
  /\ \A j, k \in DOMAIN sent : sent[j] = sent[k] => j = k
  /\ Recorded \cap Held = {}

(* The index on_message computed still points at the row of the answer when *)
(* it cancels the timer and when it deletes the entry, although the main    *)
(* thread appends to the list in between.                                   *)
IndexStillValid ==
  handler \in {"found", "cancelled"} =>
    /\ index \in DOMAIN sent
    /\ answer = <<sent[index]>>

(* No row is forgotten: while a row waits in sent its RepeatingTimer will   *)
(* publish it again, except between timer creation and start(), and while   *)
(* on_message is between cancel() and del for this very row.                *)
UnansweredWillBeResent ==
  \A k \in DOMAIN sent :
    \/ timer[sent[k]] \in {"waiting", "fired", "resent"}
    \/ main = "start" /\ sent[k] = row
    \/ handler = "cancelled" /\ k = index

(* The report is computed from one prediction per row: when loop_stop() has *)
(* returned nothing is waiting and every row has been recorded, also the    *)
(* last one, whose entry leaves sent before its prediction is appended.     *)
ReportComplete ==
  main \in {"report", "done"} =>
    /\ sent = <<>>
    /\ ToSet(results) = Ids
    /\ Len(results) = Rows

(* At most Window rows are published and not yet given back by on_message.  *)
Outstanding == Len(sent) + (IF main = "append" THEN 1 ELSE 0)

WindowRespected ==
  /\ Outstanding <= Window
  /\ main = "publish" => Outstanding < Window

(* What README.md promises of a retransmission: the script retransmits the  *)
(* messages that were not answered.  Once a row is recorded and on_message  *)
(* is over, its timer is out of the game.                                   *)
AnsweredNotResent ==
  \A k \in DOMAIN results : timer[results[k]] \in {"new", "cancelled"}
=============================================================================
