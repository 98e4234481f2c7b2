----------------------------- MODULE EchoDevice -----------------------------
(* What the ESP32 promises to the script, whatever its tasks, its queue and *)
(* its outbox do: it is a FIFO server over an unreliable line.  Each request*)
(* is answered at most once, in order of arrival, with the id it carried;   *)
(* requests may be lost, but only from one end of those in progress: the    *)
(* oldest answers expire, the newest requests die with the connection.      *)
EXTENDS Naturals, Sequences

CONSTANT Id         \* the ids a request may carry

VARIABLES
  pending,          \* requests accepted and neither answered nor lost
  toHost            \* answers the script has not read yet

EchoInit == pending = <<>>

(* The environment: a request arrives, the script reads an answer.          *)
Accept(id) ==
  /\ pending' = Append(pending, id)
  /\ UNCHANGED toHost

Collect ==
  /\ toHost # <<>>
  /\ toHost' = Tail(toHost)
  /\ UNCHANGED pending

Answer ==
  /\ pending # <<>>
  /\ toHost' = Append(toHost, Head(pending))
  /\ pending' = Tail(pending)

Lose ==
  /\ \E first \in 1..(Len(pending) + 1), last \in 0..Len(pending) :
       pending' = SubSeq(pending, first, last)
  /\ UNCHANGED toHost

EchoNext ==
  \/ \E id \in Id : Accept(id)
  \/ Collect
  \/ Answer
  \/ Lose

EchoSpec == EchoInit /\ [][EchoNext]_<<pending, toHost>>
=============================================================================
