------------------------------- MODULE Outbox -------------------------------
(* The outbox of esp-mqtt (lib/mqtt_outbox.c): a list of items looked up by *)
(* message id or by pending state, always the first that matches.  An item  *)
(* is a record with at least the fields id, type and pending.               *)
EXTENDS Integers, SequencesExt

(* outbox_get and outbox_dequeue.                                           *)
Get(q, id) == SelectInSeq(q, LAMBDA item : item.id = id)
Dequeue(q, pending) == SelectInSeq(q, LAMBDA item : item.pending = pending)

(* outbox_enqueue.                                                          *)
Enqueue(q, item) == Append(q, [item EXCEPT !.pending = "queued"])

(* outbox_delete_item.                                                      *)
DeleteItem(q, i) == IF i \in DOMAIN q THEN RemoveAt(q, i) ELSE q

(* outbox_delete.                                                           *)
Initiator(q, id, type) == SelectInSeq(q, LAMBDA item : item.id = id /\ item.type = type)
Delete(q, id, type) == DeleteItem(q, Initiator(q, id, type))

(* outbox_delete_expired: what is left of a list without the items at the   *)
(* positions in I, and the bytes of these.                                  *)
Without(q, I) ==
  LET left[i \in 0..Len(q)] ==
        IF i = 0 THEN <<>> ELSE IF i \in I THEN left[i - 1] ELSE Append(left[i - 1], q[i])
  IN left[Len(q)]
BytesAt(q, I) ==
  LET total[i \in 0..Len(q)] ==
        IF i = 0 THEN 0 ELSE IF i \in I THEN total[i - 1] + q[i].len ELSE total[i - 1]
  IN total[Len(q)]

(* What outbox_get_size should answer: the bytes of all items there are.    *)
Bytes(q) == BytesAt(q, DOMAIN q)

(* outbox_set_pending.                                                      *)
SetPending(q, id, pending) ==
  [i \in DOMAIN q |-> IF i = Get(q, id) THEN [q[i] EXCEPT !.pending = pending] ELSE q[i]]
=============================================================================
