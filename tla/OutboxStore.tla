---------------------------- MODULE OutboxStore -----------------------------
(* The outbox of lib/mqtt_outbox.c as a state machine: its items and the    *)
(* size it keeps beside them, which outbox_limit is compared with.          *)
EXTENDS Outbox

CONSTANTS
  Messages,  \* records [id, type, len]; len counts all bytes of the message
  MaxItems   \* bound: items at a time

VARIABLES
  items,  \* outbox->list: records [id, type, len, pending, old]
  size    \* outbox->size

vars == <<items, size>>

States == {"queued", "transmitted", "acknowledged"}

Item(m) == [id |-> m.id, type |-> m.type, len |-> m.len, pending |-> "new", old |-> FALSE]

Init == items = <<>> /\ size = 0

(* outbox_enqueue.                                                          *)
Put(m) ==
  /\ Len(items) < MaxItems
  /\ items' = Enqueue(items, Item(m))
  /\ size' = size + m.len

(* Mutant: the size is left.                                                *)
LeavesItsSize(i) == i # 0 /\ items' = DeleteItem(items, i) /\ UNCHANGED size

(* The item at position i leaves.                                           *)
Leaves(i) ==
  /\ i # 0
  /\ items' = DeleteItem(items, i)
  /\ size' = size - items[i].len

(* outbox_delete_item and outbox_delete.                                    *)
Drop(i) == i \in DOMAIN items /\ Leaves(i)
DropInitiator(id, type) == Leaves(Initiator(items, id, type))

(* outbox_set_pending and outbox_set_tick; an item is old when its tick is  *)
(* more than the timeout ago.                                               *)
Mark(id, pending) ==
  /\ items' = SetPending(items, id, pending)
  /\ UNCHANGED size
Refresh(id) ==
  /\ Get(items, id) # 0
  /\ items' = [items EXCEPT ![Get(items, id)].old = FALSE]
  /\ UNCHANGED size
Ages(i) ==
  /\ i \in DOMAIN items
  /\ items' = [items EXCEPT ![i].old = TRUE]
  /\ UNCHANGED size

(* outbox_delete_single_expired and outbox_delete_expired.                  *)
ExpireOne == Leaves(SelectInSeq(items, LAMBDA item : item.old))
ExpireAll ==
  LET old == {i \in DOMAIN items : items[i].old}
  IN items' = Without(items, old) /\ size' = size - BytesAt(items, old)

(* outbox_delete_all_items.                                                 *)
Clear == items' = <<>> /\ size' = size - Bytes(items)

Ids == {m.id : m \in Messages}
Types == {m.type : m \in Messages}

Next ==
  \/ \E m \in Messages : Put(m)
  \/ \E i \in 1..MaxItems : Drop(i) \/ Ages(i)
  \/ \E id \in Ids, type \in Types : DropInitiator(id, type)
  \/ \E id \in Ids, pending \in States : Mark(id, pending)
  \/ \E id \in Ids : Refresh(id)
  \/ ExpireOne \/ ExpireAll \/ Clear

Spec == Init /\ [][Next]_vars

(* The size is that of what the outbox holds: outbox_limit is never used up *)
(* by items that are gone.                                                  *)
SizeExact == size = Bytes(items)
=============================================================================
