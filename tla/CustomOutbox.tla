---------------------------- MODULE CustomOutbox ----------------------------
(* The outbox of examples/custom_outbox, which an application may put in    *)
(* the place of lib/mqtt_outbox.c: outbox_t with its deque and total_size.  *)
EXTENDS Outbox

CONSTANTS
  Messages,   \* records [id, type, len, rest]: rest bytes follow len others
  MaxItems,   \* bound: items at a time
  MaxSize,    \* bound: total_size
  Clears      \* whether outbox_delete_all_items is called

VARIABLES
  queue,      \* records [id, type, len, pending, old]
  totalSize   \* total_size

vars == <<queue, totalSize>>

Init == queue = <<>> /\ totalSize = 0

(* outbox_t::enqueue stores the first len bytes.                            *)
EnqueueMessage(m) ==
  /\ Len(queue) < MaxItems /\ totalSize + m.len <= MaxSize
  /\ queue' = Append(queue, [id |-> m.id, type |-> m.type, len |-> m.len,
                             pending |-> "queued", old |-> FALSE])
  /\ totalSize' = totalSize + m.len

(* outbox_t::erase_if, and delete_single_expired: the first item that       *)
(* matches, if any.                                                         *)
EraseFirst(i) ==
  /\ i # 0
  /\ queue' = RemoveAt(queue, i)
  /\ totalSize' = totalSize - queue[i].len

(* Mutant: the size is left.                                                *)
EraseHandleOnly(i) ==
  /\ i \in DOMAIN queue
  /\ queue' = RemoveAt(queue, i)
  /\ UNCHANGED totalSize

(* A handle is the address of an item of the queue.                         *)
EraseHandle(i) ==
  /\ i \in DOMAIN queue
  /\ queue' = RemoveAt(queue, i)
  /\ totalSize' = totalSize - queue[i].len
EraseMessage(id, type) ==
  EraseFirst(SelectInSeq(queue, LAMBDA item : item.id = id /\ item.type = type))
DeleteSingleExpired == EraseFirst(SelectInSeq(queue, LAMBDA item : item.old))

(* outbox_t::delete_expired, the predicate of std::erase_if with its effect.*)
DeleteExpired ==
  LET old == {i \in DOMAIN queue : queue[i].old}
  IN queue' = Without(queue, old) /\ totalSize' = totalSize - BytesAt(queue, old)

(* outbox_t::clear.                                                         *)
ClearQueue ==
  /\ Clears
  /\ queue' = <<>>
  /\ UNCHANGED totalSize

SetState(id, pending) ==
  /\ Get(queue, id) # 0
  /\ queue' = [queue EXCEPT ![Get(queue, id)].pending = pending]
  /\ UNCHANGED totalSize

SetTick(id) ==
  /\ Get(queue, id) # 0
  /\ queue' = [queue EXCEPT ![Get(queue, id)].old = FALSE]
  /\ UNCHANGED totalSize

TimePasses(i) ==
  /\ i \in DOMAIN queue
  /\ queue' = [queue EXCEPT ![i].old = TRUE]
  /\ UNCHANGED totalSize

Ids == {m.id : m \in Messages}
Types == {m.type : m \in Messages}

Next ==
  \/ \E m \in Messages : EnqueueMessage(m)
  \/ \E i \in 1..MaxItems : EraseHandle(i) \/ TimePasses(i)
  \/ \E id \in Ids, type \in Types : EraseMessage(id, type)
  \/ \E id \in Ids, pending \in {"queued", "transmitted", "acknowledged"} : SetState(id, pending)
  \/ \E id \in Ids : SetTick(id)
  \/ DeleteSingleExpired \/ DeleteExpired \/ ClearQueue

Spec == Init /\ [][Next]_vars

-----------------------------------------------------------------------------
(* The outbox of the library, with the same queue and total_size for its    *)
(* size, which holds every byte of a message.                               *)
Library == INSTANCE OutboxStore WITH
  Messages <- {[id |-> m.id, type |-> m.type, len |-> m.len + m.rest] : m \in Messages},
  items <- queue, size <- totalSize

(* It can take the place of the library's: the same items in the same order *)
(* after every call, and the same size.                                     *)
ImplementsLibrary == Library!Spec

(* Even when it is emptied, which leaves total_size as it was, total_size   *)
(* counts all that is there: it does not wrap below 0 and outbox_limit      *)
(* lets in no more than it should.                                          *)
NeverTooSmall == totalSize >= Bytes(queue)
=============================================================================
