--------------------------- MODULE SessionProofs ----------------------------
(* Theorems about the session of an esp-mqtt client (module Session): its   *)
(* types, that nothing is forgotten or released too early, the limit of the *)
(* outbox, and that it keeps the promise of module Delivery.                *)
EXTENDS Session, FiniteSetTheorems, SequenceTheorems, WellFoundedInduction, TLAPS

-----------------------------------------------------------------------------
(* The outbox: lib/mqtt_outbox.c as operators on sequences.                 *)

(* A set of numbers that is not empty has a least element, which Min is:    *)
(* the elements below each form a finite set, and one of those sets has no  *)
(* other inside it.                                                         *)
LEMMA MinIsLeast ==
  ASSUME NEW I \in SUBSET Nat, I # {}
  PROVE  Min(I) \in I /\ \A y \in I : Min(I) <= y
<1> DEFINE Below(x) == {y \in I : y <= x}
           T == {Below(x) : x \in I}
<1>1. IsWellFoundedOn(StrictSubsetOrdering(Nat), FiniteSubsetsOf(Nat))
  BY FS_StrictSubsetOrderingWellFounded
<1>2. T \subseteq FiniteSubsetsOf(Nat)
  <2> SUFFICES ASSUME NEW x \in I PROVE Below(x) \in FiniteSubsetsOf(Nat)
    OBVIOUS
  <2>1. IsFiniteSet(Below(x))
    BY FS_BoundedSetOfNaturals
  <2> QED BY <2>1 DEF FiniteSubsetsOf
<1>3. T # {}
  OBVIOUS
<1>4. PICK J \in T : \A K \in T : ~(<<K, J>> \in StrictSubsetOrdering(Nat))
  <2> HIDE DEF T
  <2> QED BY <1>1, <1>2, <1>3, WFMin
<1>5. PICK x \in I : J = Below(x)
  BY <1>4
<1>6. \A y \in I : x <= y
  <2> SUFFICES ASSUME NEW y \in I, y < x PROVE FALSE
    OBVIOUS
  <2>1. x \in Below(x) /\ x \notin Below(y)
    OBVIOUS
  <2>2. Below(y) \subseteq Below(x)
    <3> SUFFICES ASSUME NEW z \in I, z <= y PROVE z <= x
      OBVIOUS
    <3>1. x \in Nat /\ y \in Nat /\ z \in Nat
      OBVIOUS
    <3> QED BY <3>1
  <2>3. <<Below(y), Below(x)>> \in StrictSubsetOrdering(Nat)
    BY <2>1, <2>2 DEF StrictSubsetOrdering
  <2> QED BY <1>4, <1>5, <2>3
<1> QED BY <1>6 DEF Min

(* outbox_get finds an item with the id if there is one.                    *)
LEMMA GetFinds ==
  ASSUME NEW S, NEW q \in Seq(S), NEW id
  PROVE  IF \E i \in DOMAIN q : q[i].id = id
           THEN Get(q, id) \in DOMAIN q /\ q[Get(q, id)].id = id
           ELSE Get(q, id) = 0
<1> DEFINE I == {i \in 1..Len(q) : q[i].id = id}
<1>1. Get(q, id) = IF I = {} THEN 0 ELSE Min(I)
  BY DEF Get, SelectInSeq
<1>2. I \in SUBSET Nat /\ DOMAIN q = 1..Len(q)
  OBVIOUS
<1>3. I # {} => Min(I) \in I
  BY <1>2, MinIsLeast
<1> QED BY <1>1, <1>2, <1>3

(* outbox_dequeue finds an item in the pending state, if there is one.      *)
LEMMA DequeueFinds ==
  ASSUME NEW S, NEW q \in Seq(S), NEW pending
  PROVE  IF \E i \in DOMAIN q : q[i].pending = pending
           THEN Dequeue(q, pending) \in DOMAIN q /\ q[Dequeue(q, pending)].pending = pending
           ELSE Dequeue(q, pending) = 0
<1> DEFINE I == {i \in 1..Len(q) : q[i].pending = pending}
<1>1. Dequeue(q, pending) = IF I = {} THEN 0 ELSE Min(I)
  BY DEF Dequeue, SelectInSeq
<1>2. I \in SUBSET Nat /\ DOMAIN q = 1..Len(q)
  OBVIOUS
<1>3. I # {} => Min(I) \in I
  BY <1>2, MinIsLeast
<1> QED BY <1>1, <1>2, <1>3

(* outbox_delete finds an item with the id and the type, if there is one.   *)
LEMMA InitiatorFinds ==
  ASSUME NEW S, NEW q \in Seq(S), NEW id, NEW type
  PROVE  IF \E i \in DOMAIN q : q[i].id = id /\ q[i].type = type
           THEN /\ Initiator(q, id, type) \in DOMAIN q
                /\ q[Initiator(q, id, type)].id = id
                /\ q[Initiator(q, id, type)].type = type
           ELSE Initiator(q, id, type) = 0
<1> DEFINE I == {i \in 1..Len(q) : q[i].id = id /\ q[i].type = type}
<1>1. Initiator(q, id, type) = IF I = {} THEN 0 ELSE Min(I)
  BY DEF Initiator, SelectInSeq
<1>2. I \in SUBSET Nat /\ DOMAIN q = 1..Len(q)
  OBVIOUS
<1>3. I # {} => Min(I) \in I
  BY <1>2, MinIsLeast
<1> QED BY <1>1, <1>2, <1>3

(* What is left when item i is deleted, in the same order.                  *)
LEMMA DeleteItemLeaves ==
  ASSUME NEW S, NEW q \in Seq(S), NEW i \in DOMAIN q
  PROVE  /\ DeleteItem(q, i) \in Seq(S)
         /\ Len(DeleteItem(q, i)) = Len(q) - 1
         /\ \A k \in 1..(Len(q) - 1) : DeleteItem(q, i)[k] = q[IF k < i THEN k ELSE k + 1]
<1>1. i \in 1..Len(q) /\ Len(q) \in Nat
  OBVIOUS
<1>2. DeleteItem(q, i) = SubSeq(q, 1, i - 1) \o SubSeq(q, i + 1, Len(q))
  BY Zenon DEF DeleteItem, RemoveAt
<1> DEFINE a == SubSeq(q, 1, i - 1)
           b == SubSeq(q, i + 1, Len(q))
<1>3. /\ a \in Seq(S) /\ Len(a) = i - 1 /\ \A k \in 1..(i - 1) : a[k] = q[k]
  BY <1>1, SubSeqProperties
<1>4. /\ b \in Seq(S) /\ Len(b) = Len(q) - i /\ \A k \in 1..(Len(q) - i) : b[k] = q[k + i]
  <2>1. \A k \in (i + 1)..Len(q) : q[k] \in S
    BY <1>1
  <2>2. /\ Len(b) = IF i + 1 <= Len(q) THEN Len(q) - (i + 1) + 1 ELSE 0
        /\ \A k \in 1..(Len(q) - (i + 1) + 1) : b[k] = q[(i + 1) + k - 1]
        /\ b \in Seq(S)
    BY <1>1, <2>1, SubSeqProperties
  <2> QED BY <1>1, <2>2
<1> HIDE DEF a, b
<1>5. /\ Len(a \o b) = Len(a) + Len(b)
      /\ \A k \in 1..(Len(a) + Len(b)) : (a \o b)[k] = IF k <= Len(a) THEN a[k] ELSE b[k - Len(a)]
      /\ a \o b \in Seq(S)
  BY <1>3, <1>4, ConcatProperties
<1>6. DeleteItem(q, i) = a \o b
  BY <1>2 DEF a, b
<1>7. ASSUME NEW k \in 1..(Len(q) - 1)
      PROVE  (a \o b)[k] = q[IF k < i THEN k ELSE k + 1]
  <2>1. k \in Nat /\ k \in 1..(Len(a) + Len(b)) /\ Len(a) = i - 1
    BY <1>1, <1>3, <1>4
  <2>2. (a \o b)[k] = IF k <= Len(a) THEN a[k] ELSE b[k - Len(a)]
    BY <1>5, <2>1
  <2>3. CASE k < i
    <3>1. k <= Len(a) /\ k \in 1..(i - 1)
      BY <1>1, <1>3, <2>3
    <3> QED BY <1>3, <2>2, <2>3, <3>1
  <2>4. CASE ~(k < i)
    <3>1. k - Len(a) \in 1..(Len(q) - i) /\ k - Len(a) + i = k + 1 /\ ~(k <= Len(a))
      BY <1>1, <1>3, <2>4
    <3>2. b[k - Len(a)] = q[k - Len(a) + i]
      BY <1>4, <3>1
    <3> QED BY <2>2, <2>4, <3>1, <3>2
  <2> QED BY <2>3, <2>4
<1>8. Len(a \o b) = Len(q) - 1
  BY <1>1, <1>3, <1>4, <1>5
<1> QED BY <1>5, <1>6, <1>7, <1>8, Zenon

(* outbox_set_pending changes one field of the first item with the id.      *)
LEMMA SetPendingMarks ==
  ASSUME NEW q \in Seq(Item), NEW id, NEW pending \in {"queued", "transmitted", "acknowledged"}
  PROVE  /\ SetPending(q, id, pending) \in Seq(Item)
         /\ DOMAIN SetPending(q, id, pending) = DOMAIN q
         /\ \A i \in DOMAIN q :
              /\ SetPending(q, id, pending)[i].id = q[i].id
              /\ SetPending(q, id, pending)[i].type = q[i].type
              /\ SetPending(q, id, pending)[i].qos = q[i].qos
              /\ SetPending(q, id, pending)[i].pending =
                   IF i = Get(q, id) THEN pending ELSE q[i].pending
<1>1. DOMAIN q = 1..Len(q) /\ Len(q) \in Nat
  OBVIOUS
<1>2. \A i \in DOMAIN q : q[i] \in Item
  OBVIOUS
<1>3. \A i \in DOMAIN q : [q[i] EXCEPT !.pending = pending] \in Item
  BY <1>2 DEF Item
<1>4. SetPending(q, id, pending) \in [1..Len(q) -> Item]
  BY <1>1, <1>2, <1>3 DEF SetPending
<1>5. SetPending(q, id, pending) \in Seq(Item)
  BY <1>1, <1>4, SeqDef
<1> QED BY <1>1, <1>2, <1>5 DEF SetPending, Item

-----------------------------------------------------------------------------
(* The inductive invariant.                                                 *)

(* A message is settled when its item is acknowledged or gone: it will not  *)
(* be sent as a PUBLISH any more.                                           *)
Has(q, id) == \E i \in DOMAIN q : q[i].id = id
Settled(id) == \A i \in DOMAIN outbox : outbox[i].id = id => outbox[i].pending = "acknowledged"

(* Ids are given out in order; what was delivered was handed over.          *)
IdsInv ==
  /\ \A id \in Ids : qos[id] # 0 => id <= lastId
  /\ \A id \in Ids : delivered[id] # 0 => qos[id] # 0
  /\ \A id \in held : delivered[id] # 0

(* What an item says of its message, and what is behind an acknowledgement. *)
ItemOK(item) ==
  /\ item.id <= lastId
  /\ item.id = 0 => item.type = "publish" /\ item.qos = 0
  /\ item.id # 0 => item.qos = qos[item.id] /\ (item.type = "publish" <=> qos[item.id] # 0)
  /\ item.pending = "acknowledged" => item.id # 0 /\ delivered[item.id] # 0
OutboxInv == \A i \in DOMAIN outbox : ItemOK(outbox[i])

(* A packet on the way to the broker: a PUBLISH carries the QoS of its      *)
(* message, a PUBREL goes to a broker that has it and follows the last      *)
(* PUBLISH.                                                                 *)
UpOK(p) ==
  /\ p.type \notin {"puback", "suback", "unsuback"}
  /\ p.type = "publish" /\ p.id = 0 => p.qos = 0
  /\ p.type = "publish" /\ p.id # 0 => p.id \in Ids /\ p.qos = qos[p.id] /\ p.qos # 0
  /\ p.type = "pubrel" => p.id \in Ids /\ delivered[p.id] # 0 /\ Settled(p.id)
  /\ p.type \in {"pubrec", "pubcomp"} => p.id - MaxId \in 1..setting.inbound
ReleaseLast(ps) ==
  \A i, j \in DOMAIN ps :
    i < j /\ ps[i].type = "pubrel" => ~(ps[j].type = "publish" /\ ps[j].id = ps[i].id)
UpInv == (\A i \in DOMAIN up : UpOK(up[i])) /\ ReleaseLast(up)

(* A packet on the way to the client acknowledges what was delivered.       *)
DownOK(p) ==
  /\ p.type \in {"puback", "pubrec", "pubcomp"} => p.id \in Ids /\ delivered[p.id] # 0
  /\ p.type \in {"publish", "pubrel"} => p.id - MaxId \in 1..setting.inbound
DownInv == \A i \in DOMAIN down : DownOK(down[i])

(* A QoS 2 message that the broker has passed on and released does not come *)
(* to it again.                                                             *)
OverInv ==
  \A id \in Ids : qos[id] = 2 /\ delivered[id] # 0 /\ id \notin held =>
    /\ Settled(id)
    /\ \A i \in DOMAIN up : ~(up[i].type = "publish" /\ up[i].id = id)

KeptInv == \A id \in Ids : qos[id] # 0 => id \in published \cup expired \/ Has(outbox, id)

SessionInv ==
  /\ SessionTypeOK /\ IdsInv /\ OutboxInv /\ UpInv /\ DownInv /\ OverInv /\ KeptInv

-----------------------------------------------------------------------------
(* What can happen to the outbox.                                           *)

(* A new item keeps what is there.                                          *)
LEMMA ItemAdded ==
  ASSUME SessionTypeOK, IdsInv, OutboxInv, NEW item \in Item,
         lastId < MaxId, lastId' = lastId + 1, outbox' = Append(outbox, item),
         UNCHANGED delivered, \A id \in Ids : id <= lastId => qos'[id] = qos[id],
         item.id \in {0, lastId + 1}, ItemOK(item)', item.pending # "acknowledged"
  PROVE  /\ outbox' \in Seq(Item) /\ Unique(outbox')
         /\ OutboxInv'
         /\ \A id \in 1..lastId : Settled(id) => Settled(id)'
         /\ \A id \in Ids : Has(outbox, id) => Has(outbox', id)
         /\ Has(outbox', item.id)
         /\ item.id # 0 => ~Settled(item.id)'
<1>0. MaxId \in Nat /\ lastId \in 0..MaxId
  BY SessionAssumption DEF SessionTypeOK
<1>1. outbox \in Seq(Item) /\ Unique(outbox)
  BY DEF SessionTypeOK, Unique
<1>2. /\ outbox' \in Seq(Item) /\ Len(outbox') = Len(outbox) + 1
      /\ \A i \in 1..Len(outbox) : outbox'[i] = outbox[i]
      /\ outbox'[Len(outbox) + 1] = item
  BY <1>1, AppendProperties
<1>3. /\ DOMAIN outbox = 1..Len(outbox) /\ DOMAIN outbox' = 1..(Len(outbox) + 1)
      /\ Len(outbox) \in Nat
  BY <1>1, <1>2
<1>4. \A i \in DOMAIN outbox : outbox[i] \in Item /\ outbox[i].id \in 0..lastId
  <2>1. \A i \in DOMAIN outbox : outbox[i] \in Item /\ outbox[i].id <= lastId
    BY <1>1 DEF OutboxInv, ItemOK
  <2>2. \A i \in DOMAIN outbox : outbox[i].id \in 0..MaxId
    BY <2>1 DEF Item
  <2> QED BY <1>0, <2>1, <2>2
<1>5. Unique(outbox')
  <2> SUFFICES ASSUME NEW i \in DOMAIN outbox', NEW j \in DOMAIN outbox',
                      outbox'[i].id = outbox'[j].id, outbox'[i].id # 0
               PROVE  i = j
    BY DEF Unique
  <2>1. CASE i \in DOMAIN outbox /\ j \in DOMAIN outbox
    BY <1>1, <1>2, <1>3, <2>1 DEF Unique
  <2>2. CASE i = Len(outbox) + 1 /\ j \in DOMAIN outbox
    <3>1. outbox'[i].id \in {0, lastId + 1} /\ outbox'[j].id \in 0..lastId
      BY <1>2, <1>3, <1>4, <2>2
    <3> QED BY <1>0, <3>1
  <2>3. CASE i \in DOMAIN outbox /\ j = Len(outbox) + 1
    <3>1. outbox'[j].id \in {0, lastId + 1} /\ outbox'[i].id \in 0..lastId
      BY <1>2, <1>3, <1>4, <2>3
    <3> QED BY <1>0, <3>1
  <2> QED BY <1>3, <2>1, <2>2, <2>3
<1>6. OutboxInv'
  <2> SUFFICES ASSUME NEW i \in DOMAIN outbox' PROVE ItemOK(outbox[i])'
    BY DEF OutboxInv
  <2>1. CASE i = Len(outbox) + 1
    BY <1>2, <2>1 DEF ItemOK
  <2>2. CASE i \in DOMAIN outbox
    <3>1. outbox'[i] = outbox[i] /\ ItemOK(outbox[i]) /\ outbox[i].id \in 0..lastId
      BY <1>2, <1>3, <1>4, <2>2 DEF OutboxInv
    <3>2. outbox[i].id # 0 => outbox[i].id \in Ids /\ qos'[outbox[i].id] = qos[outbox[i].id]
      BY <3>1, <1>0, <1>1 DEF Ids
    <3>3. outbox[i].id <= lastId'
      BY <3>1, <1>0
    <3> QED BY <3>1, <3>2, <3>3 DEF ItemOK
  <2> QED BY <1>3, <2>1, <2>2
<1>7. ASSUME NEW id \in 1..lastId, Settled(id) PROVE Settled(id)'
  <2>1. item.id # id
    BY <1>0
  <2>2. \A i \in DOMAIN outbox' : (i \in DOMAIN outbox /\ outbox'[i] = outbox[i]) \/ outbox'[i] = item
    BY <1>2, <1>3
  <2> QED BY <1>7, <2>1, <2>2 DEF Settled
<1>8. ASSUME NEW id \in Ids, Has(outbox, id) PROVE Has(outbox', id)
  BY <1>2, <1>3, <1>8 DEF Has
<1>9. Has(outbox', item.id) /\ (item.id # 0 => ~Settled(item.id)')
  BY <1>2, <1>3 DEF Has, Settled
<1> QED BY <1>2, <1>5, <1>6, <1>7, <1>8, <1>9

(* When an item leaves, the others stay.                                    *)
LEMMA ItemLeaves ==
  ASSUME SessionTypeOK, OutboxInv, NEW i \in DOMAIN outbox,
         outbox' = DeleteItem(outbox, i), UNCHANGED <<lastId, qos, delivered>>
  PROVE  /\ outbox' \in Seq(Item) /\ Unique(outbox')
         /\ OutboxInv'
         /\ \A id \in Ids : Settled(id) => Settled(id)'
         /\ \A id \in Ids : Has(outbox, id) /\ outbox[i].id # id => Has(outbox', id)
<1>1. outbox \in Seq(Item) /\ Unique(outbox)
  BY DEF SessionTypeOK, Unique
<1> DEFINE At(k) == IF k < i THEN k ELSE k + 1
<1>2. /\ outbox' \in Seq(Item) /\ Len(outbox') = Len(outbox) - 1
      /\ \A k \in 1..(Len(outbox) - 1) : outbox'[k] = outbox[At(k)]
  BY <1>1, DeleteItemLeaves
<1>3. /\ DOMAIN outbox = 1..Len(outbox) /\ DOMAIN outbox' = 1..(Len(outbox) - 1)
      /\ Len(outbox) \in Nat
  BY <1>1, <1>2
<1>4. \A k \in DOMAIN outbox' : At(k) \in DOMAIN outbox /\ outbox'[k] = outbox[At(k)]
  BY <1>2, <1>3
<1>5. \A k, l \in DOMAIN outbox' : At(k) = At(l) => k = l
  BY <1>3
<1>6. \A j \in DOMAIN outbox : j # i => \E k \in DOMAIN outbox' : At(k) = j
  <2> SUFFICES ASSUME NEW j \in DOMAIN outbox, j # i
               PROVE  \E k \in DOMAIN outbox' : At(k) = j
    OBVIOUS
  <2>1. CASE j < i
    <3>1. j \in DOMAIN outbox' /\ At(j) = j
      BY <1>3, <2>1
    <3> QED BY <3>1
  <2>2. CASE j > i
    <3>1. j - 1 \in DOMAIN outbox' /\ At(j - 1) = j
      BY <1>3, <2>2
    <3> QED BY <3>1
  <2> QED BY <1>3, <2>1, <2>2
<1> HIDE DEF At
<1>7. Unique(outbox')
  BY <1>1, <1>4, <1>5 DEF Unique
<1>8. OutboxInv'
  BY <1>4 DEF OutboxInv, ItemOK
<1>9. \A id \in Ids : Settled(id) => Settled(id)'
  BY <1>4 DEF Settled
<1>10. ASSUME NEW id \in Ids, Has(outbox, id), outbox[i].id # id PROVE Has(outbox', id)
  BY <1>4, <1>6, <1>10 DEF Has
<1> QED BY <1>2, <1>7, <1>8, <1>9, <1>10

(* An item that is marked stays with its message.                           *)
LEMMA ItemMarked ==
  ASSUME SessionTypeOK, OutboxInv, NEW id \in Ids, NEW pending \in {"transmitted", "acknowledged"},
         outbox' = SetPending(outbox, id, pending), UNCHANGED <<lastId, qos, delivered>>,
         pending = "acknowledged" => delivered[id] # 0,
         pending = "transmitted" => ~Settled(id)
  PROVE  /\ outbox' \in Seq(Item) /\ Unique(outbox') /\ DOMAIN outbox' = DOMAIN outbox
         /\ OutboxInv'
         /\ \A x \in Ids : Settled(x) => Settled(x)'
         /\ pending = "acknowledged" => Settled(id)'
         /\ pending = "transmitted" => ~Settled(id)'
         /\ \A x \in Ids : Has(outbox, x) => Has(outbox', x)
<1>1. outbox \in Seq(Item) /\ Unique(outbox)
  BY DEF SessionTypeOK, Unique
<1>2. /\ outbox' \in Seq(Item) /\ DOMAIN outbox' = DOMAIN outbox
      /\ \A i \in DOMAIN outbox :
           /\ outbox'[i].id = outbox[i].id
           /\ outbox'[i].type = outbox[i].type
           /\ outbox'[i].qos = outbox[i].qos
           /\ outbox'[i].pending = IF i = Get(outbox, id) THEN pending ELSE outbox[i].pending
  BY <1>1, SetPendingMarks
<1>3. IF Has(outbox, id) THEN Get(outbox, id) \in DOMAIN outbox /\ outbox[Get(outbox, id)].id = id
      ELSE Get(outbox, id) = 0
  BY <1>1, GetFinds DEF Has
<1>4. id # 0 /\ 0 \notin DOMAIN outbox
  BY <1>1 DEF Ids
<1>5. \A i \in DOMAIN outbox : outbox[i].id = id <=> i = Get(outbox, id)
  BY <1>1, <1>3, <1>4 DEF Unique, Has
<1>6. Unique(outbox')
  BY <1>1, <1>2 DEF Unique
<1>7. OutboxInv'
  <2> SUFFICES ASSUME NEW i \in DOMAIN outbox PROVE ItemOK(outbox[i])'
    BY <1>2 DEF OutboxInv
  <2>1. ItemOK(outbox[i])
    BY DEF OutboxInv
  <2> QED BY <1>2, <1>4, <1>5, <2>1 DEF ItemOK
<1>8. \A x \in Ids : Settled(x) => Settled(x)'
  BY <1>2, <1>5 DEF Settled
<1>9. /\ pending = "acknowledged" => Settled(id)'
      /\ pending = "transmitted" => ~Settled(id)'
  BY <1>2, <1>5 DEF Settled
<1>10. \A x \in Ids : Has(outbox, x) => Has(outbox', x)
  BY <1>2 DEF Has
<1> QED BY <1>2, <1>6, <1>7, <1>8, <1>9, <1>10
(* esp_mqtt_client_subscribe marks the item it has just put in: the one     *)
(* item with its id is the last.                                            *)
LEMMA MarkedAtOnce ==
  ASSUME NEW q \in Seq(Item), NEW item \in Item, \A i \in DOMAIN q : q[i].id # item.id
  PROVE  SetPending(Enqueue(q, item), item.id, "transmitted")
           = Append(q, [item EXCEPT !.pending = "transmitted"])
<1> DEFINE a == [item EXCEPT !.pending = "queued"]
           b == [item EXCEPT !.pending = "transmitted"]
           e == Append(q, a)
<1>1. a \in Item /\ b \in Item /\ a.id = item.id /\ b = [a EXCEPT !.pending = "transmitted"]
  BY DEF Item
<1> HIDE DEF a, b
<1>2. /\ e \in Seq(Item) /\ Len(e) = Len(q) + 1 /\ e[Len(q) + 1] = a
      /\ \A i \in 1..Len(q) : e[i] = q[i]
  BY <1>1, AppendProperties
<1>3. /\ Append(q, b) \in Seq(Item) /\ Len(Append(q, b)) = Len(q) + 1
      /\ Append(q, b)[Len(q) + 1] = b
      /\ \A i \in 1..Len(q) : Append(q, b)[i] = q[i]
  BY <1>1, AppendProperties
<1> HIDE DEF e
<1>4. Len(q) \in Nat /\ DOMAIN q = 1..Len(q) /\ DOMAIN e = 1..(Len(q) + 1)
  BY <1>2
<1>5. \A i \in DOMAIN e : e[i].id = item.id => i = Len(q) + 1
  BY <1>2, <1>4
<1>6. Get(e, item.id) = Len(q) + 1
  <2>1. Len(q) + 1 \in DOMAIN e /\ e[Len(q) + 1].id = item.id
    BY <1>1, <1>2, <1>4
  <2>2. Get(e, item.id) \in DOMAIN e /\ e[Get(e, item.id)].id = item.id
    BY <1>2, <2>1, GetFinds
  <2> QED BY <1>5, <2>2
<1>7. SetPending(e, item.id, "transmitted")
        = [i \in 1..(Len(q) + 1) |-> IF i = Len(q) + 1 THEN b ELSE e[i]]
  <2>1. \A i \in 1..(Len(q) + 1) :
          (IF i = Get(e, item.id) THEN [e[i] EXCEPT !.pending = "transmitted"] ELSE e[i])
            = (IF i = Len(q) + 1 THEN b ELSE e[i])
    BY <1>1, <1>2, <1>6
  <2> QED BY <1>4, <2>1, Zenon DEF SetPending
<1>8. Append(q, b) = [i \in 1..(Len(q) + 1) |-> IF i = Len(q) + 1 THEN b ELSE e[i]]
  <2>1. Append(q, b) = [i \in 1..(Len(q) + 1) |-> Append(q, b)[i]]
    <3>1. Append(q, b) \in [1..Len(Append(q, b)) -> Item]
      BY <1>3, LenProperties
    <3> QED BY <1>3, <3>1
  <2>2. \A i \in 1..(Len(q) + 1) : Append(q, b)[i] = IF i = Len(q) + 1 THEN b ELSE e[i]
    BY <1>2, <1>3, <1>4
  <2> QED BY <2>1, <2>2, Zenon
<1> QED BY <1>7, <1>8, Zenon DEF Enqueue, e, a, b

-----------------------------------------------------------------------------
(* What can happen on the wire.                                             *)

(* No step takes back what was handed over, delivered or settled.           *)
Onward ==
  /\ UNCHANGED setting
  /\ \A id \in Ids : qos[id] # 0 => qos'[id] = qos[id]
  /\ \A id \in Ids : delivered[id] # 0 => delivered'[id] # 0
  /\ \A id \in Ids : delivered[id] # 0 /\ Settled(id) => Settled(id)'

(* Packets that may be written now.                                         *)
Writable(ps) ==
  /\ ps \in Seq(Packet)
  /\ \A n \in DOMAIN ps : UpOK(ps[n])
  /\ ReleaseLast(ps)
  /\ \A n \in DOMAIN ps : ps[n].type = "publish" /\ ps[n].id # 0 => ~Settled(ps[n].id)

LEMMA UpOKStays ==
  ASSUME Onward, NEW p, UpOK(p)
  PROVE  UpOK(p)'
<1>1. p.type = "publish" /\ p.id # 0 => qos'[p.id] = qos[p.id]
  BY DEF UpOK, Onward
<1>2. p.type = "pubrel" => delivered'[p.id] # 0 /\ Settled(p.id)'
  BY DEF UpOK, Onward
<1> QED BY <1>1, <1>2 DEF UpOK, Onward

(* Writing, by the client.                                                  *)
LEMMA Written ==
  ASSUME SessionInv, Onward, NEW ps, Writable(ps)', up' = up \o ps, UNCHANGED <<held, delivered>>
  PROVE  up' \in Seq(Packet)' /\ UpInv' /\ OverInv'
<1>1. Packet' = Packet
  BY DEF Packet, Onward
<1>2. up \in Seq(Packet) /\ ps \in Seq(Packet)
  BY <1>1 DEF SessionInv, SessionTypeOK, Writable
<1>3. /\ up' \in Seq(Packet) /\ Len(up') = Len(up) + Len(ps)
      /\ \A i \in 1..(Len(up) + Len(ps)) : up'[i] = IF i <= Len(up) THEN up[i] ELSE ps[i - Len(up)]
  BY <1>2, ConcatProperties
<1>4. /\ Len(up) \in Nat /\ Len(ps) \in Nat /\ DOMAIN up = 1..Len(up) /\ DOMAIN ps = 1..Len(ps)
      /\ DOMAIN up' = 1..(Len(up) + Len(ps))
  BY <1>2, <1>3
<1>5. \A i \in DOMAIN up' : \/ i \in DOMAIN up /\ up'[i] = up[i]
                            \/ i - Len(up) \in DOMAIN ps /\ up'[i] = ps[i - Len(up)]
  BY <1>3, <1>4
<1>6. \A i \in DOMAIN up' : UpOK(up[i])'
  <2> SUFFICES ASSUME NEW i \in DOMAIN up' PROVE UpOK(up[i])'
    OBVIOUS
  <2>1. CASE i \in DOMAIN up /\ up'[i] = up[i]
    <3>1. UpOK(up[i])
      BY <2>1 DEF SessionInv, UpInv
    <3> DEFINE p == up[i]
    <3>2. UpOK(p) /\ up'[i] = p
      BY <2>1, <3>1
    <3> HIDE DEF p
    <3>3. PICK x : x = p
      OBVIOUS
    <3>4. UpOK(x)
      BY <3>2, <3>3
    <3>5. UpOK(x)'
      BY <3>4, UpOKStays
    <3>6. up'[i] = x
      BY <3>2, <3>3
    <3> QED BY <3>5, <3>6 DEF UpOK
  <2>2. CASE i - Len(up) \in DOMAIN ps /\ up'[i] = ps[i - Len(up)]
    BY <2>2 DEF Writable, UpOK
  <2> QED BY <1>5, <2>1, <2>2
<1>7. ReleaseLast(up)'
  <2> SUFFICES ASSUME NEW i \in DOMAIN up', NEW j \in DOMAIN up', i < j,
                      up'[i].type = "pubrel", up'[j].type = "publish", up'[j].id = up'[i].id
               PROVE  FALSE
    BY DEF ReleaseLast
  <2>1. CASE j \in DOMAIN up
    <3>1. i \in DOMAIN up /\ up'[i] = up[i] /\ up'[j] = up[j]
      BY <1>3, <1>4, <2>1
    <3> QED BY <2>1, <3>1 DEF SessionInv, UpInv, ReleaseLast
  <2>2. CASE i \in DOMAIN up /\ j - Len(up) \in DOMAIN ps
    <3>1. up'[i] = up[i] /\ up'[j] = ps[j - Len(up)]
      BY <1>3, <1>4, <2>2
    <3>2. UpOK(up[i])'
      BY <1>6
    <3>0. PICK id : id = up'[i].id
      OBVIOUS
    <3>3. Settled(id)' /\ id # 0
      BY <3>0, <3>2 DEF UpOK, Ids, Settled
    <3>4. ps[j - Len(up)].type = "publish" /\ ps[j - Len(up)].id = id
      BY <3>0, <3>1
    <3>5. ~Settled(id)'
      BY <2>2, <3>3, <3>4 DEF Writable, Settled
    <3> QED BY <3>3, <3>5
  <2>3. CASE i - Len(up) \in DOMAIN ps /\ j - Len(up) \in DOMAIN ps
    <3>1. up'[i] = ps[i - Len(up)] /\ up'[j] = ps[j - Len(up)] /\ i - Len(up) < j - Len(up)
      BY <1>3, <1>4, <2>3
    <3>2. ReleaseLast(ps)
      BY DEF Writable, ReleaseLast
    <3> QED BY <2>3, <3>1, <3>2 DEF ReleaseLast
  <2> QED BY <1>3, <1>4, <2>1, <2>2, <2>3
<1>8. OverInv'
  <2> SUFFICES ASSUME NEW id \in Ids, qos'[id] = 2, delivered'[id] # 0, id \notin held'
               PROVE  /\ Settled(id)'
                      /\ \A i \in DOMAIN up' : ~(up'[i].type = "publish" /\ up'[i].id = id)
    BY DEF OverInv
  <2>1. qos[id] = 2 /\ delivered[id] # 0 /\ id \notin held
    BY DEF SessionInv, IdsInv, Onward
  <2>2. /\ Settled(id)
        /\ \A i \in DOMAIN up : ~(up[i].type = "publish" /\ up[i].id = id)
    BY <2>1 DEF SessionInv, OverInv
  <2>3. Settled(id)' /\ id # 0
    BY <2>1, <2>2 DEF Onward, Ids
  <2> QED BY <1>5, <2>2, <2>3 DEF Writable
<1> QED BY <1>1, <1>3, <1>6, <1>7, <1>8 DEF UpInv

(* Writing nothing.                                                         *)
LEMMA NotWritten ==
  ASSUME SessionInv, Onward, UNCHANGED <<up, held, delivered>>
  PROVE  up' \in Seq(Packet)' /\ UpInv' /\ OverInv'
<1>1. up \in Seq(Packet)
  BY DEF SessionInv, SessionTypeOK
<1>2. up' = up \o << >>
  BY <1>1
<1>3. Writable(<< >>)'
  BY DEF Writable, ReleaseLast
<1> QED BY <1>2, <1>3, Written

(* Reading, by the broker.                                                  *)
LEMMA Taken ==
  ASSUME SessionInv, Onward, up # << >>, up' = Tail(up)
  PROVE  /\ up' \in Seq(Packet)' /\ UpInv'
         /\ \A i \in DOMAIN up' : i + 1 \in DOMAIN up /\ up'[i] = up[i + 1] /\ i + 1 > 1
         /\ Head(up) = up[1] /\ Head(up) \in Packet /\ UpOK(Head(up))
<1>1. Packet' = Packet
  BY DEF Packet, Onward
<1>2. up \in Seq(Packet)
  BY DEF SessionInv, SessionTypeOK
<1>3. /\ Head(up) = up[1] /\ Head(up) \in Packet /\ 1 \in DOMAIN up
      /\ up' \in Seq(Packet) /\ Len(up') = Len(up) - 1 /\ Len(up) \in Nat
      /\ DOMAIN up = 1..Len(up) /\ DOMAIN up' = 1..(Len(up) - 1)
      /\ \A i \in 1..(Len(up) - 1) : up'[i] = up[i + 1]
  BY <1>2, HeadTailProperties
<1>4. \A i \in DOMAIN up' : i + 1 \in DOMAIN up /\ up'[i] = up[i + 1] /\ i + 1 > 1
  BY <1>3
<1>5. \A i \in DOMAIN up : UpOK(up[i])
  BY DEF SessionInv, UpInv
<1>6. \A i \in DOMAIN up' : UpOK(up[i])'
  <2> SUFFICES ASSUME NEW i \in DOMAIN up' PROVE UpOK(up[i])'
    OBVIOUS
  <2>1. PICK x : x = up[i + 1]
    OBVIOUS
  <2>2. UpOK(x) /\ up'[i] = x
    BY <1>4, <1>5, <2>1
  <2>3. UpOK(x)'
    BY <2>2, UpOKStays
  <2> QED BY <2>2, <2>3 DEF UpOK
<1>7. ReleaseLast(up)'
  <2>1. ReleaseLast(up)
    BY DEF SessionInv, UpInv
  <2>2. \A i, j \in DOMAIN up' : i < j => i + 1 < j + 1
    BY <1>3
  <2> QED BY <1>4, <2>1, <2>2 DEF ReleaseLast
<1> QED BY <1>1, <1>3, <1>4, <1>5, <1>6, <1>7 DEF UpInv

(* The other way: what was on its way, the rest of it, nothing, or more.    *)
LEMMA Answered ==
  ASSUME SessionInv, Onward, NEW ps \in Seq(Packet'), \A n \in DOMAIN ps : DownOK(ps[n])',
         \/ down' = down \/ down' = << >> \/ down' = down \o ps
         \/ down # << >> /\ down' = Tail(down)
  PROVE  down' \in Seq(Packet)' /\ DownInv'
<1>1. Packet' = Packet
  BY DEF Packet, Onward
<1>2. down \in Seq(Packet) /\ ps \in Seq(Packet)
  BY <1>1 DEF SessionInv, SessionTypeOK
<1>3. \A i \in DOMAIN down : DownOK(down[i])
  BY DEF SessionInv, DownInv
<1>4. ASSUME NEW p, DownOK(p) PROVE DownOK(p)'
  BY <1>4 DEF DownOK, Onward
<1>5. /\ down' \in Seq(Packet)
      /\ \A i \in DOMAIN down' : \/ \E j \in DOMAIN down : down'[i] = down[j]
                                 \/ \E j \in DOMAIN ps : down'[i] = ps[j]
  <2>0. CASE down' = << >>
    <3>1. down' \in Seq(Packet) /\ DOMAIN down' = {}
      BY <2>0
    <3> QED BY <3>1
  <2>1. CASE down' = down
    BY <1>2, <2>1
  <2>2. CASE down' = down \o ps
    <3>1. /\ down' \in Seq(Packet) /\ Len(down') = Len(down) + Len(ps)
          /\ \A i \in 1..(Len(down) + Len(ps)) :
               down'[i] = IF i <= Len(down) THEN down[i] ELSE ps[i - Len(down)]
      BY <1>2, <2>2, ConcatProperties
    <3>2. /\ Len(down) \in Nat /\ Len(ps) \in Nat /\ DOMAIN down = 1..Len(down)
          /\ DOMAIN ps = 1..Len(ps) /\ DOMAIN down' = 1..(Len(down) + Len(ps))
      BY <1>2, <3>1
    <3>3. \A i \in DOMAIN down' : /\ i <= Len(down) => i \in DOMAIN down
                                  /\ ~(i <= Len(down)) => i - Len(down) \in DOMAIN ps
      <4> DEFINE l == Len(down)
                 m == Len(ps)
      <4>1. l \in Nat /\ m \in Nat
        BY <3>2
      <4> HIDE DEF l, m
      <4>2. \A i \in 1..(l + m) : /\ i <= l => i \in 1..l
                                  /\ ~(i <= l) => i - l \in 1..m
        BY <4>1
      <4> QED BY <3>2, <4>2 DEF l, m
    <3>4. \A i \in DOMAIN down' : /\ i <= Len(down) => down'[i] = down[i]
                                  /\ ~(i <= Len(down)) => down'[i] = ps[i - Len(down)]
      BY <3>1, <3>2, Zenon
    <3>5. \A i \in DOMAIN down' : \/ \E j \in DOMAIN down : down'[i] = down[j]
                                  \/ \E j \in DOMAIN ps : down'[i] = ps[j]
      <4> TAKE i \in DOMAIN down'
      <4>1. CASE i <= Len(down)
        BY <3>3, <3>4, <4>1, Zenon
      <4>2. CASE ~(i <= Len(down))
        BY <3>3, <3>4, <4>2, Zenon
      <4> QED BY <4>1, <4>2
    <3> QED BY <3>1, <3>5
  <2>3. CASE down # << >> /\ down' = Tail(down)
    <3>1. /\ down' \in Seq(Packet) /\ Len(down') = Len(down) - 1 /\ Len(down) \in Nat
          /\ DOMAIN down = 1..Len(down) /\ DOMAIN down' = 1..(Len(down) - 1)
          /\ \A i \in 1..(Len(down) - 1) : down'[i] = down[i + 1]
      BY <1>2, <2>3, HeadTailProperties
    <3>2. \A i \in DOMAIN down' : i + 1 \in DOMAIN down /\ down'[i] = down[i + 1]
      BY <3>1
    <3> QED BY <3>1, <3>2
  <2> QED BY <2>0, <2>1, <2>2, <2>3
<1>6. DownInv'
  <2> SUFFICES ASSUME NEW i \in DOMAIN down' PROVE DownOK(down[i])'
    BY DEF DownInv
  <2>1. PICK x : x = down'[i]
    OBVIOUS
  <2>2. DownOK(x)'
    BY <1>3, <1>4, <1>5, <2>1
  <2> QED BY <2>1, <2>2 DEF DownOK
<1> QED BY <1>1, <1>5, <1>6
(* What is packed is a packet.                                              *)
PacketIds == 0..(MaxId + setting.inbound)
PacketTypes == Types \cup {"pubrel", "puback", "pubrec", "pubcomp", "suback", "unsuback"}

LEMMA IdsArePacketIds ==
  ASSUME SessionTypeOK
  PROVE  /\ 0..MaxId \subseteq PacketIds /\ Ids \subseteq PacketIds
         /\ \A k \in 1..setting.inbound : MaxId + k \in PacketIds
         /\ MaxId \in Nat
<1>1. MaxId \in Nat /\ setting.inbound \in Nat
  BY SessionAssumption DEF SessionTypeOK, Setting
<1> QED BY <1>1 DEF PacketIds, Ids

LEMMA PackIsPacket ==
  ASSUME UNCHANGED setting, NEW type \in PacketTypes, NEW id \in PacketIds,
         NEW q \in 0..2, NEW dup \in BOOLEAN
  PROVE  /\ Pack(type, id, q, dup) \in Packet /\ Pack(type, id, q, dup) \in Packet'
         /\ Pack(type, id, q, dup).type = type /\ Pack(type, id, q, dup).id = id
         /\ Pack(type, id, q, dup).qos = q
BY DEF Pack, Packet, PacketIds, PacketTypes

LEMMA OneWritable ==
  ASSUME NEW p, p \in Packet', UpOK(p)', p.type = "publish" /\ p.id # 0 => ~Settled(p.id)'
  PROVE  Writable(<< p >>)'
<1>1. << p >> \in Seq(Packet') /\ DOMAIN << p >> = {1} /\ << p >>[1] = p
  OBVIOUS
<1>2. ReleaseLast(<< p >>)'
  BY <1>1 DEF ReleaseLast
<1> QED BY <1>1, <1>2 DEF Writable, UpOK, Settled

-----------------------------------------------------------------------------
(* The functions of the application.                                        *)

(* Each puts one item at the end, of the message it made.                   *)
LEMMA MadeItem ==
  ASSUME SessionInv, UNCHANGED <<setting, delivered, held, published, expired>>,
         NEW q \in 0..2, Made(q),
         NEW item \in Item, outbox' = Append(outbox, item), item.pending # "acknowledged",
         \/ item.id = 0 /\ q = 0 /\ item.type = "publish" /\ item.qos = 0
         \/ item.id = lastId + 1 /\ item.qos = q /\ (item.type = "publish" <=> q # 0)
  PROVE  /\ outbox' \in Seq(Item) /\ Unique(outbox') /\ lastId' \in 0..MaxId
         /\ qos' \in [Ids -> 0..2] /\ lastId + 1 \in Ids /\ qos'[lastId + 1] = q
         /\ OutboxInv' /\ IdsInv' /\ KeptInv' /\ Onward
         /\ item.id # 0 => ~Settled(item.id)'
<1>1. MaxId \in Nat /\ lastId \in 0..MaxId /\ lastId < MaxId /\ lastId' = lastId + 1
  BY SessionAssumption DEF SessionInv, SessionTypeOK, Made
<1> DEFINE new == lastId + 1
<1>2. new \in Ids /\ new # 0 /\ ~(new <= lastId) /\ lastId' \in 0..MaxId /\ lastId' = new
  BY <1>1 DEF Ids
<1>3. \A id \in Ids : id <= lastId => id # new /\ id \in 1..lastId
  BY <1>1 DEF Ids
<1>4. \A id \in Ids : id <= lastId \/ id = new => id <= lastId'
  BY <1>1 DEF Ids
<1> HIDE DEF new
<1>5. qos \in [Ids -> 0..2] /\ \A id \in Ids : qos[id] # 0 => id <= lastId
  BY DEF SessionInv, SessionTypeOK, IdsInv
<1>6. qos[new] = 0
  BY <1>2, <1>5
<1>7. qos' = IF q = 0 THEN qos ELSE [qos EXCEPT ![new] = q]
  BY DEF Made, new
<1>8. /\ qos' \in [Ids -> 0..2] /\ qos'[new] = q
      /\ \A id \in Ids : id # new => qos'[id] = qos[id]
  BY <1>2, <1>5, <1>6, <1>7
<1>9. item.id = 0 \/ item.id = new
  BY DEF new
<1>10. ItemOK(item)'
  <2>1. item.id <= lastId'
    BY <1>1, <1>2, <1>9
  <2>2. item.id # 0 => item.id = new /\ item.qos = q /\ (item.type = "publish" <=> q # 0)
    BY DEF new
  <2>3. item.id = 0 => item.type = "publish" /\ item.qos = 0
    BY <1>2, <1>9 DEF new
  <2> QED BY <1>8, <2>1, <2>2, <2>3 DEF ItemOK
<1>11. /\ outbox' \in Seq(Item) /\ Unique(outbox')
       /\ OutboxInv'
       /\ \A id \in 1..lastId : Settled(id) => Settled(id)'
       /\ \A id \in Ids : Has(outbox, id) => Has(outbox', id)
       /\ Has(outbox', item.id)
       /\ item.id # 0 => ~Settled(item.id)'
  <2>1. \A id \in Ids : id <= lastId => qos'[id] = qos[id]
    BY <1>3, <1>8
  <2>2. item.id \in {0, lastId + 1}
    BY <1>9 DEF new
  <2>3. SessionTypeOK /\ IdsInv /\ OutboxInv /\ UNCHANGED delivered
    BY DEF SessionInv
  <2> QED BY <1>1, <1>10, <2>1, <2>2, <2>3, ItemAdded
<1>12. IdsInv'
  <2>1. \A id \in Ids : delivered[id] # 0 => qos[id] # 0
    BY DEF SessionInv, IdsInv
  <2>2. \A id \in held : delivered[id] # 0
    BY DEF SessionInv, IdsInv
  <2>3. \A id \in Ids : qos[id] # 0 => id # new
    BY <1>3, <1>5
  <2>4. \A id \in Ids : qos'[id] # 0 => id <= lastId'
    BY <1>4, <1>5, <1>8
  <2> QED BY <1>8, <2>1, <2>2, <2>3, <2>4 DEF IdsInv
<1>13. Onward
  <2>1. \A id \in Ids : delivered[id] # 0 => id \in 1..lastId
    BY <1>3, <1>5 DEF SessionInv, IdsInv
  <2>2. \A id \in Ids : qos[id] # 0 => qos'[id] = qos[id]
    BY <1>3, <1>5, <1>8
  <2> QED BY <1>11, <2>1, <2>2 DEF Onward
<1>14. KeptInv'
  <2> SUFFICES ASSUME NEW id \in Ids, qos'[id] # 0
               PROVE  id \in published' \cup expired' \/ Has(outbox', id)
    BY DEF KeptInv, Has
  <2>1. CASE id = new
    <3>1. item.id = id
      BY <1>8, <1>9, <2>1 DEF new
    <3> QED BY <1>11, <3>1
  <2>2. CASE id # new
    BY <1>8, <1>11, <2>2 DEF SessionInv, KeptInv
  <2> QED BY <2>1, <2>2
<1> QED BY <1>2, <1>8, <1>11, <1>12, <1>13, <1>14 DEF new

(* What the client does not touch of the types.                             *)
LEMMA DownAlone ==
  ASSUME SessionInv, Onward, down' \in {down, << >>}
  PROVE  down' \in Seq(Packet)' /\ DownInv'
<1>1. << >> \in Seq(Packet') /\ \A n \in DOMAIN << >> : DownOK(<< >>[n])'
  OBVIOUS
<1>2. down' = down \/ down' = << >>
  OBVIOUS
<1> QED BY <1>1, <1>2, Answered

LEMMA DownHandled ==
  ASSUME SessionInv, Onward, down # << >>, down' = Tail(down)
  PROVE  down' \in Seq(Packet)' /\ DownInv'
<1>1. << >> \in Seq(Packet') /\ \A n \in DOMAIN << >> : DownOK(<< >>[n])'
  OBVIOUS
<1> QED BY <1>1, Answered

(* The packet that is handled.                                              *)
LEMMA HeadIsOK ==
  ASSUME SessionInv, down # << >>
  PROVE  Head(down) \in Packet /\ DownOK(Head(down))
<1>1. down \in Seq(Packet) /\ \A i \in DOMAIN down : DownOK(down[i])
  BY DEF SessionInv, SessionTypeOK, DownInv
<1>2. Head(down) = down[1] /\ Head(down) \in Packet /\ 1 \in DOMAIN down
  BY <1>1, HeadTailProperties
<1> QED BY <1>1, <1>2

LEMMA AbortStays ==
  ASSUME SessionInv, UNCHANGED setting, Abort \/ Stay
  PROVE  /\ link' \in {"up", "down"} /\ breaks' \in 0..setting.breaks
         /\ down' \in {down, << >>}
<1>1. link \in {"up", "down"} /\ breaks \in 0..setting.breaks /\ setting \in Settings
  BY DEF SessionInv, SessionTypeOK
<1>2. setting.breaks \in Nat
  BY <1>1, SessionAssumption DEF Setting
<1> QED BY <1>1, <1>2 DEF Abort, Stay

LEMMA PublishKeeps ==
  ASSUME SessionInv, UNCHANGED setting, inside' \in 0..setting.callers,
         NEW q \in {1, 2}, Publish(q)
  PROVE  SessionInv'
<1>1. Made(q) /\ UNCHANGED <<setting, held, delivered, published, expired, inbound>>
  BY DEF Publish
<1>2. PICK p \in {"queued", "transmitted"} : outbox' = Append(outbox, NewItem("publish", q, p))
  BY DEF Publish
<1>3. PICK new : new = lastId + 1
  OBVIOUS
<1>4. PICK item : item = NewItem("publish", q, p)
  OBVIOUS
<1>5. PICK packet : packet = Pack("publish", new, q, FALSE)
  OBVIOUS
<1>6. new \in Ids /\ new \in 0..MaxId /\ new # 0
  BY <1>1, <1>3, SessionAssumption DEF Made, SessionInv, SessionTypeOK, Ids
<1>7. /\ item \in Item /\ outbox' = Append(outbox, item)
      /\ item.pending # "acknowledged" /\ item.id = new
      /\ item.qos = q /\ item.type = "publish"
  BY <1>2, <1>3, <1>4, <1>6 DEF NewItem, Item, Types
<1>8. /\ outbox' \in Seq(Item) /\ Unique(outbox') /\ lastId' \in 0..MaxId
      /\ qos' \in [Ids -> 0..2] /\ qos'[new] = q
      /\ OutboxInv' /\ IdsInv' /\ KeptInv' /\ Onward
      /\ ~Settled(new)'
  <2>1. item.id = lastId + 1 /\ item.qos = q /\ (item.type = "publish" <=> q # 0) /\ q \in 0..2
    BY <1>3, <1>7
  <2>2. /\ outbox' \in Seq(Item) /\ Unique(outbox') /\ lastId' \in 0..MaxId
        /\ qos' \in [Ids -> 0..2] /\ lastId + 1 \in Ids /\ qos'[lastId + 1] = q
        /\ OutboxInv' /\ IdsInv' /\ KeptInv' /\ Onward
        /\ item.id # 0 => ~Settled(item.id)'
    BY <1>1, <1>7, <2>1, MadeItem
  <2> QED BY <1>3, <1>6, <1>7, <2>2 DEF Settled
<1>9. Writable(<< packet >>)'
  <2>1. packet.type = "publish" /\ packet.id = new /\ packet.qos = q
    BY <1>5 DEF Pack
  <2>2. packet \in Packet'
    <3>1. /\ "publish" \in PacketTypes /\ FALSE \in BOOLEAN /\ q \in 0..2
          /\ new \in PacketIds
      BY <1>6, IdsArePacketIds DEF PacketTypes, Types, SessionInv
    <3> QED BY <1>1, <1>5, <3>1, PackIsPacket
  <2>3. UpOK(packet)'
    BY <1>6, <1>8, <2>1 DEF UpOK
  <2>4. ~Settled(packet.id)'
    BY <1>8, <2>1 DEF Settled
  <2> QED BY <2>2, <2>3, <2>4, OneWritable
<1>10. up' \in Seq(Packet)' /\ UpInv' /\ OverInv'
  <2>1. up' = up \o << packet >> \/ up' = up
    BY <1>3, <1>5 DEF Publish, Write, WriteFails
  <2> QED BY <1>1, <1>8, <1>9, <2>1, Written, NotWritten
<1>11. /\ link' \in {"up", "down"} /\ breaks' \in 0..setting.breaks
       /\ down' \in {down, << >>}
  BY AbortStays DEF Publish
<1>12. down' \in Seq(Packet)' /\ DownInv'
  BY <1>8, <1>11, DownAlone
<1>13. count' \in Nat
  <2>1. count \in Nat
    BY DEF SessionInv, SessionTypeOK
  <2>2. count' \in {count, count + 1}
    BY DEF Publish
  <2> QED BY <2>1, <2>2
<1>14. refused' \subseteq Ids
  <2>1. refused' \in {refused, refused \cup {new}}
    BY <1>3 DEF Publish, Refuse
  <2> QED BY <1>6, <2>1 DEF SessionInv, SessionTypeOK
<1>15. SessionTypeOK'
  BY <1>1, <1>8, <1>10, <1>11, <1>12, <1>13, <1>14 DEF SessionInv, SessionTypeOK, inbound, Onward
<1> QED BY <1>8, <1>10, <1>12, <1>15 DEF SessionInv
(* esp_mqtt_client_enqueue, of either kind, writes nothing.                 *)
LEMMA EnqueueKeeps ==
  ASSUME SessionInv, UNCHANGED setting, inside' \in 0..setting.callers,
         (\E q \in {1, 2} : EnqueuePublish(q)) \/ EnqueueStored
  PROVE  SessionInv'
<1>1. /\ UNCHANGED <<setting, link, breaks, count, up, down, held, delivered, published,
                     refused, expired, inbound>>
      /\ lastId < MaxId
  BY DEF EnqueuePublish, EnqueueStored, Made
<1>2. lastId + 1 \in Ids /\ lastId + 1 \in 0..MaxId /\ lastId + 1 # 0 /\ 0 \in 0..MaxId
  BY <1>1, SessionAssumption DEF SessionInv, SessionTypeOK, Ids
<1>3. /\ outbox' \in Seq(Item) /\ Unique(outbox') /\ lastId' \in 0..MaxId
      /\ qos' \in [Ids -> 0..2]
      /\ OutboxInv' /\ IdsInv' /\ KeptInv' /\ Onward
  <2>1. ASSUME NEW q \in {1, 2}, EnqueuePublish(q)
        PROVE  \E item \in Item :
                 /\ Made(q) /\ outbox' = Append(outbox, item) /\ item.pending = "queued"
                 /\ item.id = lastId + 1 /\ item.qos = q /\ item.type = "publish"
    <3>1. PICK item : item = [NewItem("publish", q, "new") EXCEPT !.pending = "queued"]
      OBVIOUS
    <3>2. /\ item \in Item /\ item.pending = "queued"
          /\ item.id = lastId + 1 /\ item.qos = q /\ item.type = "publish"
      BY <1>2, <3>1 DEF NewItem, Item, Types
    <3>3. outbox' = Append(outbox, item) /\ Made(q)
      BY <2>1, <3>1 DEF EnqueuePublish, Enqueue
    <3> QED BY <3>2, <3>3
  <2>2. ASSUME EnqueueStored
        PROVE  \E item \in Item :
                 /\ Made(0) /\ outbox' = Append(outbox, item) /\ item.pending = "queued"
                 /\ item.id = 0 /\ item.qos = 0 /\ item.type = "publish"
    <3>1. PICK item : item = [[NewItem("publish", 0, "new") EXCEPT !.id = 0] EXCEPT !.pending = "queued"]
      OBVIOUS
    <3>2. /\ item \in Item /\ item.pending = "queued"
          /\ item.id = 0 /\ item.qos = 0 /\ item.type = "publish"
      <4>1. item = [id |-> 0, type |-> "publish", qos |-> 0, pending |-> "queued"]
        BY <3>1, Zenon DEF NewItem
      <4> QED BY <1>2, <4>1 DEF Item, Types
    <3>3. outbox' = Append(outbox, item) /\ Made(0)
      BY <2>2, <3>1 DEF EnqueueStored, Enqueue
    <3> QED BY <3>2, <3>3
  <2>3. PICK q \in 0..2, item \in Item :
          /\ Made(q) /\ outbox' = Append(outbox, item) /\ item.pending = "queued"
          /\ \/ item.id = 0 /\ q = 0 /\ item.type = "publish" /\ item.qos = 0
             \/ item.id = lastId + 1 /\ item.qos = q /\ (item.type = "publish" <=> q # 0)
    <3>1. CASE EnqueueStored
      BY <2>2, <3>1
    <3>2. ASSUME NEW q \in {1, 2}, EnqueuePublish(q)
          PROVE  \E r \in 0..2, item \in Item :
                   /\ Made(r) /\ outbox' = Append(outbox, item) /\ item.pending = "queued"
                   /\ item.id = lastId + 1 /\ item.qos = r /\ (item.type = "publish" <=> r # 0)
      <4>1. q \in 0..2 /\ q # 0
        OBVIOUS
      <4> QED BY <2>1, <3>2, <4>1
    <3> QED BY <3>1, <3>2
  <2>4. item.pending # "acknowledged"
    BY <2>3
  <2> QED BY <1>1, <2>3, <2>4, MadeItem
<1>4. up' \in Seq(Packet)' /\ UpInv' /\ OverInv'
  BY <1>1, <1>3, NotWritten
<1>5. down' \in Seq(Packet)' /\ DownInv'
  BY <1>1, <1>3, DownAlone
<1>6. SessionTypeOK'
  BY <1>1, <1>3, <1>4, <1>5 DEF SessionInv, SessionTypeOK, inbound
<1> QED BY <1>3, <1>4, <1>5, <1>6 DEF SessionInv

(* The item of a subscription is marked as it is put in.                    *)
LEMMA SubscribeAdds ==
  ASSUME SessionInv, NEW type \in {"subscribe", "unsubscribe"}, Subscribe(type)
  PROVE  NewItem(type, 0, "transmitted") \in Item
         /\ outbox' = Append(outbox, NewItem(type, 0, "transmitted"))
<1>1. PICK new : new = lastId + 1
  OBVIOUS
<1>2. PICK item : item = NewItem(type, 0, "transmitted")
  OBVIOUS
<1>3. new \in 0..MaxId /\ lastId \in 0..MaxId
  BY <1>1, SessionAssumption DEF Subscribe, Made, SessionInv, SessionTypeOK
<1>4. item \in Item /\ item.pending = "transmitted" /\ item.id = new
  BY <1>1, <1>2, <1>3 DEF NewItem, Item, Types
<1>5. outbox \in Seq(Item)
  BY DEF SessionInv, SessionTypeOK
<1>6. \A i \in DOMAIN outbox : outbox[i].id # item.id
  <2>1. \A i \in DOMAIN outbox : outbox[i] \in Item /\ outbox[i].id <= lastId
    BY <1>5 DEF SessionInv, OutboxInv, ItemOK
  <2>2. \A i \in DOMAIN outbox : outbox[i].id \in 0..MaxId
    BY <2>1 DEF Item
  <2>3. \A n \in 0..MaxId : n <= lastId => n # lastId + 1
    BY <1>3
  <2> QED BY <1>1, <1>4, <2>1, <2>2, <2>3
<1>7. Enqueue(outbox, NewItem(type, 0, "new")) = Enqueue(outbox, item)
  BY <1>2 DEF Enqueue, NewItem
<1>8. [item EXCEPT !.pending = "transmitted"] = item
  BY <1>4 DEF Item
<1>9. outbox' = SetPending(Enqueue(outbox, item), item.id, "transmitted")
  BY <1>1, <1>4, <1>7 DEF Subscribe
<1> QED BY <1>2, <1>4, <1>5, <1>6, <1>8, <1>9, MarkedAtOnce

LEMMA SubscribeKeeps ==
  ASSUME SessionInv, UNCHANGED setting, inside' \in 0..setting.callers,
         NEW type \in {"subscribe", "unsubscribe"}, Subscribe(type)
  PROVE  SessionInv'
<1>1. /\ UNCHANGED <<setting, link, breaks, count, down, held, delivered, published, expired, inbound>>
      /\ Made(0)
  BY DEF Subscribe
<1>2. PICK new : new = lastId + 1
  OBVIOUS
<1>3. PICK item : item = NewItem(type, 0, "transmitted")
  OBVIOUS
<1>4. PICK packet : packet = Pack(type, new, 0, FALSE)
  OBVIOUS
<1>5. new \in Ids /\ new \in 0..MaxId /\ new # 0 /\ lastId \in 0..MaxId
  BY <1>1, <1>2, SessionAssumption DEF Made, SessionInv, SessionTypeOK, Ids
<1>6. /\ item \in Item /\ item.pending = "transmitted" /\ item.id = new
      /\ item.qos = 0 /\ item.type # "publish"
  BY <1>2, <1>3, <1>5 DEF NewItem, Item, Types
<1>7. outbox' = Append(outbox, item)
  BY <1>3, SubscribeAdds
<1>8. /\ outbox' \in Seq(Item) /\ Unique(outbox') /\ lastId' \in 0..MaxId
      /\ qos' \in [Ids -> 0..2]
      /\ OutboxInv' /\ IdsInv' /\ KeptInv' /\ Onward
  <2>1. /\ item.id = lastId + 1 /\ item.qos = 0 /\ (item.type = "publish" <=> 0 # 0)
        /\ 0 \in 0..2 /\ item.pending # "acknowledged"
    BY <1>2, <1>6
  <2> QED BY <1>1, <1>6, <1>7, <2>1, MadeItem
<1>9. Writable(<< packet >>)'
  <2>1. type \in PacketTypes /\ FALSE \in BOOLEAN /\ 0 \in 0..2 /\ new \in PacketIds
    BY <1>5, IdsArePacketIds DEF PacketTypes, Types, SessionInv
  <2>2. packet \in Packet' /\ packet.type = type
    BY <1>1, <1>4, <2>1, PackIsPacket
  <2>3. UpOK(packet)'
    BY <2>2 DEF UpOK
  <2> QED BY <2>2, <2>3, OneWritable
<1>10. up' \in Seq(Packet)' /\ UpInv' /\ OverInv'
  <2>1. up' = up \o << packet >> \/ up' = up
    BY <1>2, <1>4 DEF Subscribe, Write
  <2> QED BY <1>1, <1>8, <1>9, <2>1, Written, NotWritten
<1>11. down' \in Seq(Packet)' /\ DownInv'
  BY <1>1, <1>8, DownAlone
<1>12. refused' \subseteq Ids
  <2>1. refused' \in {refused, refused \cup {new}}
    BY <1>2 DEF Subscribe, Refuse
  <2> QED BY <1>5, <2>1 DEF SessionInv, SessionTypeOK
<1>13. SessionTypeOK'
  BY <1>1, <1>8, <1>10, <1>11, <1>12 DEF SessionInv, SessionTypeOK, inbound, Onward
<1> QED BY <1>8, <1>10, <1>11, <1>13 DEF SessionInv
-----------------------------------------------------------------------------
(* The task of the client.                                                  *)

(* A step that leaves the outbox and the messages alone.                    *)
LEMMA Unmoved ==
  ASSUME SessionInv,
         UNCHANGED <<setting, outbox, lastId, qos, delivered, held, published, expired>>
  PROVE  /\ outbox' \in Seq(Item) /\ Unique(outbox')
         /\ OutboxInv' /\ IdsInv' /\ KeptInv' /\ Onward
<1>1. outbox' \in Seq(Item) /\ Unique(outbox')
  BY DEF SessionInv, SessionTypeOK
<1>2. OutboxInv'
  BY DEF SessionInv, OutboxInv, ItemOK
<1>3. IdsInv' /\ KeptInv'
  BY DEF SessionInv, IdsInv, KeptInv, Has
<1>4. Onward
  BY DEF Onward, Settled
<1> QED BY <1>1, <1>2, <1>3, <1>4

LEMMA ReceiveFailsKeeps ==
  ASSUME SessionInv, UNCHANGED setting, inside' \in 0..setting.callers, ReceiveFails
  PROVE  SessionInv'
<1>1. UNCHANGED <<setting, outbox, lastId, count, up, held, delivered, qos, published, refused,
                  expired, inbound>>
  BY DEF ReceiveFails, history
<1>2. outbox' \in Seq(Item) /\ Unique(outbox') /\ OutboxInv' /\ IdsInv' /\ KeptInv' /\ Onward
  BY <1>1, Unmoved
<1>3. up' \in Seq(Packet)' /\ UpInv' /\ OverInv'
  BY <1>1, <1>2, NotWritten
<1>4. /\ link' \in {"up", "down"} /\ breaks' \in 0..setting.breaks
      /\ down' \in {down, << >>}
  BY AbortStays DEF ReceiveFails
<1>5. down' \in Seq(Packet)' /\ DownInv'
  BY <1>2, <1>4, DownAlone
<1>6. SessionTypeOK'
  BY <1>1, <1>2, <1>3, <1>4, <1>5 DEF SessionInv, SessionTypeOK, inbound, Onward
<1> QED BY <1>2, <1>3, <1>5, <1>6 DEF SessionInv

(* An item that leaves takes nothing with it that is not settled: it is     *)
(* that of a message without QoS, or of one that is acknowledged or too old.*)
LEMMA ItemGone ==
  ASSUME SessionInv, UNCHANGED <<setting, lastId, qos, delivered, held>>,
         NEW i \in DOMAIN outbox, outbox' = DeleteItem(outbox, i),
         published \subseteq published', expired \subseteq expired',
         outbox[i].id \in Ids /\ qos[outbox[i].id] # 0 => outbox[i].id \in published' \cup expired'
  PROVE  /\ outbox' \in Seq(Item) /\ Unique(outbox')
         /\ OutboxInv' /\ IdsInv' /\ KeptInv' /\ Onward
<1>1. /\ outbox' \in Seq(Item) /\ Unique(outbox')
      /\ OutboxInv'
      /\ \A id \in Ids : Settled(id) => Settled(id)'
      /\ \A id \in Ids : Has(outbox, id) /\ outbox[i].id # id => Has(outbox', id)
  BY ItemLeaves DEF SessionInv
<1>2. IdsInv'
  BY DEF SessionInv, IdsInv
<1>3. KeptInv'
  BY <1>1 DEF SessionInv, KeptInv
<1>4. Onward
  BY <1>1 DEF Onward
<1> QED BY <1>1, <1>2, <1>3, <1>4

(* outbox_delete finds nothing, or the item that leaves.                    *)
LEMMA DeleteFinds ==
  ASSUME NEW q \in Seq(Item), NEW id, NEW type
  PROVE  \/ Initiator(q, id, type) = 0 /\ Delete(q, id, type) = q
         \/ /\ Initiator(q, id, type) \in DOMAIN q /\ Initiator(q, id, type) # 0
            /\ Delete(q, id, type) = DeleteItem(q, Initiator(q, id, type))
            /\ q[Initiator(q, id, type)].id = id
            /\ q[Initiator(q, id, type)].type = type
<1>1. 0 \notin DOMAIN q
  OBVIOUS
<1>2. \/ Initiator(q, id, type) = 0
      \/ /\ Initiator(q, id, type) \in DOMAIN q
         /\ q[Initiator(q, id, type)].id = id
         /\ q[Initiator(q, id, type)].type = type
  BY InitiatorFinds, Zenon
<1> QED BY <1>1, <1>2 DEF Delete, DeleteItem

LEMMA DeleteDrops ==
  ASSUME NEW q \in Seq(Item), NEW id, NEW type
  PROVE  \/ Delete(q, id, type) = q
         \/ \E i \in DOMAIN q : /\ Delete(q, id, type) = DeleteItem(q, i)
                               /\ q[i].id = id /\ q[i].type = type
BY DeleteFinds

LEMMA FinishKeeps ==
  ASSUME SessionInv, UNCHANGED setting, inside' \in 0..setting.callers, Finish
  PROVE  SessionInv'
<1>1. /\ UNCHANGED <<setting, lastId, link, breaks, up, held, delivered, qos, refused, expired, inbound>>
      /\ down # << >> /\ down' = Tail(down) /\ Head(down).type \in {"puback", "pubcomp"}
  BY DEF Finish, Receive, Handled
<1>2. PICK id : id = Head(down).id
  OBVIOUS
<1>3. /\ outbox' = Delete(outbox, id, "publish")
      /\ published' = IF Initiator(outbox, id, "publish") # 0 THEN published \cup {id} ELSE published
  BY <1>2 DEF Finish
<1>4. id \in Ids
  <2>1. \A p : DownOK(p) /\ p.type \in {"puback", "pubcomp"} => p.id \in Ids
    BY DEF DownOK
  <2> QED BY <1>1, <1>2, <2>1, HeadIsOK
<1>5. outbox' \in Seq(Item) /\ Unique(outbox') /\ OutboxInv' /\ IdsInv' /\ KeptInv' /\ Onward
  <2> DEFINE i == Initiator(outbox, id, "publish")
  <2>1. outbox \in Seq(Item)
    BY DEF SessionInv, SessionTypeOK
  <2>2. CASE i = 0
    <3>1. outbox' = outbox /\ published' = published
      BY <1>3, <2>1, <2>2, DeleteFinds
    <3> QED BY <1>1, <3>1, Unmoved
  <2>3. CASE i # 0
    <3>1. /\ i \in DOMAIN outbox /\ outbox' = DeleteItem(outbox, i)
          /\ outbox[i].id = id /\ published' = published \cup {id}
      BY <1>3, <2>1, <2>3, DeleteFinds
    <3> HIDE DEF i
    <3>2. PICK n : n = i
      OBVIOUS
    <3>3. /\ n \in DOMAIN outbox /\ outbox' = DeleteItem(outbox, n)
          /\ outbox[n].id \in published' \cup expired'
          /\ published \subseteq published' /\ expired \subseteq expired'
      BY <1>1, <3>1, <3>2
    <3> QED BY <1>1, <3>3, ItemGone
  <2> QED BY <2>2, <2>3
<1>6. up' \in Seq(Packet)' /\ UpInv' /\ OverInv'
  BY <1>1, <1>5, NotWritten
<1>7. down' \in Seq(Packet)' /\ DownInv'
  BY <1>1, <1>5, DownHandled
<1>8. count' \in Nat
  <2>1. count \in Nat
    BY DEF SessionInv, SessionTypeOK
  <2>2. count' = IF setting.receiveMax > 0 /\ count > 0 THEN count - 1 ELSE count
    BY DEF Finish, Acked
  <2> QED BY <2>1, <2>2
<1>9. published' \subseteq Ids
  BY <1>3, <1>4 DEF SessionInv, SessionTypeOK
<1>10. SessionTypeOK'
  BY <1>1, <1>5, <1>6, <1>7, <1>8, <1>9 DEF SessionInv, SessionTypeOK, inbound, Onward
<1> QED BY <1>5, <1>6, <1>7, <1>10 DEF SessionInv

LEMMA SubackKeeps ==
  ASSUME SessionInv, UNCHANGED setting, inside' \in 0..setting.callers, Suback
  PROVE  SessionInv'
<1>1. /\ UNCHANGED <<setting, lastId, link, breaks, count, up, held, delivered, qos, published,
                     refused, expired, inbound>>
      /\ down # << >> /\ down' = Tail(down)
  BY DEF Suback, Receive, Handled, history
<1>2. PICK id, type : type \in {"subscribe", "unsubscribe"} /\ outbox' = Delete(outbox, id, type)
  <2>1. PICK type : type = IF Head(down).type = "suback" THEN "subscribe" ELSE "unsubscribe"
    OBVIOUS
  <2>2. type \in {"subscribe", "unsubscribe"} /\ outbox' = Delete(outbox, Head(down).id, type)
    BY <2>1 DEF Suback
  <2> QED BY <2>2
<1>3. outbox' \in Seq(Item) /\ Unique(outbox') /\ OutboxInv' /\ IdsInv' /\ KeptInv' /\ Onward
  <2> DEFINE i == Initiator(outbox, id, type)
  <2>1. outbox \in Seq(Item)
    BY DEF SessionInv, SessionTypeOK
  <2>2. CASE i = 0
    <3>1. outbox' = outbox
      BY <1>2, <2>1, <2>2, DeleteFinds
    <3> QED BY <1>1, <3>1, Unmoved
  <2>3. CASE i # 0
    <3>1. /\ i \in DOMAIN outbox /\ outbox' = DeleteItem(outbox, i)
          /\ outbox[i].id = id /\ outbox[i].type = type
      BY <1>2, <2>1, <2>3, DeleteFinds
    <3> HIDE DEF i
    <3>2. PICK n : n = i
      OBVIOUS
    <3>3. n \in DOMAIN outbox /\ outbox' = DeleteItem(outbox, n) /\ outbox[n].type # "publish"
      BY <1>2, <3>1, <3>2
    <3>4. outbox[n].id \in Ids => qos[outbox[n].id] = 0
      <4>1. ItemOK(outbox[n])
        BY <3>3 DEF SessionInv, OutboxInv
      <4>2. 0 \notin Ids
        BY DEF Ids
      <4> QED BY <3>3, <4>1, <4>2 DEF ItemOK
    <3> QED BY <1>1, <3>3, <3>4, ItemGone
  <2> QED BY <2>2, <2>3
<1>4. up' \in Seq(Packet)' /\ UpInv' /\ OverInv'
  BY <1>1, <1>3, NotWritten
<1>5. down' \in Seq(Packet)' /\ DownInv'
  BY <1>1, <1>3, DownHandled
<1>6. SessionTypeOK'
  BY <1>1, <1>3, <1>4, <1>5 DEF SessionInv, SessionTypeOK, inbound, Onward
<1> QED BY <1>3, <1>4, <1>5, <1>6 DEF SessionInv

LEMMA ExpireKeeps ==
  ASSUME SessionInv, UNCHANGED setting, inside' \in 0..setting.callers, Expire
  PROVE  SessionInv'
<1>1. UNCHANGED <<setting, lastId, link, count, breaks, up, down, held, delivered, qos, published,
                  refused, inbound>>
  BY DEF Expire
<1>2. PICK i \in DOMAIN outbox :
        /\ outbox' = DeleteItem(outbox, i)
        /\ expired' = expired \cup ({outbox[i].id} \ {0})
  BY DEF Expire
<1>3. outbox' \in Seq(Item) /\ Unique(outbox') /\ OutboxInv' /\ IdsInv' /\ KeptInv' /\ Onward
  <2>1. 0 \notin Ids
    BY DEF Ids
  <2>2. outbox[i].id \in Ids => outbox[i].id \in expired'
    BY <1>2, <2>1
  <2> QED BY <1>1, <1>2, <2>2, ItemGone
<1>4. up' \in Seq(Packet)' /\ UpInv' /\ OverInv'
  BY <1>1, <1>3, NotWritten
<1>5. down' \in Seq(Packet)' /\ DownInv'
  BY <1>1, <1>3, DownAlone
<1>6. expired' \subseteq Ids
  <2>1. outbox \in Seq(Item) /\ expired \subseteq Ids
    BY DEF SessionInv, SessionTypeOK
  <2>2. outbox[i].id \in 0..MaxId
    <3>1. outbox[i] \in Item
      BY <2>1
    <3> QED BY <3>1 DEF Item
  <2>3. {outbox[i].id} \ {0} \subseteq Ids
    BY <2>2, SessionAssumption DEF Ids
  <2> QED BY <1>2, <2>1, <2>3
<1>7. SessionTypeOK'
  BY <1>1, <1>3, <1>4, <1>5, <1>6 DEF SessionInv, SessionTypeOK, inbound, Onward
<1> QED BY <1>3, <1>4, <1>5, <1>7 DEF SessionInv

LEMMA ReconnectKeeps ==
  ASSUME SessionInv, UNCHANGED setting, inside' \in 0..setting.callers, Reconnect
  PROVE  SessionInv'
<1>1. /\ UNCHANGED <<setting, outbox, lastId, breaks, held, delivered, qos, published, refused,
                     expired, inbound>>
      /\ link' = "up" /\ count' = 0 /\ up' = << >> /\ down' = << >>
  BY DEF Reconnect, history
<1>2. outbox' \in Seq(Item) /\ Unique(outbox') /\ OutboxInv' /\ IdsInv' /\ KeptInv' /\ Onward
  BY <1>1, Unmoved
<1>3. up' \in Seq(Packet)' /\ UpInv'
  BY <1>1 DEF UpInv, ReleaseLast
<1>4. OverInv'
  <2>1. \A i \in DOMAIN up' : FALSE
    BY <1>1
  <2> QED BY <1>1, <2>1 DEF SessionInv, OverInv, Settled
<1>5. down' \in Seq(Packet)' /\ DownInv'
  BY <1>1, <1>2, DownAlone
<1>6. SessionTypeOK'
  BY <1>1, <1>2, <1>3, <1>5 DEF SessionInv, SessionTypeOK, inbound, Onward
<1> QED BY <1>2, <1>3, <1>4, <1>5, <1>6 DEF SessionInv
(* The count of the packets that were read is not touched by the others.    *)
LEMMA PubrecKeeps ==
  ASSUME SessionInv, UNCHANGED setting, inside' \in 0..setting.callers, Pubrec
  PROVE  SessionInv'
<1>1. /\ UNCHANGED <<setting, lastId, link, breaks, count, held, delivered, qos, published,
                     refused, expired, inbound>>
      /\ down # << >> /\ down' = Tail(down) /\ Head(down).type = "pubrec"
  BY DEF Pubrec, Receive, Handled, history
<1>2. PICK id : id = Head(down).id
  OBVIOUS
<1>3. PICK packet : packet = Pack("pubrel", id, 0, FALSE)
  OBVIOUS
<1>4. id \in Ids /\ delivered[id] # 0
  <2>1. \A p : DownOK(p) /\ p.type = "pubrec" => p.id \in Ids /\ delivered[p.id] # 0
    BY DEF DownOK
  <2> QED BY <1>1, <1>2, <2>1, HeadIsOK
<1>5. outbox' = SetPending(outbox, id, "acknowledged")
  BY <1>2 DEF Pubrec
<1>6. /\ outbox' \in Seq(Item) /\ Unique(outbox') /\ OutboxInv'
      /\ \A x \in Ids : Settled(x) => Settled(x)'
      /\ Settled(id)'
      /\ \A x \in Ids : Has(outbox, x) => Has(outbox', x)
  <2>1. SessionTypeOK /\ OutboxInv /\ "acknowledged" \in {"transmitted", "acknowledged"}
    BY DEF SessionInv
  <2> QED BY <1>1, <1>4, <1>5, <2>1, ItemMarked
<1>7. IdsInv' /\ KeptInv' /\ Onward
  BY <1>1, <1>6 DEF SessionInv, IdsInv, KeptInv, Onward
<1>8. Writable(<< packet >>)'
  <2>1. "pubrel" \in PacketTypes /\ FALSE \in BOOLEAN /\ 0 \in 0..2 /\ id \in PacketIds
    BY <1>4, IdsArePacketIds DEF PacketTypes, SessionInv
  <2>2. packet \in Packet' /\ packet.type = "pubrel" /\ packet.id = id
    <3>1. packet \in Packet'
      BY <1>3, <2>1, PackIsPacket
    <3> QED BY <1>3, <3>1 DEF Pack
  <2>3. UpOK(packet)'
    BY <1>1, <1>4, <1>6, <2>2 DEF UpOK, Settled
  <2> QED BY <2>2, <2>3, OneWritable
<1>9. up' \in Seq(Packet)' /\ UpInv' /\ OverInv'
  <2>1. up' = up \o << packet >> \/ up' = up
    BY <1>2, <1>3 DEF Pubrec, Write
  <2> QED BY <1>1, <1>7, <1>8, <2>1, Written, NotWritten
<1>10. down' \in Seq(Packet)' /\ DownInv'
  BY <1>1, <1>7, DownHandled
<1>11. SessionTypeOK'
  BY <1>1, <1>6, <1>7, <1>9, <1>10 DEF SessionInv, SessionTypeOK, inbound, Onward
<1> QED BY <1>6, <1>7, <1>9, <1>10, <1>11 DEF SessionInv

(* An answer to a message of the broker.                                    *)
LEMMA AnswerWritable ==
  ASSUME SessionInv, Onward, NEW type \in {"pubrec", "pubcomp"}, NEW id \in Int,
         id - MaxId \in 1..setting.inbound, NEW packet, packet = Pack(type, id, 0, FALSE)
  PROVE  Writable(<< packet >>)'
<1>1. id \in PacketIds
  <2>1. MaxId \in Nat /\ setting.inbound \in Nat
    BY SessionAssumption DEF SessionInv, SessionTypeOK, Setting
  <2> QED BY <2>1 DEF PacketIds
<1>2. packet \in Packet' /\ packet.type = type /\ packet.id = id
  <2>1. type \in PacketTypes /\ FALSE \in BOOLEAN /\ 0 \in 0..2 /\ UNCHANGED setting
    BY DEF PacketTypes, Onward
  <2>2. packet \in Packet'
    BY <1>1, <2>1, PackIsPacket
  <2> QED BY <2>2 DEF Pack
<1>3. UpOK(packet)'
  BY <1>2 DEF UpOK, Onward
<1> QED BY <1>2, <1>3, OneWritable

LEMMA InPublishKeeps ==
  ASSUME SessionInv, UNCHANGED setting, inside' \in 0..setting.callers, InPublish
  PROVE  SessionInv'
<1>1. /\ UNCHANGED <<setting, outbox, lastId, count, held, delivered, offered, qos, published,
                     refused, expired>>
      /\ down # << >> /\ Head(down).type = "publish"
  BY DEF InPublish, Receive, Handled, history
<1>2. PICK id : id = Head(down).id
  OBVIOUS
<1>3. PICK packet : packet = Pack("pubrec", id, 0, FALSE)
  OBVIOUS
<1>4. id - MaxId \in 1..setting.inbound /\ id \in Int /\ MaxId + (id - MaxId) = id
  <2>1. \A p : DownOK(p) /\ p.type = "publish" => p.id - MaxId \in 1..setting.inbound
    BY DEF DownOK
  <2>2. id \in 0..(MaxId + setting.inbound)
    BY <1>1, <1>2, HeadIsOK DEF Packet
  <2>3. MaxId \in Nat
    BY SessionAssumption
  <2>4. id - MaxId \in 1..setting.inbound
    BY <1>1, <1>2, <2>1, HeadIsOK
  <2>5. id \in Int
    BY <2>2
  <2>6. MaxId + (id - MaxId) = id
    BY <2>3, <2>5
  <2> QED BY <2>4, <2>5, <2>6
<1>5. outbox' \in Seq(Item) /\ Unique(outbox') /\ OutboxInv' /\ IdsInv' /\ KeptInv' /\ Onward
  BY <1>1, Unmoved
<1>6. up' \in Seq(Packet)' /\ UpInv' /\ OverInv'
  <2>1. up' = up \o << packet >> \/ up' = up
    BY <1>2, <1>3, <1>4 DEF InPublish, Write, WriteFails
  <2>2. Writable(<< packet >>)'
    BY <1>3, <1>4, <1>5, AnswerWritable
  <2> QED BY <1>1, <1>5, <2>1, <2>2, Written, NotWritten
<1>7. /\ link' \in {"up", "down"} /\ breaks' \in 0..setting.breaks
      /\ down' \in Seq(Packet)' /\ DownInv'
  <2>1. CASE Handled
    <3>1. UNCHANGED <<link, breaks>> /\ down' = Tail(down)
      BY <2>1 DEF Handled
    <3> QED BY <1>1, <1>5, <3>1, DownHandled DEF SessionInv, SessionTypeOK
  <2>2. CASE Abort
    <3>1. /\ link' \in {"up", "down"} /\ breaks' \in 0..setting.breaks
          /\ down' \in {down, << >>}
      BY <2>2, AbortStays
    <3> QED BY <1>5, <3>1, DownAlone
  <2> QED BY <2>1, <2>2 DEF InPublish
<1>8. handed' \in [1..setting.inbound -> 0..2]
  <2>1. handed \in [1..setting.inbound -> 0..2]
    BY DEF SessionInv, SessionTypeOK
  <2>2. handed' = Once(handed, id - MaxId)
    BY <1>2 DEF InPublish
  <2>3. PICK k : k = id - MaxId
    OBVIOUS
  <2>4. handed' = [handed EXCEPT ![k] = IF handed[k] < 2 THEN handed[k] + 1 ELSE 2]
    BY <2>2, <2>3 DEF Once
  <2>5. k \in 1..setting.inbound /\ handed[k] \in 0..2
    BY <1>4, <2>1, <2>3
  <2>6. (IF handed[k] < 2 THEN handed[k] + 1 ELSE 2) \in 0..2
    BY <2>5
  <2> QED BY <2>1, <2>4, <2>5, <2>6
<1>9. SessionTypeOK'
  BY <1>1, <1>5, <1>6, <1>7, <1>8 DEF SessionInv, SessionTypeOK, Onward
<1> QED BY <1>5, <1>6, <1>7, <1>9 DEF SessionInv

LEMMA InPubrelKeeps ==
  ASSUME SessionInv, UNCHANGED setting, inside' \in 0..setting.callers, InPubrel
  PROVE  SessionInv'
<1>1. /\ UNCHANGED <<setting, outbox, lastId, link, breaks, count, held, delivered, qos, published,
                     refused, expired, inbound>>
      /\ down # << >> /\ down' = Tail(down) /\ Head(down).type = "pubrel"
  BY DEF InPubrel, Receive, Handled, history
<1>2. PICK id : id = Head(down).id
  OBVIOUS
<1>3. PICK packet : packet = Pack("pubcomp", id, 0, FALSE)
  OBVIOUS
<1>4. id - MaxId \in 1..setting.inbound /\ id \in Int
  <2>1. \A p : DownOK(p) /\ p.type = "pubrel" => p.id - MaxId \in 1..setting.inbound
    BY DEF DownOK
  <2>2. id \in 0..(MaxId + setting.inbound)
    BY <1>1, <1>2, HeadIsOK DEF Packet
  <2>3. id \in Int
    BY <2>2
  <2> QED BY <1>1, <1>2, <2>1, <2>3, HeadIsOK
<1>5. outbox' \in Seq(Item) /\ Unique(outbox') /\ OutboxInv' /\ IdsInv' /\ KeptInv' /\ Onward
  BY <1>1, Unmoved
<1>6. up' \in Seq(Packet)' /\ UpInv' /\ OverInv'
  <2>1. up' = up \o << packet >> \/ up' = up
    BY <1>2, <1>3 DEF InPubrel, Write
  <2>2. Writable(<< packet >>)'
    BY <1>3, <1>4, <1>5, AnswerWritable
  <2> QED BY <1>1, <1>5, <2>1, <2>2, Written, NotWritten
<1>7. down' \in Seq(Packet)' /\ DownInv'
  BY <1>1, <1>5, DownHandled
<1>8. SessionTypeOK'
  BY <1>1, <1>5, <1>6, <1>7 DEF SessionInv, SessionTypeOK, inbound, Onward
<1> QED BY <1>5, <1>6, <1>7, <1>8 DEF SessionInv

(* An item that goes out as it is: a message with an id has not been        *)
(* acknowledged.                                                            *)
LEMMA ItemWritable ==
  ASSUME SessionInv, UNCHANGED setting, NEW i \in DOMAIN outbox, NEW dup \in BOOLEAN,
         outbox[i].pending # "acknowledged"
  PROVE  /\ Of(outbox[i], dup) \in Packet /\ UpOK(Of(outbox[i], dup))
         /\ Of(outbox[i], dup).type \in Types /\ Of(outbox[i], dup).id = outbox[i].id
         /\ outbox[i] \in Item /\ ItemOK(outbox[i])
         /\ ~Settled(outbox[i].id)
         /\ outbox[i].id # 0 => outbox[i].id \in Ids
<1>1. outbox[i] \in Item /\ ItemOK(outbox[i])
  BY DEF SessionInv, SessionTypeOK, OutboxInv
<1>2. /\ outbox[i].id \in 0..MaxId /\ outbox[i].type \in Types /\ outbox[i].qos \in 0..2
      /\ outbox[i].id # 0 => outbox[i].id \in Ids
  <2>1. outbox[i].id \in 0..MaxId /\ outbox[i].type \in Types /\ outbox[i].qos \in 0..2
    BY <1>1 DEF Item
  <2> QED BY <2>1, SessionAssumption DEF Ids
<1>3. Of(outbox[i], dup) \in Packet
  <2>1. outbox[i].id \in PacketIds /\ outbox[i].type \in PacketTypes
    BY <1>2, IdsArePacketIds DEF SessionInv, PacketTypes
  <2> QED BY <1>2, <2>1, PackIsPacket DEF Of
<1>4. /\ Of(outbox[i], dup).type = outbox[i].type /\ Of(outbox[i], dup).id = outbox[i].id
      /\ Of(outbox[i], dup).qos = outbox[i].qos
  BY DEF Of, Pack
<1>5. UpOK(Of(outbox[i], dup))
  <2>1. outbox[i].type = "publish" /\ outbox[i].id # 0 => outbox[i].qos = qos[outbox[i].id] /\ outbox[i].qos # 0
    BY <1>1 DEF ItemOK
  <2>2. outbox[i].id = 0 => outbox[i].qos = 0
    BY <1>1 DEF ItemOK
  <2> QED BY <1>2, <1>4, <2>1, <2>2 DEF UpOK, Types
<1>6. ~Settled(outbox[i].id)
  BY DEF Settled
<1> QED BY <1>1, <1>2, <1>3, <1>4, <1>5, <1>6
LEMMA SendQueuedKeeps ==
  ASSUME SessionInv, UNCHANGED setting, inside' \in 0..setting.callers, SendQueued
  PROVE  SessionInv'
<1>1. UNCHANGED <<setting, lastId, held, delivered, qos, published, refused, expired, inbound>>
  BY DEF SendQueued, history
<1>2. PICK i : i = Dequeue(outbox, "queued")
  OBVIOUS
<1>3. PICK packet : packet = Of(outbox[i], FALSE)
  OBVIOUS
<1>4. i \in DOMAIN outbox /\ outbox[i].pending = "queued"
  <2>1. outbox \in Seq(Item) /\ i # 0
    BY <1>2 DEF SessionInv, SessionTypeOK, SendQueued
  <2> QED BY <1>2, <2>1, DequeueFinds
<1>5. PICK id : id = outbox[i].id
  OBVIOUS
<1>6. /\ packet \in Packet /\ UpOK(packet)
      /\ packet.type = outbox[i].type /\ packet.id = id
      /\ outbox[i] \in Item /\ ItemOK(outbox[i]) /\ ~Settled(id) /\ (id # 0 => id \in Ids)
  <2>1. Of(outbox[i], FALSE).type = outbox[i].type
    BY DEF Of, Pack
  <2> QED BY <1>3, <1>4, <1>5, <2>1, ItemWritable
<1>7. \/ /\ outbox[i].qos = 0 /\ outbox' = DeleteItem(outbox, i)
         /\ up' = up \o << packet >> /\ Stay
      \/ /\ outbox[i].qos # 0 /\ outbox' = SetPending(outbox, id, "transmitted")
         /\ up' = up \o << packet >> /\ Stay
      \/ /\ UNCHANGED outbox /\ Abort
         /\ up' = up \o << packet >> \/ up' = up
  BY <1>2, <1>3, <1>5 DEF SendQueued, Write, WriteFails
<1>8. outbox[i].qos = 0 => id = 0 \/ outbox[i].type # "publish"
  BY <1>5, <1>6 DEF ItemOK
<1>9. /\ outbox' \in Seq(Item) /\ Unique(outbox') /\ OutboxInv' /\ IdsInv' /\ KeptInv' /\ Onward
      /\ packet.type = "publish" /\ packet.id # 0 => ~Settled(packet.id)'
  <2>1. CASE outbox[i].qos = 0 /\ outbox' = DeleteItem(outbox, i)
    <3>1. outbox[i].id \in Ids => qos[outbox[i].id] = 0
      <4>1. 0 \notin Ids
        BY DEF Ids
      <4> QED BY <1>5, <1>6, <2>1, <4>1 DEF ItemOK
    <3>2. outbox' \in Seq(Item) /\ Unique(outbox') /\ OutboxInv' /\ IdsInv' /\ KeptInv' /\ Onward
      BY <1>1, <1>4, <2>1, <3>1, ItemGone
    <3> QED BY <1>6, <1>8, <2>1, <3>2
  <2>2. CASE outbox[i].qos # 0 /\ outbox' = SetPending(outbox, id, "transmitted")
    <3>1. id \in Ids
      BY <1>5, <1>6, <2>2 DEF ItemOK
    <3>2. /\ outbox' \in Seq(Item) /\ Unique(outbox') /\ OutboxInv'
          /\ \A x \in Ids : Settled(x) => Settled(x)'
          /\ ~Settled(id)'
          /\ \A x \in Ids : Has(outbox, x) => Has(outbox', x)
      <4>1. SessionTypeOK /\ OutboxInv /\ "transmitted" \in {"transmitted", "acknowledged"}
            /\ "transmitted" # "acknowledged"
        BY DEF SessionInv
      <4> QED BY <1>1, <1>6, <2>2, <3>1, <4>1, ItemMarked
    <3>3. IdsInv' /\ KeptInv' /\ Onward
      BY <1>1, <3>2 DEF SessionInv, IdsInv, KeptInv, Onward
    <3>4. ~Settled(packet.id)'
      BY <1>6, <3>2 DEF Settled
    <3> QED BY <3>2, <3>3, <3>4
  <2>3. CASE UNCHANGED outbox
    <3>1. outbox' \in Seq(Item) /\ Unique(outbox') /\ OutboxInv' /\ IdsInv' /\ KeptInv' /\ Onward
      BY <1>1, <2>3, Unmoved
    <3>2. ~Settled(packet.id)'
      BY <1>6, <2>3 DEF Settled
    <3> QED BY <3>1, <3>2
  <2> QED BY <1>7, <2>1, <2>2, <2>3
<1>10. Writable(<< packet >>)'
  <2>1. UpOK(packet)'
    BY <1>6, <1>9, UpOKStays
  <2>2. packet \in Packet'
    BY <1>1, <1>6 DEF Packet
  <2> QED BY <1>9, <2>1, <2>2, OneWritable
<1>11. up' \in Seq(Packet)' /\ UpInv' /\ OverInv'
  <2>1. up' = up \o << packet >> \/ up' = up
    BY <1>7
  <2> QED BY <1>1, <1>9, <1>10, <2>1, Written, NotWritten
<1>12. /\ link' \in {"up", "down"} /\ breaks' \in 0..setting.breaks
       /\ down' \in {down, << >>}
  BY <1>7, AbortStays
<1>13. down' \in Seq(Packet)' /\ DownInv'
  BY <1>9, <1>12, DownAlone
<1>14. count' \in Nat
  <2>1. count \in Nat
    BY DEF SessionInv, SessionTypeOK
  <2>2. count' \in {count, count + 1}
    BY DEF SendQueued
  <2> QED BY <2>1, <2>2
<1>15. SessionTypeOK'
  BY <1>1, <1>9, <1>11, <1>12, <1>13, <1>14 DEF SessionInv, SessionTypeOK, inbound, Onward
<1> QED BY <1>9, <1>11, <1>13, <1>15 DEF SessionInv

(* What is sent again: a message that is not acknowledged, the PUBREL of    *)
(* one that is, or both.                                                    *)
LEMMA AgainWritable ==
  ASSUME SessionInv, UNCHANGED setting,
         NEW i \in {0, Dequeue(outbox, "transmitted")},
         NEW j \in {0, Dequeue(outbox, "acknowledged")}
  PROVE  Writable(Again(i, j)) /\ Len(Again(i, j)) \in Nat
<1>1. outbox \in Seq(Item) /\ Unique(outbox) /\ OutboxInv
  BY DEF SessionInv, SessionTypeOK
<1> DEFINE p == Of(outbox[i], outbox[i].type = "publish")
           r == Pack("pubrel", outbox[j].id, 0, FALSE)
<1>2. CASE i = 0 /\ j = 0
  <2>1. Again(i, j) = << >> \o << >>
    BY <1>2 DEF Again
  <2>2. Again(i, j) = << >>
    BY <2>1
  <2> QED BY <2>2 DEF Writable, ReleaseLast
<1>3. i # 0 => /\ p \in Packet /\ UpOK(p) /\ p.type # "pubrel"
               /\ p.type = "publish" /\ p.id # 0 => ~Settled(p.id)
  <2> HAVE i # 0
  <2>1. i \in DOMAIN outbox /\ outbox[i].pending = "transmitted"
    BY <1>1, DequeueFinds
  <2>2. (outbox[i].type = "publish") \in BOOLEAN
    OBVIOUS
  <2> QED BY <2>1, <2>2, ItemWritable DEF Types
<1>4. j # 0 => /\ r \in Packet /\ UpOK(r) /\ r.type = "pubrel"
  <2> HAVE j # 0
  <2>1. j \in DOMAIN outbox /\ outbox[j].pending = "acknowledged"
    BY <1>1, DequeueFinds
  <2>2. ItemOK(outbox[j]) /\ outbox[j] \in Item
    BY <1>1, <2>1 DEF OutboxInv
  <2>3. outbox[j].id # 0 /\ delivered[outbox[j].id] # 0
    BY <2>1, <2>2 DEF ItemOK
  <2>4. outbox[j].id \in Ids /\ outbox[j].id \in PacketIds
    <3>1. outbox[j].id \in 0..MaxId
      BY <2>2 DEF Item
    <3>2. outbox[j].id \in Ids
      BY <2>3, <3>1, SessionAssumption DEF Ids
    <3> QED BY <3>1, <3>2, IdsArePacketIds DEF SessionInv
  <2>5. Settled(outbox[j].id)
    BY <1>1, <2>1, <2>3 DEF Settled, Unique
  <2>6. r.type = "pubrel" /\ r.id = outbox[j].id
    BY DEF Pack
  <2>7. r \in Packet
    <3>1. "pubrel" \in PacketTypes /\ FALSE \in BOOLEAN /\ 0 \in 0..2
      BY DEF PacketTypes
    <3> QED BY <2>4, <3>1, PackIsPacket
  <2> HIDE DEF r
  <2>8. UpOK(r)
    BY <2>3, <2>4, <2>5, <2>6 DEF UpOK, Settled
  <2> QED BY <2>6, <2>7, <2>8
<1>5. CASE i # 0 /\ j = 0
  <2>1. Again(i, j) = << p >> \o << >>
    BY <1>5, Zenon DEF Again
  <2> HIDE DEF p
  <2>2. << p >> \o << >> = << p >>
    OBVIOUS
  <2>3. << p >> \in Seq(Packet) /\ DOMAIN << p >> = {1} /\ << p >>[1] = p
    BY <1>3, <1>5
  <2>4. Writable(<< p >>)
    BY <1>3, <1>5, <2>3 DEF Writable, ReleaseLast
  <2> QED BY <2>1, <2>2, <2>4 DEF Writable
<1>6. CASE i = 0 /\ j # 0
  <2>1. Again(i, j) = << >> \o << r >>
    BY <1>6, Zenon DEF Again
  <2> HIDE DEF r
  <2>2. << >> \o << r >> = << r >>
    OBVIOUS
  <2>3. << r >> \in Seq(Packet) /\ DOMAIN << r >> = {1} /\ << r >>[1] = r
    BY <1>4, <1>6
  <2>4. Writable(<< r >>)
    BY <1>4, <1>6, <2>3 DEF Writable, ReleaseLast
  <2> QED BY <2>1, <2>2, <2>4 DEF Writable
<1>7. CASE i # 0 /\ j # 0
  <2>1. Again(i, j) = << p >> \o << r >>
    BY <1>7, Zenon DEF Again
  <2> HIDE DEF p, r
  <2>2. /\ << p >> \in Seq(Packet) /\ Len(<< p >>) = 1 /\ << p >>[1] = p
        /\ << r >> \in Seq(Packet) /\ Len(<< r >>) = 1 /\ << r >>[1] = r
    BY <1>3, <1>4, <1>7
  <2>3. PICK a, b : a = << p >> /\ b = << r >>
    OBVIOUS
  <2>4. /\ a \in Seq(Packet) /\ Len(a) = 1 /\ a[1] = p
        /\ b \in Seq(Packet) /\ Len(b) = 1 /\ b[1] = r
    BY <2>2, <2>3
  <2>5. /\ a \o b \in Seq(Packet) /\ Len(a \o b) = Len(a) + Len(b)
        /\ \A n \in 1..(Len(a) + Len(b)) :
             (a \o b)[n] = IF n <= Len(a) THEN a[n] ELSE b[n - Len(a)]
    BY <2>4, ConcatProperties
  <2>6. PICK ps : ps = a \o b
    OBVIOUS
  <2>7. ps \in Seq(Packet) /\ DOMAIN ps = {1, 2} /\ ps[1] = p /\ ps[2] = r
    BY <2>4, <2>5, <2>6
  <2>8. ReleaseLast(ps)
    BY <1>3, <1>4, <1>7, <2>7 DEF ReleaseLast
  <2>9. Writable(ps)
    BY <1>3, <1>4, <1>7, <2>7, <2>8 DEF Writable
  <2>10. Again(i, j) = ps
    BY <2>1, <2>3, <2>6
  <2> QED BY <2>9, <2>10 DEF Writable
<1> QED BY <1>2, <1>5, <1>6, <1>7

LEMMA ResendKeeps ==
  ASSUME SessionInv, UNCHANGED setting, inside' \in 0..setting.callers, Resend
  PROVE  SessionInv'
<1>1. UNCHANGED <<setting, outbox, lastId, held, delivered, qos, published, refused, expired, inbound>>
  BY DEF Resend, history
<1>2. PICK i \in {0, Dequeue(outbox, "transmitted")}, j \in {0, Dequeue(outbox, "acknowledged")} :
        \/ /\ Write(Again(i, j))
           /\ count' = IF setting.receiveMax > 0 THEN count + Undupped(Again(i, j)) ELSE count
           /\ Stay
        \/ /\ WriteFails(Again(i, j))
           /\ Abort /\ UNCHANGED count
  BY DEF Resend
<1>3. PICK ps : ps = Again(i, j)
  OBVIOUS
<1>4. Writable(ps)
  BY <1>3, AgainWritable
<1>5. outbox' \in Seq(Item) /\ Unique(outbox') /\ OutboxInv' /\ IdsInv' /\ KeptInv' /\ Onward
  BY <1>1, Unmoved
<1>6. Writable(ps)'
  <2>1. \A n \in DOMAIN ps : UpOK(ps[n])'
    <3> TAKE n \in DOMAIN ps
    <3>1. PICK p : p = ps[n]
      OBVIOUS
    <3>2. UpOK(p)'
      BY <1>4, <1>5, <3>1, UpOKStays DEF Writable
    <3> QED BY <3>1, <3>2 DEF UpOK
  <2> QED BY <1>1, <1>4, <2>1 DEF Writable, Packet, ReleaseLast, Settled
<1>7. up' \in Seq(Packet)' /\ UpInv' /\ OverInv'
  <2>1. up' = up \o ps \/ up' = up
    BY <1>2, <1>3 DEF Write, WriteFails
  <2> QED BY <1>1, <1>5, <1>6, <2>1, Written, NotWritten
<1>8. /\ link' \in {"up", "down"} /\ breaks' \in 0..setting.breaks
      /\ down' \in {down, << >>}
  BY <1>2, AbortStays
<1>9. down' \in Seq(Packet)' /\ DownInv'
  BY <1>5, <1>8, DownAlone
<1>10. count' \in Nat
  <2>1. count \in Nat
    BY DEF SessionInv, SessionTypeOK
  <2>2. Undupped(ps) \in Nat
    <3>1. ps \in Seq(Packet)
      BY <1>4 DEF Writable
    <3>2. Len(ps) \in Nat /\ DOMAIN ps = 1..Len(ps)
      BY <3>1
    <3>3. IsFiniteSet(1..Len(ps))
      BY <3>2, FS_Interval
    <3>4. IsFiniteSet({n \in DOMAIN ps : ~ps[n].dup})
      BY <3>2, <3>3, FS_Subset
    <3> QED BY <3>4, FS_CardinalityType DEF Undupped
  <2>3. count' = count \/ count' = count + Undupped(ps)
    BY <1>2, <1>3
  <2> QED BY <2>1, <2>2, <2>3
<1>11. SessionTypeOK'
  BY <1>1, <1>5, <1>7, <1>8, <1>9, <1>10 DEF SessionInv, SessionTypeOK, inbound, Onward
<1> QED BY <1>5, <1>7, <1>9, <1>11 DEF SessionInv
-----------------------------------------------------------------------------
(* The broker.                                                              *)

(* What a step of the broker leaves alone, when it delivers no less.        *)
LEMMA BrokerLeaves ==
  ASSUME SessionInv, UNCHANGED setting, Keep,
         \A id \in Ids : delivered[id] # 0 => delivered'[id] # 0
  PROVE  /\ outbox' \in Seq(Item) /\ Unique(outbox') /\ lastId' \in 0..MaxId
         /\ link' \in {"up", "down"} /\ count' \in Nat /\ breaks' \in 0..setting.breaks
         /\ {published, refused, expired}' \subseteq SUBSET Ids /\ qos' \in [Ids -> 0..2]
         /\ handed' \in [1..setting.inbound -> 0..2]
         /\ OutboxInv' /\ KeptInv' /\ Onward
         /\ UNCHANGED <<outbox, qos, lastId>>
         /\ \A id : Settled(id) => Settled(id)'
<1>1. UNCHANGED <<outbox, lastId, link, count, breaks, qos, published, refused, expired, handed>>
  BY DEF Keep, client, history
<1>2. /\ outbox' \in Seq(Item) /\ Unique(outbox') /\ lastId' \in 0..MaxId
      /\ link' \in {"up", "down"} /\ count' \in Nat /\ breaks' \in 0..setting.breaks
      /\ {published, refused, expired}' \subseteq SUBSET Ids /\ qos' \in [Ids -> 0..2]
      /\ handed' \in [1..setting.inbound -> 0..2]
  BY <1>1 DEF SessionInv, SessionTypeOK
<1>3. KeptInv'
  BY <1>1 DEF SessionInv, KeptInv, Has
<1>4. OutboxInv'
  <2>1. \A i \in DOMAIN outbox : outbox[i].id # 0 => outbox[i].id \in Ids
    <3> TAKE i \in DOMAIN outbox
    <3>1. outbox[i] \in Item
      BY DEF SessionInv, SessionTypeOK
    <3>2. outbox[i].id \in 0..MaxId
      BY <3>1 DEF Item
    <3> QED BY <3>2, SessionAssumption DEF Ids
  <2>2. \A i \in DOMAIN outbox : ItemOK(outbox[i])
    BY DEF SessionInv, OutboxInv
  <2> QED BY <1>1, <2>1, <2>2 DEF OutboxInv, ItemOK
<1>5. \A id : Settled(id) => Settled(id)'
  BY <1>1 DEF Settled
<1>6. Onward
  BY <1>1, <1>5 DEF Onward
<1> QED BY <1>1, <1>2, <1>3, <1>4, <1>5, <1>6

(* A reply goes out, or is lost with the connection.                        *)
LEMMA Replied ==
  ASSUME SessionInv, Onward, NEW p \in Packet, DownOK(p)',
         \E ps \in {<< >>, << p >>} : Reply(ps)
  PROVE  down' \in Seq(Packet)' /\ DownInv'
<1>1. PICK ps \in {<< >>, << p >>} : Reply(ps)
  OBVIOUS
<1>2. ps \in Seq(Packet) /\ \A n \in DOMAIN ps : ps[n] = p
  <2>1. CASE ps = << >>
    BY <2>1
  <2>2. CASE ps = << p >>
    <3>1. DOMAIN << p >> = {1} /\ << p >>[1] = p /\ << p >> \in Seq(Packet)
      OBVIOUS
    <3> QED BY <2>2, <3>1
  <2> QED BY <2>1, <2>2
<1>3. ps \in Seq(Packet') /\ \A n \in DOMAIN ps : DownOK(ps[n])'
  BY <1>2 DEF Onward, Packet, DownOK
<1>4. down' = down \/ down' = down \o ps
  BY <1>1 DEF Reply
<1> QED BY <1>3, <1>4, Answered

(* A PUBLISH, of QoS 0 or of a message the application made.                *)
LEMMA BrokerPublishKeeps ==
  ASSUME SessionInv, UNCHANGED setting, inside' \in 0..setting.callers, BrokerPublish
  PROVE  SessionInv'
<1>1. /\ up # << >> /\ Head(up).type = "publish" /\ up' = Tail(up)
      /\ UNCHANGED <<setting, offered>> /\ Keep
  BY DEF BrokerPublish, Take
<1>2. PICK p : p = Head(up)
  OBVIOUS
<1>3. /\ delivered' = IF p.id # 0 /\ p.id \notin held THEN Once(delivered, p.id) ELSE delivered
      /\ held' = IF p.qos = 2 THEN held \cup {p.id} ELSE held
      /\ Reply(Acknowledge(p))
  BY <1>2 DEF BrokerPublish
<1>4. p = up[1] /\ p \in Packet /\ UpOK(p) /\ 1 \in DOMAIN up
  <2>1. up \in Seq(Packet) /\ \A i \in DOMAIN up : UpOK(up[i])
    BY DEF SessionInv, SessionTypeOK, UpInv
  <2>2. Head(up) = up[1] /\ Head(up) \in Packet /\ 1 \in DOMAIN up
    BY <1>1, <2>1, HeadTailProperties
  <2> QED BY <1>2, <2>1, <2>2
<1>5. /\ p.type = "publish" /\ p.qos \in 0..2
      /\ p.id # 0 => p.id \in Ids /\ p.qos = qos[p.id] /\ p.qos # 0
      /\ p.id = 0 => p.qos = 0
  BY <1>1, <1>2, <1>4 DEF UpOK, Packet
<1>6. /\ delivered' \in [Ids -> 0..2]
      /\ \A id \in Ids : id # p.id => delivered'[id] = delivered[id]
      /\ \A id \in Ids : delivered[id] # 0 => delivered'[id] # 0
      /\ p.id # 0 => delivered'[p.id] # 0
  <2>1. delivered \in [Ids -> 0..2] /\ \A id \in held : delivered[id] # 0
    BY DEF SessionInv, SessionTypeOK, IdsInv
  <2>2. CASE p.id # 0 /\ p.id \notin held
    <3>1. PICK id : id = p.id
      OBVIOUS
    <3>2. id \in Ids /\ delivered[id] \in 0..2
      BY <1>5, <2>1, <2>2, <3>1
    <3>3. PICK n : n = IF delivered[id] < 2 THEN delivered[id] + 1 ELSE 2
      OBVIOUS
    <3>4. n \in 0..2 /\ n # 0
      BY <3>2, <3>3
    <3>5. delivered' = [delivered EXCEPT ![id] = n]
      BY <1>3, <2>2, <3>1, <3>3 DEF Once
    <3> QED BY <2>1, <3>1, <3>2, <3>4, <3>5
  <2>3. CASE ~(p.id # 0 /\ p.id \notin held)
    BY <1>3, <2>1, <2>3
  <2> QED BY <2>2, <2>3
<1>7. /\ outbox' \in Seq(Item) /\ Unique(outbox') /\ lastId' \in 0..MaxId
      /\ link' \in {"up", "down"} /\ count' \in Nat /\ breaks' \in 0..setting.breaks
      /\ {published, refused, expired}' \subseteq SUBSET Ids /\ qos' \in [Ids -> 0..2]
      /\ handed' \in [1..setting.inbound -> 0..2]
      /\ OutboxInv' /\ KeptInv' /\ Onward
      /\ UNCHANGED <<outbox, qos, lastId>>
      /\ \A id : Settled(id) => Settled(id)'
  BY <1>1, <1>6, BrokerLeaves
<1>8. /\ held' \subseteq Ids /\ held \subseteq held'
      /\ p.qos = 2 => p.id \in held'
      /\ \A id \in held' : id \in held \/ (id = p.id /\ p.id # 0)
  <2>1. held \subseteq Ids
    BY DEF SessionInv, SessionTypeOK
  <2>2. CASE p.qos = 2
    <3>1. held' = held \cup {p.id} /\ p.id \in Ids /\ p.id # 0
      BY <1>3, <1>5, <2>2
    <3> QED BY <2>1, <2>2, <3>1
  <2>3. CASE p.qos # 2
    <3>1. held' = held
      BY <1>3, <2>3
    <3>2. held' \subseteq Ids /\ held \subseteq held'
      BY <2>1, <3>1
    <3>3. \A id \in held' : id \in held
      BY <3>1
    <3> QED BY <2>3, <3>2, <3>3, Zenon
  <2> QED BY <2>2, <2>3
<1>9. IdsInv'
  <2>1. \A id \in Ids : delivered'[id] # 0 => qos'[id] # 0
    <3> SUFFICES ASSUME NEW id \in Ids, delivered'[id] # 0 PROVE qos[id] # 0
      BY <1>7
    <3>1. CASE id = p.id
      <4>1. p.id # 0
        BY <3>1, SessionAssumption DEF Ids
      <4> QED BY <1>5, <3>1, <4>1
    <3>2. CASE id # p.id
      <4>1. delivered[id] # 0
        BY <1>6, <3>2
      <4> QED BY <4>1 DEF SessionInv, IdsInv
    <3> QED BY <3>1, <3>2
  <2>2. \A id \in held' : delivered'[id] # 0
    BY <1>6, <1>8 DEF SessionInv, SessionTypeOK, IdsInv
  <2>3. \A id \in Ids : qos'[id] # 0 => id <= lastId'
    BY <1>7 DEF SessionInv, IdsInv
  <2> QED BY <2>1, <2>2, <2>3 DEF IdsInv
<1>10. up' \in Seq(Packet)' /\ UpInv' /\ \A i \in DOMAIN up' : i + 1 \in DOMAIN up /\ up'[i] = up[i + 1]
  BY <1>1, <1>7, Taken
<1>11. OverInv'
  <2> SUFFICES ASSUME NEW id \in Ids, qos'[id] = 2, delivered'[id] # 0, id \notin held'
               PROVE  /\ Settled(id)'
                      /\ \A i \in DOMAIN up' : ~(up'[i].type = "publish" /\ up'[i].id = id)
    BY DEF OverInv
  <2>1. id # p.id
    BY <1>5, <1>7, <1>8 DEF Ids
  <2>2. qos[id] = 2 /\ delivered[id] # 0 /\ id \notin held
    BY <1>6, <1>7, <1>8, <2>1
  <2>3. Settled(id) /\ \A i \in DOMAIN up : ~(up[i].type = "publish" /\ up[i].id = id)
    BY <2>2 DEF SessionInv, OverInv
  <2> QED BY <1>7, <1>10, <2>3
<1>12. down' \in Seq(Packet)' /\ DownInv'
  <2>1. CASE p.qos = 0
    <3>1. Reply(<< >>)
      <4>1. Acknowledge(p) = << >>
        BY <2>1 DEF Acknowledge
      <4> QED BY <1>3, <4>1
    <3>2. down' \in {down, << >>}
      BY <3>1 DEF Reply, SessionInv, SessionTypeOK
    <3> QED BY <1>7, <3>2, DownAlone
  <2>2. CASE p.qos # 0
    <3>1. PICK type : type = IF p.qos = 1 THEN "puback" ELSE "pubrec"
      OBVIOUS
    <3>2. PICK r : r = Pack(type, p.id, 0, FALSE)
      OBVIOUS
    <3>3. Reply(<< r >>)
      <4>1. Acknowledge(p) = << r >>
        BY <2>2, <3>1, <3>2 DEF Acknowledge
      <4> QED BY <1>3, <4>1
    <3>4. p.id \in Ids /\ delivered'[p.id] # 0
      BY <1>5, <1>6, <2>2
    <3>5. r \in Packet /\ r.type = type /\ r.id = p.id
      <4>1. type \in PacketTypes /\ FALSE \in BOOLEAN /\ 0 \in 0..2 /\ p.id \in PacketIds
        BY <3>1, <3>4, IdsArePacketIds DEF PacketTypes, SessionInv
      <4>2. r \in Packet
        BY <3>2, <4>1, PackIsPacket
      <4> QED BY <3>2, <4>2 DEF Pack
    <3>6. DownOK(r)'
      BY <3>1, <3>4, <3>5 DEF DownOK
    <3> QED BY <1>7, <3>3, <3>5, <3>6, Replied
  <2> QED BY <2>1, <2>2
<1>13. SessionTypeOK'
  BY <1>1, <1>6, <1>7, <1>8, <1>10, <1>12 DEF SessionInv, SessionTypeOK
<1> QED BY <1>7, <1>9, <1>10, <1>11, <1>12, <1>13 DEF SessionInv

(* A PUBREL: the broker forgets the id, and nothing with it is behind.      *)
LEMMA BrokerPubrelKeeps ==
  ASSUME SessionInv, UNCHANGED setting, inside' \in 0..setting.callers, BrokerPubrel
  PROVE  SessionInv'
<1>1. /\ up # << >> /\ Head(up).type = "pubrel" /\ up' = Tail(up)
      /\ UNCHANGED <<setting, delivered, offered>> /\ Keep
  BY DEF BrokerPubrel, Take
<1>2. PICK id : id = Head(up).id
  OBVIOUS
<1>3. PICK r : r = Pack("pubcomp", id, 0, FALSE)
  OBVIOUS
<1>4. held' = held \ {id} /\ Reply(<< r >>)
  BY <1>2, <1>3 DEF BrokerPubrel
<1>5. /\ outbox' \in Seq(Item) /\ Unique(outbox') /\ lastId' \in 0..MaxId
      /\ link' \in {"up", "down"} /\ count' \in Nat /\ breaks' \in 0..setting.breaks
      /\ {published, refused, expired}' \subseteq SUBSET Ids /\ qos' \in [Ids -> 0..2]
      /\ handed' \in [1..setting.inbound -> 0..2]
      /\ OutboxInv' /\ KeptInv' /\ Onward
      /\ UNCHANGED <<outbox, qos, lastId>>
      /\ \A x : Settled(x) => Settled(x)'
  BY <1>1, BrokerLeaves
<1>6. /\ up' \in Seq(Packet)' /\ UpInv'
      /\ \A i \in DOMAIN up' : i + 1 \in DOMAIN up /\ up'[i] = up[i + 1] /\ i + 1 > 1
      /\ Head(up) = up[1] /\ UpOK(Head(up))
  BY <1>1, <1>5, Taken
<1>7. id \in Ids /\ delivered[id] # 0 /\ Settled(id)
  BY <1>1, <1>2, <1>6 DEF UpOK, Settled
<1>8. \A i \in DOMAIN up' : ~(up'[i].type = "publish" /\ up'[i].id = id)
  <2>1. 1 \in DOMAIN up
    <3>1. up \in Seq(Packet)
      BY DEF SessionInv, SessionTypeOK
    <3> QED BY <1>1, <3>1
  <2> QED BY <1>1, <1>2, <1>6, <2>1 DEF SessionInv, UpInv, ReleaseLast
<1>9. IdsInv' /\ held' \subseteq Ids /\ delivered' \in [Ids -> 0..2]
  BY <1>1, <1>4, <1>5 DEF SessionInv, SessionTypeOK, IdsInv
<1>10. OverInv'
  <2> SUFFICES ASSUME NEW x \in Ids, qos'[x] = 2, delivered'[x] # 0, x \notin held'
               PROVE  /\ Settled(x)'
                      /\ \A i \in DOMAIN up' : ~(up'[i].type = "publish" /\ up'[i].id = x)
    BY DEF OverInv
  <2>1. CASE x = id
    BY <1>5, <1>7, <1>8, <2>1
  <2>2. CASE x # id
    <3>1. qos[x] = 2 /\ delivered[x] # 0 /\ x \notin held
      BY <1>1, <1>4, <1>5, <2>2
    <3>2. Settled(x) /\ \A i \in DOMAIN up : ~(up[i].type = "publish" /\ up[i].id = x)
      BY <3>1 DEF SessionInv, OverInv
    <3> QED BY <1>5, <1>6, <3>2
  <2> QED BY <2>1, <2>2
<1>11. down' \in Seq(Packet)' /\ DownInv'
  <2>1. r \in Packet /\ r.type = "pubcomp" /\ r.id = id
    <3>1. "pubcomp" \in PacketTypes /\ FALSE \in BOOLEAN /\ 0 \in 0..2 /\ id \in PacketIds
      BY <1>7, IdsArePacketIds DEF PacketTypes, SessionInv
    <3>2. r \in Packet
      BY <1>3, <3>1, PackIsPacket
    <3> QED BY <1>3, <3>2 DEF Pack
  <2>2. DownOK(r)'
    BY <1>1, <1>7, <2>1 DEF DownOK
  <2> QED BY <1>4, <1>5, <2>1, <2>2, Replied
<1>12. SessionTypeOK'
  BY <1>1, <1>5, <1>6, <1>9, <1>11 DEF SessionInv, SessionTypeOK
<1> QED BY <1>5, <1>6, <1>9, <1>10, <1>11, <1>12 DEF SessionInv
LEMMA BrokerSubscribeKeeps ==
  ASSUME SessionInv, UNCHANGED setting, inside' \in 0..setting.callers, BrokerSubscribe
  PROVE  SessionInv'
<1>1. /\ up # << >> /\ up' = Tail(up)
      /\ UNCHANGED <<setting, held, delivered, offered>> /\ Keep
  BY DEF BrokerSubscribe, Take
<1>2. PICK type : type = IF Head(up).type = "subscribe" THEN "suback" ELSE "unsuback"
  OBVIOUS
<1>3. PICK r : r = Pack(type, Head(up).id, 0, FALSE)
  OBVIOUS
<1>4. Reply(<< r >>)
  BY <1>2, <1>3 DEF BrokerSubscribe
<1>5. /\ outbox' \in Seq(Item) /\ Unique(outbox') /\ lastId' \in 0..MaxId
      /\ link' \in {"up", "down"} /\ count' \in Nat /\ breaks' \in 0..setting.breaks
      /\ {published, refused, expired}' \subseteq SUBSET Ids /\ qos' \in [Ids -> 0..2]
      /\ handed' \in [1..setting.inbound -> 0..2]
      /\ OutboxInv' /\ KeptInv' /\ Onward
      /\ UNCHANGED <<outbox, qos, lastId>>
      /\ \A id : Settled(id) => Settled(id)'
  BY <1>1, BrokerLeaves
<1>6. /\ up' \in Seq(Packet)' /\ UpInv'
      /\ \A i \in DOMAIN up' : i + 1 \in DOMAIN up /\ up'[i] = up[i + 1] /\ i + 1 > 1
      /\ Head(up) \in Packet
  BY <1>1, <1>5, Taken
<1>7. IdsInv' /\ OverInv'
  BY <1>1, <1>5, <1>6 DEF SessionInv, IdsInv, OverInv
<1>8. down' \in Seq(Packet)' /\ DownInv'
  <2>1. r \in Packet /\ r.type = type
    <3>1. Head(up).id \in PacketIds
      BY <1>6 DEF Packet, PacketIds
    <3>2. type \in PacketTypes /\ FALSE \in BOOLEAN /\ 0 \in 0..2
      BY <1>2 DEF PacketTypes
    <3>3. r \in Packet
      BY <1>3, <3>1, <3>2, PackIsPacket
    <3> QED BY <1>3, <3>3 DEF Pack
  <2>2. DownOK(r)'
    BY <1>2, <2>1 DEF DownOK
  <2> QED BY <1>4, <1>5, <2>1, <2>2, Replied
<1>9. SessionTypeOK'
  BY <1>1, <1>5, <1>6, <1>8 DEF SessionInv, SessionTypeOK
<1> QED BY <1>5, <1>6, <1>7, <1>8, <1>9 DEF SessionInv

(* PUBREC or PUBCOMP, an answer to a message of the broker.                 *)
LEMMA BrokerAnsweredKeeps ==
  ASSUME SessionInv, UNCHANGED setting, inside' \in 0..setting.callers, BrokerAnswered
  PROVE  SessionInv'
<1>1. /\ up # << >> /\ Head(up).type \in {"pubrec", "pubcomp"} /\ up' = Tail(up)
      /\ UNCHANGED <<setting, held, delivered>> /\ Keep
  BY DEF BrokerAnswered, Take
<1>2. PICK k : k = Head(up).id - MaxId
  OBVIOUS
<1>3. PICK r : r = Pack("pubrel", MaxId + k, 0, FALSE)
  OBVIOUS
<1>4. /\ offered' = [offered EXCEPT ![k] = IF Head(up).type = "pubrec" /\ @ # "done"
                                           THEN "received" ELSE "done"]
      /\ \E ps \in {<< >>, << r >>} : Reply(ps)
  <2>1. offered' = [offered EXCEPT ![k] = IF Head(up).type = "pubrec" /\ @ # "done"
                                          THEN "received" ELSE "done"]
    BY <1>2 DEF BrokerAnswered
  <2>2. Reply(IF Head(up).type = "pubrec" THEN <<r>> ELSE <<>>)
    BY <1>2, <1>3 DEF BrokerAnswered
  <2> QED BY <2>1, <2>2
<1>5. /\ outbox' \in Seq(Item) /\ Unique(outbox') /\ lastId' \in 0..MaxId
      /\ link' \in {"up", "down"} /\ count' \in Nat /\ breaks' \in 0..setting.breaks
      /\ {published, refused, expired}' \subseteq SUBSET Ids /\ qos' \in [Ids -> 0..2]
      /\ handed' \in [1..setting.inbound -> 0..2]
      /\ OutboxInv' /\ KeptInv' /\ Onward
      /\ UNCHANGED <<outbox, qos, lastId>>
      /\ \A id : Settled(id) => Settled(id)'
  BY <1>1, BrokerLeaves
<1>6. /\ up' \in Seq(Packet)' /\ UpInv'
      /\ \A i \in DOMAIN up' : i + 1 \in DOMAIN up /\ up'[i] = up[i + 1] /\ i + 1 > 1
      /\ UpOK(Head(up))
  BY <1>1, <1>5, Taken
<1>7. IdsInv' /\ OverInv'
  BY <1>1, <1>5, <1>6 DEF SessionInv, IdsInv, OverInv
<1>8. k \in 1..setting.inbound
  BY <1>1, <1>2, <1>6 DEF UpOK
<1>9. offered' \in [1..setting.inbound -> {"new", "sent", "received", "done"}]
  BY <1>4, <1>8 DEF SessionInv, SessionTypeOK
<1>10. down' \in Seq(Packet)' /\ DownInv'
  <2>1. MaxId + k \in PacketIds /\ (MaxId + k) - MaxId = k /\ setting.inbound \in Nat
    <3>1. MaxId \in Nat /\ setting.inbound \in Nat
      BY SessionAssumption DEF SessionInv, SessionTypeOK, Setting
    <3> QED BY <1>8, <3>1 DEF PacketIds
  <2>2. r \in Packet /\ r.type = "pubrel" /\ r.id = MaxId + k
    <3>1. "pubrel" \in PacketTypes /\ FALSE \in BOOLEAN /\ 0 \in 0..2
      BY DEF PacketTypes
    <3>2. r \in Packet
      BY <1>3, <2>1, <3>1, PackIsPacket
    <3> QED BY <1>3, <3>2 DEF Pack
  <2>3. r.id - MaxId \in 1..setting'.inbound
    BY <1>1, <1>8, <2>1, <2>2
  <2>4. DownOK(r)'
    BY <2>2, <2>3 DEF DownOK
  <2> QED BY <1>4, <1>5, <2>2, <2>4, Replied
<1>11. SessionTypeOK'
  BY <1>1, <1>5, <1>6, <1>9, <1>10 DEF SessionInv, SessionTypeOK
<1> QED BY <1>5, <1>6, <1>7, <1>10, <1>11 DEF SessionInv

(* A message of the broker's own, or its PUBREL.                            *)
LEMMA BrokerOffersKeeps ==
  ASSUME SessionInv, UNCHANGED setting, inside' \in 0..setting.callers,
         NEW k \in DOMAIN offered, BrokerOffers(k)
  PROVE  SessionInv'
<1>1. /\ UNCHANGED <<setting, up, held, delivered>> /\ Keep
      /\ offered' = [offered EXCEPT ![k] = IF @ = "new" THEN "sent" ELSE @]
  BY DEF BrokerOffers
<1>2. PICK type : type = IF offered[k] = "received" THEN "pubrel" ELSE "publish"
  OBVIOUS
<1>3. PICK r : r = Pack(type, MaxId + k, 2, FALSE)
  OBVIOUS
<1>4. offered \in [1..setting.inbound -> {"new", "sent", "received", "done"}]
  BY DEF SessionInv, SessionTypeOK
<1>5. k \in 1..setting.inbound
  BY <1>4
<1>6. /\ outbox' \in Seq(Item) /\ Unique(outbox') /\ lastId' \in 0..MaxId
      /\ link' \in {"up", "down"} /\ count' \in Nat /\ breaks' \in 0..setting.breaks
      /\ {published, refused, expired}' \subseteq SUBSET Ids /\ qos' \in [Ids -> 0..2]
      /\ handed' \in [1..setting.inbound -> 0..2]
      /\ OutboxInv' /\ KeptInv' /\ Onward
      /\ UNCHANGED <<outbox, qos, lastId>>
      /\ \A id : Settled(id) => Settled(id)'
  BY <1>1, BrokerLeaves
<1>7. up' \in Seq(Packet)' /\ UpInv' /\ OverInv'
  BY <1>1, <1>6, NotWritten
<1>8. IdsInv'
  BY <1>1, <1>6 DEF SessionInv, IdsInv
<1>9. offered' \in [1..setting.inbound -> {"new", "sent", "received", "done"}]
  BY <1>1, <1>4, <1>5
<1>10. down' \in Seq(Packet)' /\ DownInv'
  <2>1. MaxId + k \in PacketIds /\ (MaxId + k) - MaxId = k
    <3>1. MaxId \in Nat /\ setting.inbound \in Nat
      BY SessionAssumption DEF SessionInv, SessionTypeOK, Setting
    <3> QED BY <1>5, <3>1 DEF PacketIds
  <2>2. r \in Packet /\ r.type = type /\ r.id = MaxId + k
    <3>1. type \in PacketTypes /\ FALSE \in BOOLEAN /\ 2 \in 0..2
      BY <1>2 DEF PacketTypes, Types
    <3>2. r \in Packet
      BY <1>3, <2>1, <3>1, PackIsPacket
    <3> QED BY <1>3, <3>2 DEF Pack
  <2>3. r.id - MaxId \in 1..setting'.inbound
    BY <1>1, <1>5, <2>1, <2>2
  <2>4. DownOK(r)'
    BY <1>2, <2>2, <2>3 DEF DownOK
  <2>5. down' = Append(down, r) /\ down \in Seq(Packet)
    BY <1>2, <1>3 DEF BrokerOffers, SessionInv, SessionTypeOK
  <2>6. down' = down \o << r >>
    BY <2>2, <2>5, AppendProperties
  <2>7. << r >> \in Seq(Packet') /\ \A n \in DOMAIN << r >> : DownOK(<< r >>[n])'
    <3>1. << r >> \in Seq(Packet) /\ DOMAIN << r >> = {1} /\ << r >>[1] = r
      BY <2>2
    <3> QED BY <1>1, <2>4, <3>1 DEF Packet, DownOK
  <2> QED BY <1>6, <2>6, <2>7, Answered
<1>11. SessionTypeOK'
  BY <1>1, <1>6, <1>7, <1>9, <1>10 DEF SessionInv, SessionTypeOK
<1> QED BY <1>6, <1>7, <1>8, <1>10, <1>11 DEF SessionInv

-----------------------------------------------------------------------------
(* The invariant holds.                                                     *)

LEMMA SessionInitInv ==
  ASSUME SessionInit
  PROVE  SessionInv
<1>1. setting \in Settings /\ setting \in Setting /\ setting.used \in 0..MaxId /\ MaxId \in Nat
      /\ setting.breaks \in Nat /\ setting.callers \in Nat
  BY SessionAssumption DEF SessionInit, Setting
<1>2. SessionTypeOK
  BY <1>1 DEF SessionInit, SessionTypeOK, Unique
<1>3. IdsInv /\ OutboxInv /\ UpInv /\ DownInv /\ OverInv /\ KeptInv
  BY DEF SessionInit, IdsInv, OutboxInv, UpInv, ReleaseLast, DownInv, OverInv, KeptInv
<1> QED BY <1>2, <1>3 DEF SessionInv

(* A thread enters enqueue() or leaves it.                                  *)
LEMMA InsideSteps ==
  ASSUME SessionInv, [SessionNext]_sessionVars
  PROVE  inside' \in 0..setting.callers
<1>1. inside \in 0..setting.callers /\ setting.callers \in Nat
  BY SessionAssumption DEF SessionInv, SessionTypeOK, Setting
<1>2. CASE Application
  <2>1. ASSUME Checked PROVE inside' \in 0..setting.callers
    BY <1>1, <2>1 DEF Checked
  <2>2. CASE EnqueueChecks \/ EnqueueLeaves
    BY <1>1, <2>2 DEF EnqueueChecks, EnqueueLeaves
  <2>3. CASE UNCHANGED inside
    BY <1>1, <2>3
  <2>4. CASE Checked
    BY <2>1, <2>4
  <2>5. \/ EnqueueChecks \/ EnqueueLeaves \/ UNCHANGED inside \/ Checked
    BY <1>2, Zenon DEF Application, EnqueuePublish, EnqueueStored
  <2> QED BY <2>2, <2>3, <2>4, <2>5
<1>3. CASE UNCHANGED inside
  BY <1>1, <1>3
<1>4. UNCHANGED inside \/ Application
  BY DEF SessionNext, sessionVars
<1> QED BY <1>2, <1>3, <1>4

LEMMA SessionStepInv ==
  ASSUME SessionInv, [SessionNext]_sessionVars
  PROVE  SessionInv'
<1>0. inside' \in 0..setting.callers
  BY InsideSteps
<1>1. CASE UNCHANGED sessionVars \/ (UNCHANGED setting /\ (EnqueueChecks \/ EnqueueLeaves))
  <2>1. UNCHANGED <<setting, outbox, lastId, link, count, breaks, up, down, held, delivered, qos,
                    published, refused, expired, inbound>>
    BY <1>1 DEF sessionVars, client, history, EnqueueChecks, EnqueueLeaves
  <2>2. outbox' \in Seq(Item) /\ Unique(outbox') /\ OutboxInv' /\ IdsInv' /\ KeptInv' /\ Onward
    BY <2>1, Unmoved
  <2>3. up' \in Seq(Packet)' /\ UpInv' /\ OverInv'
    BY <2>1, <2>2, NotWritten
  <2>4. down' \in Seq(Packet)' /\ DownInv'
    BY <2>1, <2>2, DownAlone
  <2>5. SessionTypeOK'
    BY <1>0, <2>1, <2>2, <2>3, <2>4 DEF SessionInv, SessionTypeOK, inbound
  <2> QED BY <2>2, <2>3, <2>4, <2>5 DEF SessionInv
<1>2. CASE SessionNext
  <2>1. UNCHANGED setting
    BY <1>2 DEF SessionNext
  <2>2. CASE Application
    BY <1>0, <1>1, <2>1, <2>2, PublishKeeps, EnqueueKeeps, SubscribeKeeps DEF Application
  <2>3. CASE Handle
    BY <1>0, <2>1, <2>3, FinishKeeps, SubackKeeps, PubrecKeeps, InPublishKeeps, InPubrelKeeps DEF Handle
  <2>4. CASE ReceiveFails \/ SendQueued \/ Resend \/ Expire \/ Reconnect
    BY <1>0, <2>1, <2>4, ReceiveFailsKeeps, SendQueuedKeeps, ResendKeeps, ExpireKeeps, ReconnectKeeps
  <2>5. CASE Broker
    BY <1>0, <2>1, <2>5, BrokerPublishKeeps, BrokerPubrelKeeps, BrokerSubscribeKeeps,
       BrokerAnsweredKeeps, BrokerOffersKeeps DEF Broker
  <2> QED BY <1>2, <2>2, <2>3, <2>4, <2>5 DEF SessionNext
<1> QED BY <1>1, <1>2

THEOREM SessionInvariant == SessionSpec => []SessionInv
<1> QED BY SessionInitInv, SessionStepInv, PTL DEF SessionSpec

(* Every variable has its type, and an id is that of one item.              *)
THEOREM SessionTypeCorrect == SessionSpec => []SessionTypeOK
<1>1. SessionInv => SessionTypeOK
  BY DEF SessionInv
<1> QED BY <1>1, SessionInvariant, PTL
-----------------------------------------------------------------------------
(* What every step does to the outbox, and to the threads in enqueue().     *)

Mark(id, p) == outbox' = SetPending(outbox, id, p)

LEMMA OutboxSteps ==
  ASSUME SessionInv, SessionNext
  PROVE  \/ outbox' = outbox /\ (inside' \in {inside, inside - 1} \/ Room(1))
         \/ \E item \in Item : /\ outbox' = Append(outbox, item)
                               /\ \/ item.type # "publish" /\ inside' = inside
                                  \/ Room(1)
                                  \/ inside' = inside - 1
         \/ \E i \in DOMAIN outbox : outbox' = DeleteItem(outbox, i) /\ inside' = inside
         \/ /\ \E id \in Ids, p \in {"transmitted", "acknowledged"} : Mark(id, p)
            /\ inside' = inside
<1>1. outbox \in Seq(Item)
  BY DEF SessionInv, SessionTypeOK
<1>2. lastId < MaxId => lastId + 1 \in 0..MaxId
  BY SessionAssumption DEF SessionInv, SessionTypeOK
<1>3. CASE Application
  <2>1. ASSUME NEW q \in {1, 2}, Publish(q)
        PROVE  \E item \in Item : outbox' = Append(outbox, item) /\ Room(1)
    <3>1. \E p \in {"queued", "transmitted"} : outbox' = Append(outbox, NewItem("publish", q, p))
      BY <2>1 DEF Publish
    <3>2. Room(1) /\ lastId < MaxId
      BY <2>1 DEF Publish, Made
    <3>3. \A p \in {"queued", "transmitted"} : NewItem("publish", q, p) \in Item
      BY <1>2, <3>2 DEF NewItem, Item, Types
    <3> QED BY <3>1, <3>2, <3>3
  <2>a. ASSUME Checked PROVE Room(1) \/ inside' = inside - 1
    BY <2>a DEF Checked, Room
  <2>2. ASSUME NEW q \in {1, 2}, EnqueuePublish(q)
        PROVE  \E item \in Item :
                 outbox' = Append(outbox, item) /\ (Room(1) \/ inside' = inside - 1)
    <3>1. PICK item : item = [NewItem("publish", q, "new") EXCEPT !.pending = "queued"]
      OBVIOUS
    <3>2. Checked /\ lastId < MaxId /\ outbox' = Append(outbox, item)
      BY <2>2, <3>1 DEF EnqueuePublish, Enqueue, Made
    <3>3. item \in Item
      BY <1>2, <3>1, <3>2 DEF NewItem, Item, Types
    <3> QED BY <2>a, <3>2, <3>3
  <2>3. ASSUME EnqueueStored
        PROVE  \E item \in Item :
                 outbox' = Append(outbox, item) /\ (Room(1) \/ inside' = inside - 1)
    <3>1. PICK item : item = [[NewItem("publish", 0, "new") EXCEPT !.id = 0] EXCEPT !.pending = "queued"]
      OBVIOUS
    <3>2. Checked /\ outbox' = Append(outbox, item)
      BY <2>3, <3>1 DEF EnqueueStored, Enqueue
    <3>3. item = [id |-> 0, type |-> "publish", qos |-> 0, pending |-> "queued"]
      BY <3>1, Zenon DEF NewItem
    <3>4. item \in Item
      BY <3>3, SessionAssumption DEF Item, Types
    <3> QED BY <2>a, <3>2, <3>4
  <2>4. ASSUME NEW type \in {"subscribe", "unsubscribe"}, Subscribe(type)
        PROVE  \E item \in Item : outbox' = Append(outbox, item) /\ item.type # "publish"
    <3>1. NewItem(type, 0, "transmitted").type # "publish"
      BY DEF NewItem
    <3> QED BY <2>4, <3>1, SubscribeAdds
  <2>5. CASE EnqueueChecks \/ EnqueueLeaves
    BY <2>5 DEF EnqueueChecks, EnqueueLeaves, client
  <2> QED BY <1>3, <2>1, <2>2, <2>3, <2>4, <2>5 DEF Application
<1>a. ~Application => inside' = inside
  BY DEF SessionNext
<1> DEFINE Alone == \/ outbox' = outbox
                    \/ \E i \in DOMAIN outbox : outbox' = DeleteItem(outbox, i)
                    \/ \E id \in Ids, p \in {"transmitted", "acknowledged"} : Mark(id, p)
<1>4. ASSUME Handle PROVE Alone
  <2>1. ASSUME NEW id, NEW type, outbox' = Delete(outbox, id, type)
        PROVE  outbox' = outbox \/ \E i \in DOMAIN outbox : outbox' = DeleteItem(outbox, i)
    BY <1>1, <2>1, DeleteFinds
  <2>2. CASE Finish
    BY <2>1, <2>2 DEF Finish
  <2>3. CASE Suback
    BY <2>1, <2>3 DEF Suback
  <2>4. CASE Pubrec
    <3>1. down # << >> /\ Head(down).type = "pubrec" /\ Mark(Head(down).id, "acknowledged")
      BY <2>4 DEF Pubrec, Receive, Mark
    <3>2. Head(down).id \in Ids
      BY <3>1, HeadIsOK DEF DownOK
    <3> QED BY <3>1, <3>2
  <2>5. CASE InPublish \/ InPubrel
    BY <2>5 DEF InPublish, InPubrel
  <2> QED BY <1>4, <2>2, <2>3, <2>4, <2>5 DEF Handle
<1>5. ASSUME SendQueued PROVE Alone
  <2>1. PICK i : i = Dequeue(outbox, "queued")
    OBVIOUS
  <2>2. i # 0 /\ i \in DOMAIN outbox
    <3>1. i # 0
      BY <1>5, <2>1 DEF SendQueued
    <3> QED BY <1>1, <2>1, <3>1, DequeueFinds
  <2>3. \/ outbox' = outbox
        \/ outbox' = DeleteItem(outbox, i)
        \/ outbox[i].qos # 0 /\ Mark(outbox[i].id, "transmitted")
    BY <1>5, <2>1 DEF SendQueued, Mark
  <2>4. outbox[i].qos # 0 => outbox[i].id \in Ids
    <3>1. outbox[i] \in Item /\ ItemOK(outbox[i])
      BY <1>1, <2>2 DEF SessionInv, OutboxInv
    <3>2. outbox[i].id \in 0..MaxId
      BY <3>1 DEF Item
    <3>3. outbox[i].id # 0 => outbox[i].id \in Ids
      BY <3>2, SessionAssumption DEF Ids
    <3> QED BY <3>1, <3>3 DEF ItemOK
  <2> QED BY <2>2, <2>3, <2>4
<1>6. ASSUME Expire PROVE Alone
  BY <1>6 DEF Expire
<1>7. ASSUME ReceiveFails \/ Resend \/ Reconnect PROVE Alone
  BY <1>7 DEF ReceiveFails, Resend, Reconnect
<1>8. ASSUME Broker PROVE Alone
  BY <1>8 DEF Broker, BrokerPublish, BrokerPubrel, BrokerSubscribe, BrokerAnswered, BrokerOffers,
     Keep, client
<1> QED BY <1>3, <1>a, <1>4, <1>5, <1>6, <1>7, <1>8 DEF SessionNext

-----------------------------------------------------------------------------
(* The limit of the outbox.                                                 *)

Publishes(q) == {i \in DOMAIN q : q[i].type = "publish"}

LEMMA PublishesFinite ==
  ASSUME NEW q \in Seq(Item)
  PROVE  /\ IsFiniteSet(Publishes(q)) /\ Cardinality(Publishes(q)) \in Nat
         /\ Cardinality(Publishes(q)) <= Len(q)
<1>1. Len(q) \in Nat /\ DOMAIN q = 1..Len(q)
  OBVIOUS
<1>2. IsFiniteSet(1..Len(q)) /\ Cardinality(1..Len(q)) = Len(q)
  BY <1>1, FS_Interval
<1>3. Publishes(q) \in SUBSET (1..Len(q))
  BY <1>1 DEF Publishes
<1>4. IsFiniteSet(Publishes(q)) /\ Cardinality(Publishes(q)) <= Cardinality(1..Len(q))
  BY <1>2, <1>3, FS_Subset
<1> QED BY <1>2, <1>4, FS_CardinalityType

(* The items that are left were there before, each at a place of its own.   *)
LEMMA FewerPublishes ==
  ASSUME NEW q \in Seq(Item), NEW i \in DOMAIN q
  PROVE  Cardinality(Publishes(DeleteItem(q, i))) <= Cardinality(Publishes(q))
<1>1. Len(q) \in Nat /\ DOMAIN q = 1..Len(q) /\ i \in 1..Len(q)
  OBVIOUS
<1>2. PICK r : r = DeleteItem(q, i)
  OBVIOUS
<1>3. /\ r \in Seq(Item) /\ Len(r) = Len(q) - 1 /\ DOMAIN r = 1..(Len(q) - 1)
      /\ \A k \in 1..(Len(q) - 1) : r[k] = q[IF k < i THEN k ELSE k + 1]
  <2>1. /\ r \in Seq(Item) /\ Len(r) = Len(q) - 1
        /\ \A k \in 1..(Len(q) - 1) : r[k] = q[IF k < i THEN k ELSE k + 1]
    BY <1>2, DeleteItemLeaves
  <2> QED BY <1>1, <2>1
<1> DEFINE f == [k \in Publishes(r) |-> IF k < i THEN k ELSE k + 1]
<1>4. \A k \in Publishes(r) : k \in 1..(Len(q) - 1) /\ r[k].type = "publish"
  BY <1>3 DEF Publishes
<1>5. \A k \in Publishes(r) : f[k] \in Publishes(q)
  <2> TAKE k \in Publishes(r)
  <2>1. f[k] = (IF k < i THEN k ELSE k + 1) /\ q[f[k]].type = "publish"
    BY <1>3, <1>4
  <2>2. f[k] \in 1..Len(q)
    BY <1>1, <1>4, <2>1
  <2> QED BY <1>1, <2>1, <2>2 DEF Publishes
<1>6. \A k, l \in Publishes(r) : f[k] = f[l] => k = l
  BY <1>1, <1>4
<1>7. f \in Injection(Publishes(r), Publishes(q))
  BY <1>5, <1>6 DEF Injection, IsInjective
<1> HIDE DEF f
<1>8. IsFiniteSet(Publishes(q))
  BY PublishesFinite
<1>9. Cardinality(Publishes(r)) <= Cardinality(Publishes(q))
  BY <1>7, <1>8, FS_Injection
<1> QED BY <1>2, <1>9

LEMMA LimitInit ==
  ASSUME SessionInit
  PROVE  WithinLimit
<1>1. Publishes(outbox) = {} /\ setting \in Setting /\ inside = 0
  BY SessionAssumption DEF SessionInit, Publishes
<1>2. Cardinality(Publishes(outbox)) = 0 /\ setting.limit \in Nat /\ setting.callers \in Nat
  BY <1>1, FS_EmptySet DEF Setting
<1> QED BY <1>1, <1>2 DEF WithinLimit, Publishes

LEMMA LimitStep ==
  ASSUME SessionInv, WithinLimit, [SessionNext]_sessionVars
  PROVE  WithinLimit'
<1>1. /\ setting' = setting /\ outbox \in Seq(Item)
      /\ setting.limit \in Nat /\ setting.callers \in Nat
      /\ inside \in 0..setting.callers /\ inside' \in 0..setting.callers
  BY SessionAssumption, InsideSteps DEF SessionInv, SessionTypeOK, SessionNext, sessionVars, Setting
<1> DEFINE Held == Cardinality(Publishes(outbox))
           Limit == setting.limit + setting.callers
<1> SUFFICES ASSUME setting.limit > 0 PROVE Held' + inside' <= Limit
  BY <1>1 DEF WithinLimit, Publishes
<1>2. Held \in Nat /\ Held <= Len(outbox) /\ Held + inside <= Limit /\ Len(outbox) \in Nat
  BY <1>1, PublishesFinite DEF WithinLimit, Publishes
<1>3. ASSUME Held' \in Nat, Held' <= Held, inside' \in {inside, inside - 1} PROVE Held' + inside' <= Limit
  BY <1>1, <1>2, <1>3
<1>4. ASSUME Held' \in Nat, Held' <= Held + 1, Room(1) PROVE Held' + inside' <= Limit
  BY <1>1, <1>2, <1>4 DEF Room
<1>5. CASE outbox' = outbox /\ (inside' \in {inside, inside - 1} \/ Room(1))
  <2>1. Held' = Held
    BY <1>5
  <2> QED BY <1>2, <1>3, <1>4, <1>5, <2>1
<1>6. ASSUME NEW item \in Item, outbox' = Append(outbox, item),
             \/ item.type # "publish" /\ inside' = inside
             \/ Room(1)
             \/ inside' = inside - 1
      PROVE  Held' + inside' <= Limit
  <2>1. /\ outbox' \in Seq(Item) /\ Len(outbox') = Len(outbox) + 1
        /\ \A i \in 1..Len(outbox) : outbox'[i] = outbox[i]
        /\ outbox'[Len(outbox) + 1] = item
    BY <1>1, <1>6, AppendProperties
  <2>2. /\ DOMAIN outbox = 1..Len(outbox) /\ DOMAIN outbox' = 1..(Len(outbox) + 1)
        /\ Len(outbox) \in Nat
    BY <1>1, <2>1
  <2>3. CASE item.type = "publish"
    <3>1. Publishes(outbox') = Publishes(outbox) \cup {Len(outbox) + 1}
      BY <2>1, <2>2, <2>3 DEF Publishes
    <3>2. IsFiniteSet(Publishes(outbox))
      BY <1>1, PublishesFinite
    <3>a. Len(outbox) + 1 \notin Publishes(outbox)
      BY <2>2 DEF Publishes
    <3>3. Held' = Held + 1
      BY <3>1, <3>2, <3>a, FS_AddElement
    <3> QED BY <1>1, <1>2, <1>4, <1>6, <2>3, <3>3
  <2>4. CASE item.type # "publish"
    <3>1. Publishes(outbox') = Publishes(outbox)
      BY <2>1, <2>2, <2>4 DEF Publishes
    <3>2. Held' = Held
      BY <3>1
    <3> QED BY <1>2, <1>3, <1>4, <1>6, <3>2
  <2> QED BY <2>3, <2>4
<1>7. ASSUME NEW i \in DOMAIN outbox, outbox' = DeleteItem(outbox, i), inside' = inside
      PROVE  Held' + inside' <= Limit
  <2>1. Held' <= Held
    BY <1>1, <1>7, FewerPublishes
  <2>2. outbox' \in Seq(Item)
    BY <1>1, <1>7, DeleteItemLeaves
  <2>3. Held' \in Nat
    BY <2>2, PublishesFinite
  <2> QED BY <1>3, <1>7, <2>1, <2>3
<1>8. ASSUME NEW id \in Ids, NEW p \in {"transmitted", "acknowledged"}, Mark(id, p), inside' = inside
      PROVE  Held' + inside' <= Limit
  <2>1. DOMAIN outbox' = DOMAIN outbox /\ \A i \in DOMAIN outbox : outbox'[i].type = outbox[i].type
    BY <1>1, <1>8, SetPendingMarks DEF Mark
  <2>2. Publishes(outbox') = Publishes(outbox)
    BY <2>1 DEF Publishes
  <2>3. Held' = Held
    BY <2>2
  <2> QED BY <1>2, <1>3, <1>8, <2>3
<1>9. CASE UNCHANGED sessionVars
  BY <1>5, <1>9 DEF sessionVars, client
<1>10. CASE SessionNext
  <2> HIDE DEF Held, Limit
  <2> QED BY <1>5, <1>6, <1>7, <1>8, <1>10, OutboxSteps
<1> QED BY <1>9, <1>10

(* A message stays in the outbox until it is acknowledged or too old, the   *)
(* outbox exceeds its limit by no more than one message for each thread that*)
(* enqueues at a time, and a PUBREL goes out only when the broker has the   *)
(* message and no PUBLISH of it is behind.                                  *)
THEOREM KeptUntilDoneHolds == SessionSpec => []KeptUntilDone
<1>1. SessionInv => NothingForgotten
  <2> SUFFICES ASSUME SessionInv, NEW id \in Ids, qos[id] # 0
               PROVE  id \in published \cup expired \/ Get(outbox, id) # 0
    BY DEF NothingForgotten
  <2>1. outbox \in Seq(Item) /\ 0 \notin DOMAIN outbox
    BY DEF SessionInv, SessionTypeOK
  <2>2. Has(outbox, id) => Get(outbox, id) \in DOMAIN outbox
    BY <2>1, GetFinds DEF Has
  <2> QED BY <2>1, <2>2 DEF SessionInv, KeptInv
<1>2. SessionInv => ReleasedLast
  <2> SUFFICES ASSUME SessionInv, NEW i \in DOMAIN up, up[i].type = "pubrel"
               PROVE  /\ delivered[up[i].id] # 0
                      /\ \A j \in DOMAIN up : j > i => ~(up[j].type = "publish" /\ up[j].id = up[i].id)
    BY DEF ReleasedLast
  <2>1. UpOK(up[i]) /\ ReleaseLast(up)
    BY DEF SessionInv, UpInv
  <2>2. \A j \in DOMAIN up : j > i => i < j
    BY DEF SessionInv, SessionTypeOK
  <2> QED BY <2>1, <2>2 DEF UpOK, ReleaseLast
<1>3. SessionInit => WithinLimit
  BY LimitInit
<1>4. SessionInv /\ WithinLimit /\ [SessionNext]_sessionVars => WithinLimit'
  BY LimitStep
<1>5. SessionSpec => []WithinLimit
  BY <1>3, <1>4, SessionInvariant, PTL DEF SessionSpec
<1>6. SessionInv /\ WithinLimit => KeptUntilDone
  BY <1>1, <1>2 DEF KeptUntilDone
<1> QED BY <1>5, <1>6, SessionInvariant, PTL
-----------------------------------------------------------------------------
(* The session keeps the promise of module Delivery.                        *)

LEMMA AcceptStep ==
  ASSUME SessionInv, NEW q \in 0..2, Made(q), UNCHANGED <<delivered, published>>
  PROVE  Promise!Next \/ UNCHANGED <<qos, delivered, published>>
<1>1. PICK new : new = lastId + 1
  OBVIOUS
<1>2. lastId \in 0..MaxId /\ lastId < MaxId
  BY DEF SessionInv, SessionTypeOK, Made
<1>3. new \in Ids /\ ~(new <= lastId)
  BY <1>1, <1>2, SessionAssumption DEF Ids
<1>4. qos[new] = 0
  BY <1>3 DEF SessionInv, IdsInv
<1>5. CASE q = 0
  BY <1>5 DEF Made
<1>6. CASE q # 0
  <2>1. q \in {1, 2} /\ qos' = [qos EXCEPT ![new] = q]
    BY <1>1, <1>6 DEF Made
  <2>2. Promise!Accept(new)
    BY <1>4, <2>1 DEF Promise!Accept
  <2> QED BY <1>3, <2>2 DEF Promise!Next
<1> QED BY <1>5, <1>6

LEMMA DeliverStep ==
  ASSUME SessionInv, BrokerPublish
  PROVE  Promise!Next \/ UNCHANGED <<qos, delivered, published>>
<1>1. up # << >> /\ Head(up).type = "publish" /\ UNCHANGED <<qos, published>>
  BY DEF BrokerPublish, Take, Keep, history
<1>2. PICK p : p = Head(up)
  OBVIOUS
<1>3. delivered' = IF p.id # 0 /\ p.id \notin held THEN Once(delivered, p.id) ELSE delivered
  BY <1>2 DEF BrokerPublish
<1>4. p = up[1] /\ UpOK(p) /\ 1 \in DOMAIN up /\ p.type = "publish"
  <2>1. up \in Seq(Packet) /\ \A i \in DOMAIN up : UpOK(up[i])
    BY DEF SessionInv, SessionTypeOK, UpInv
  <2>2. Head(up) = up[1] /\ 1 \in DOMAIN up
    BY <1>1, <2>1, HeadTailProperties
  <2> QED BY <1>1, <1>2, <2>1, <2>2
<1>5. CASE p.id # 0 /\ p.id \notin held
  <2>1. PICK id : id = p.id
    OBVIOUS
  <2>2. id \in Ids /\ qos[id] # 0
    BY <1>4, <1>5, <2>1 DEF UpOK
  <2>3. delivered[id] # 0 => qos[id] # 2
    BY <1>4, <1>5, <2>1, <2>2 DEF SessionInv, OverInv
  <2>4. delivered \in [Ids -> 0..2] /\ qos \in [Ids -> 0..2]
    BY DEF SessionInv, SessionTypeOK
  <2>5. delivered' = [delivered EXCEPT ![id] = IF delivered[id] < 2 THEN delivered[id] + 1 ELSE 2]
    BY <1>3, <1>5, <2>1 DEF Once
  <2>6. delivered[id] \in 0..2 /\ qos[id] \in 0..2
    BY <2>2, <2>4
  <2>7. CASE delivered[id] = 0
    <3>1. (IF delivered[id] < 2 THEN delivered[id] + 1 ELSE 2) = 1
      BY <2>7
    <3>2. Promise!DeliverOnce(id)
      BY <1>1, <2>2, <2>5, <2>7, <3>1 DEF Promise!DeliverOnce
    <3> QED BY <2>2, <3>2 DEF Promise!Next
  <2>8. CASE delivered[id] # 0
    <3>1. (IF delivered[id] < 2 THEN delivered[id] + 1 ELSE 2) = 2
      BY <2>6, <2>8
    <3>2. qos[id] = 1
      BY <2>2, <2>3, <2>6, <2>8
    <3>3. Promise!DeliverAgain(id)
      BY <1>1, <2>5, <2>8, <3>1, <3>2 DEF Promise!DeliverAgain
    <3> QED BY <2>2, <3>3 DEF Promise!Next
  <2> QED BY <2>7, <2>8
<1>6. CASE ~(p.id # 0 /\ p.id \notin held)
  BY <1>1, <1>3, <1>6
<1> QED BY <1>5, <1>6

LEMMA ReportStep ==
  ASSUME SessionInv, Finish
  PROVE  Promise!Next \/ UNCHANGED <<qos, delivered, published>>
<1>1. down # << >> /\ Head(down).type \in {"puback", "pubcomp"} /\ UNCHANGED <<qos, delivered>>
  BY DEF Finish, Receive, Handled
<1>2. PICK id : id = Head(down).id
  OBVIOUS
<1>3. id \in Ids /\ delivered[id] # 0
  <2>1. \A p : DownOK(p) /\ p.type \in {"puback", "pubcomp"} => p.id \in Ids /\ delivered[p.id] # 0
    BY DEF DownOK
  <2> QED BY <1>1, <1>2, <2>1, HeadIsOK
<1>4. published' = published \cup {id} \/ published' = published
  BY <1>2 DEF Finish
<1>5. CASE published' = published \cup {id} /\ id \notin published
  <2>1. Promise!Report(id)
    BY <1>1, <1>3, <1>5 DEF Promise!Report
  <2> QED BY <1>3, <2>1 DEF Promise!Next
<1>6. CASE published' = published
  BY <1>1, <1>6
<1>7. id \in published => published \cup {id} = published
  OBVIOUS
<1> QED BY <1>4, <1>5, <1>6, <1>7

LEMMA PromiseStep ==
  ASSUME SessionInv, [SessionNext]_sessionVars
  PROVE  [Promise!Next]_Promise!vars
<1> SUFFICES Promise!Next \/ UNCHANGED <<qos, delivered, published>>
  BY DEF Promise!vars
<1>1. CASE UNCHANGED sessionVars
  BY <1>1 DEF sessionVars, history
<1>a. CASE EnqueueChecks \/ EnqueueLeaves
  BY <1>a DEF EnqueueChecks, EnqueueLeaves, history
<1>2. CASE Application /\ ~(EnqueueChecks \/ EnqueueLeaves)
  <2>1. UNCHANGED <<delivered, published>> /\ \E q \in 0..2 : Made(q)
    <3>1. ASSUME NEW q \in {1, 2}, Publish(q) \/ EnqueuePublish(q)
          PROVE  UNCHANGED <<delivered, published>> /\ q \in 0..2 /\ Made(q)
      <4>1. UNCHANGED <<delivered, published>> /\ Made(q)
        BY <3>1, Zenon DEF Publish, EnqueuePublish
      <4> QED BY <4>1
    <3>2. ASSUME NEW type, EnqueueStored \/ Subscribe(type)
          PROVE  UNCHANGED <<delivered, published>> /\ Made(0)
      BY <3>2 DEF EnqueueStored, Subscribe
    <3> QED BY <1>2, <3>1, <3>2 DEF Application
  <2> QED BY <2>1, AcceptStep
<1>3. CASE Finish
  BY <1>3, ReportStep
<1>4. CASE Suback \/ Pubrec \/ InPublish \/ InPubrel
  BY <1>4 DEF Suback, Pubrec, InPublish, InPubrel, Handled, history
<1>5. CASE ReceiveFails \/ SendQueued \/ Resend \/ Expire \/ Reconnect
  BY <1>5 DEF ReceiveFails, SendQueued, Resend, Expire, Reconnect, history
<1>6. CASE BrokerPublish
  BY <1>6, DeliverStep
<1>7. CASE BrokerPubrel \/ BrokerSubscribe \/ BrokerAnswered \/ \E k \in DOMAIN offered : BrokerOffers(k)
  BY <1>7 DEF BrokerPubrel, BrokerSubscribe, BrokerAnswered, BrokerOffers, Keep, history
<1> QED BY <1>1, <1>a, <1>2, <1>3, <1>4, <1>5, <1>6, <1>7 DEF SessionNext, Handle, Broker

(* QoS 1 arrives before it is reported, QoS 2 exactly once.                 *)
THEOREM SessionKeepsPromise == SessionSpec => Delivers
<1>1. SessionInit => Promise!Init
  BY DEF SessionInit, Promise!Init
<1>2. SessionInv /\ [SessionNext]_sessionVars => [Promise!Next]_Promise!vars
  BY PromiseStep
<1> QED BY <1>1, <1>2, SessionInvariant, PTL DEF SessionSpec, Promise!Spec, Delivers
-----------------------------------------------------------------------------
(* The MQTT 5 counter.  Where nothing is lost, sent again or given up, a    *)
(* message under way is on the wire at one place at most, as its PUBLISH or *)
(* as one of the packets that answer it.                                    *)

Tok(p) == p.id \in Ids /\ p.type \in {"publish", "pubrel", "puback", "pubrec", "pubcomp"}
Carries(q, id) == \E i \in DOMAIN q : Tok(q[i]) /\ q[i].id = id
Single(q) == \A i, j \in DOMAIN q : Tok(q[i]) /\ Tok(q[j]) /\ q[i].id = q[j].id => i = j

Under(id) == qos[id] # 0 /\ \E i \in DOMAIN outbox : outbox[i].id = id /\ outbox[i].pending # "queued"

TokensInv ==
  /\ Single(up) /\ Single(down)
  /\ \A id \in Ids : ~(Carries(up, id) /\ Carries(down, id))
  /\ \A id \in Ids : Carries(up, id) \/ Carries(down, id) => Under(id)

Counted == Undisturbed /\ setting.receiveMax > 0
CounterInv == Counted => link = "up" /\ TokensInv /\ count = Cardinality(UnderWay)

LEMMA TokAppended ==
  ASSUME NEW S, NEW q \in Seq(S), NEW p \in S, NEW r, r = q \o << p >>, Single(q),
         Tok(p) => ~Carries(q, p.id)
  PROVE  Single(r) /\ \A id \in Ids : Carries(r, id) <=> Carries(q, id) \/ (Tok(p) /\ p.id = id)
<1>1. r = Append(q, p)
  BY AppendProperties
<1>2. /\ Len(r) = Len(q) + 1 /\ r[Len(q) + 1] = p /\ r \in Seq(S)
      /\ \A i \in 1..Len(q) : r[i] = q[i]
  BY <1>1, AppendProperties
<1>3. Len(q) \in Nat /\ DOMAIN q = 1..Len(q) /\ DOMAIN r = 1..(Len(q) + 1)
  BY <1>2
<1>4. /\ \A i \in DOMAIN q : i \in DOMAIN r /\ r[i] = q[i]
      /\ Len(q) + 1 \in DOMAIN r
      /\ \A i \in DOMAIN r : i \in DOMAIN q \/ i = Len(q) + 1
  BY <1>2, <1>3
<1>5. Single(r)
  <2> SUFFICES ASSUME NEW i \in DOMAIN r, NEW j \in DOMAIN r, Tok(r[i]), Tok(r[j]), r[i].id = r[j].id
               PROVE  i = j
    BY DEF Single
  <2>1. CASE i \in DOMAIN q /\ j \in DOMAIN q
    BY <1>4, <2>1 DEF Single
  <2>2. CASE i = Len(q) + 1 /\ j \in DOMAIN q
    BY <1>2, <1>4, <2>2 DEF Carries
  <2>3. CASE i \in DOMAIN q /\ j = Len(q) + 1
    BY <1>2, <1>4, <2>3 DEF Carries
  <2> QED BY <1>4, <2>1, <2>2, <2>3
<1>6. \A id \in Ids : Carries(r, id) <=> Carries(q, id) \/ (Tok(p) /\ p.id = id)
  <2> TAKE id \in Ids
  <2>1. ASSUME Carries(q, id) PROVE Carries(r, id)
    BY <1>4, <2>1 DEF Carries
  <2>2. ASSUME Tok(p), p.id = id PROVE Carries(r, id)
    BY <1>2, <1>4, <2>2 DEF Carries
  <2>3. ASSUME Carries(r, id), ~Carries(q, id) PROVE Tok(p) /\ p.id = id
    <3>1. PICK i \in DOMAIN r : Tok(r[i]) /\ r[i].id = id
      BY <2>3 DEF Carries
    <3>2. i \notin DOMAIN q
      BY <1>4, <2>3, <3>1 DEF Carries
    <3> QED BY <1>2, <1>4, <3>1, <3>2
  <2> QED BY <2>1, <2>2, <2>3
<1> QED BY <1>5, <1>6

LEMMA TokTaken ==
  ASSUME NEW S, NEW q \in Seq(S), q # << >>, Single(q)
  PROVE  /\ Single(Tail(q))
         /\ \A id \in Ids : Carries(Tail(q), id) => Carries(q, id)
         /\ Tok(Head(q)) => Carries(q, Head(q).id) /\ ~Carries(Tail(q), Head(q).id)
<1>1. PICK r : r = Tail(q)
  OBVIOUS
<1>2. /\ Head(q) = q[1] /\ r \in Seq(S) /\ Len(r) = Len(q) - 1 /\ Len(q) \in Nat /\ 1 \in DOMAIN q
      /\ DOMAIN q = 1..Len(q) /\ DOMAIN r = 1..(Len(q) - 1)
      /\ \A i \in 1..(Len(q) - 1) : r[i] = q[i + 1]
  BY <1>1, HeadTailProperties
<1>3. \A i \in DOMAIN r : i + 1 \in DOMAIN q /\ r[i] = q[i + 1] /\ i + 1 # 1
  BY <1>2
<1>4. \A i, j \in DOMAIN r : i + 1 = j + 1 => i = j
  BY <1>2
<1>5. Single(r)
  BY <1>3, <1>4 DEF Single
<1>6. \A id \in Ids : Carries(r, id) => Carries(q, id)
  BY <1>3 DEF Carries
<1>7. Tok(Head(q)) => Carries(q, Head(q).id) /\ ~Carries(r, Head(q).id)
  BY <1>2, <1>3 DEF Carries, Single
<1> QED BY <1>1, <1>5, <1>6, <1>7

UnderWayOK == UnderWay = {id \in Ids : Under(id)} /\ IsFiniteSet(UnderWay)

LEMMA UnderWayIs == SessionTypeOK => UnderWayOK
<1> SUFFICES ASSUME SessionTypeOK PROVE UnderWayOK
  OBVIOUS
<1>1. outbox \in Seq(Item) /\ Unique(outbox) /\ 0 \notin DOMAIN outbox /\ 0 \notin Ids
  BY DEF SessionTypeOK, Ids
<1>2. ASSUME NEW id \in Ids
      PROVE  /\ (\E i \in DOMAIN outbox : outbox[i].id = id) <=> Get(outbox, id) # 0
             /\ \A i \in DOMAIN outbox : outbox[i].id = id => i = Get(outbox, id)
  <2>1. IF \E i \in DOMAIN outbox : outbox[i].id = id
          THEN Get(outbox, id) \in DOMAIN outbox /\ outbox[Get(outbox, id)].id = id
          ELSE Get(outbox, id) = 0
    BY <1>1, GetFinds
  <2> QED BY <1>1, <2>1 DEF Unique
<1>3. ASSUME NEW id \in Ids
      PROVE  Get(outbox, id) # 0 => Get(outbox, id) \in DOMAIN outbox /\ outbox[Get(outbox, id)].id = id
  BY <1>1, GetFinds
<1>4. UnderWay = {id \in Ids : Under(id)}
  BY <1>2, <1>3 DEF UnderWay, Under
<1>5. IsFiniteSet(Ids)
  BY SessionAssumption, FS_Interval DEF Ids
<1>6. UnderWay \in SUBSET Ids
  BY DEF UnderWay
<1> QED BY <1>4, <1>5, <1>6, FS_Subset DEF UnderWayOK

LEMMA UnderWayIsThen == SessionTypeOK' => UnderWayOK'
BY UnderWayIs, PTL

(* The items that are left when one leaves.                                 *)
LEMMA OthersStay ==
  ASSUME NEW S, NEW q \in Seq(S), NEW i \in DOMAIN q
  PROVE  /\ \A k \in DOMAIN DeleteItem(q, i) : \E j \in DOMAIN q : j # i /\ DeleteItem(q, i)[k] = q[j]
         /\ \A j \in DOMAIN q : j # i => \E k \in DOMAIN DeleteItem(q, i) : DeleteItem(q, i)[k] = q[j]
<1>1. Len(q) \in Nat /\ DOMAIN q = 1..Len(q) /\ i \in 1..Len(q)
  OBVIOUS
<1>2. PICK r : r = DeleteItem(q, i)
  OBVIOUS
<1>3. /\ DOMAIN r = 1..(Len(q) - 1)
      /\ \A k \in 1..(Len(q) - 1) : r[k] = q[IF k < i THEN k ELSE k + 1]
  <2>1. /\ r \in Seq(S) /\ Len(r) = Len(q) - 1
        /\ \A k \in 1..(Len(q) - 1) : r[k] = q[IF k < i THEN k ELSE k + 1]
    BY <1>2, DeleteItemLeaves
  <2> QED BY <1>1, <2>1
<1>4. \A k \in DOMAIN r : \E j \in DOMAIN q : j # i /\ r[k] = q[j]
  <2> TAKE k \in DOMAIN r
  <2>1. PICK j : j = IF k < i THEN k ELSE k + 1
    OBVIOUS
  <2>2. j \in DOMAIN q /\ j # i /\ r[k] = q[j]
    BY <1>1, <1>3, <2>1
  <2> QED BY <2>2
<1>5. \A j \in DOMAIN q : j # i => \E k \in DOMAIN r : r[k] = q[j]
  <2> TAKE j \in DOMAIN q
  <2> HAVE j # i
  <2>1. PICK k : k = IF j < i THEN j ELSE j - 1
    OBVIOUS
  <2>2. k \in DOMAIN r /\ (IF k < i THEN k ELSE k + 1) = j
    BY <1>1, <1>3, <2>1
  <2>3. r[k] = q[j]
    BY <1>3, <2>2
  <2> QED BY <2>2, <2>3
<1> QED BY <1>2, <1>4, <1>5
(* What a step does to the messages under way.                              *)
LEMMA UnderAdded ==
  ASSUME SessionInv, NEW q \in 0..2, Made(q), NEW item \in Item, outbox' = Append(outbox, item),
         item.id \in {0, lastId + 1}
  PROVE  /\ \A id \in Ids : Under(id)' <=> \/ Under(id)
                                           \/ /\ id = lastId + 1 /\ item.id = id /\ q # 0
                                              /\ item.pending # "queued"
         /\ lastId + 1 \in Ids /\ ~Under(lastId + 1)
<1>1. PICK new : new = lastId + 1
  OBVIOUS
<1>2. lastId \in 0..MaxId /\ lastId < MaxId /\ qos \in [Ids -> 0..2]
      /\ \A id \in Ids : qos[id] # 0 => id <= lastId
  BY DEF SessionInv, SessionTypeOK, IdsInv, Made
<1>3. new \in Ids /\ ~(new <= lastId) /\ new # 0
  BY <1>1, <1>2, SessionAssumption DEF Ids
<1>4. qos[new] = 0
  BY <1>2, <1>3
<1>5. /\ \A id \in Ids : id # new => qos'[id] = qos[id]
      /\ qos'[new] = q
  <2>1. qos' = IF q = 0 THEN qos ELSE [qos EXCEPT ![new] = q]
    BY <1>1 DEF Made
  <2> QED BY <1>2, <1>3, <1>4, <2>1
<1>6. outbox \in Seq(Item) /\ \A i \in DOMAIN outbox : outbox[i].id # new
  <2>1. outbox \in Seq(Item) /\ \A i \in DOMAIN outbox : outbox[i].id <= lastId
    BY DEF SessionInv, SessionTypeOK, OutboxInv, ItemOK
  <2> QED BY <1>3, <2>1
<1>7. /\ Len(outbox') = Len(outbox) + 1 /\ outbox'[Len(outbox) + 1] = item /\ outbox' \in Seq(Item)
      /\ \A i \in 1..Len(outbox) : outbox'[i] = outbox[i]
  BY <1>6, AppendProperties
<1>8. Len(outbox) \in Nat /\ DOMAIN outbox = 1..Len(outbox) /\ DOMAIN outbox' = 1..(Len(outbox) + 1)
  BY <1>6, <1>7
<1>9. /\ \A i \in DOMAIN outbox : i \in DOMAIN outbox' /\ outbox'[i] = outbox[i]
      /\ Len(outbox) + 1 \in DOMAIN outbox'
      /\ \A i \in DOMAIN outbox' : i \in DOMAIN outbox \/ outbox'[i] = item
  BY <1>7, <1>8
<1>10. ASSUME NEW id \in Ids
       PROVE  Under(id)' <=> \/ Under(id)
                             \/ /\ id = new /\ item.id = id /\ q # 0
                                /\ item.pending # "queued"
  <2>1. CASE id # new
    <3>1. item.id # id
      BY <1>1, <2>1 DEF Ids
    <3> QED BY <1>5, <1>9, <2>1, <3>1 DEF Under
  <2>2. CASE id = new
    <3>1. ~Under(id)
      BY <1>4, <2>2 DEF Under
    <3>2. Under(id)' <=> item.id = id /\ q # 0 /\ item.pending # "queued"
      BY <1>5, <1>6, <1>7, <1>9, <2>2 DEF Under
    <3> QED BY <2>2, <3>1, <3>2
  <2> QED BY <2>1, <2>2
<1> QED BY <1>1, <1>3, <1>4, <1>10 DEF Under

LEMMA UnderLeft ==
  ASSUME SessionInv, UNCHANGED qos, NEW i \in DOMAIN outbox, outbox' = DeleteItem(outbox, i)
  PROVE  \A id \in Ids : Under(id)' <=> Under(id) /\ id # outbox[i].id
<1>1. outbox \in Seq(Item) /\ Unique(outbox)
  BY DEF SessionInv, SessionTypeOK
<1>2. /\ \A k \in DOMAIN outbox' : \E j \in DOMAIN outbox : j # i /\ outbox'[k] = outbox[j]
      /\ \A j \in DOMAIN outbox : j # i => \E k \in DOMAIN outbox' : outbox'[k] = outbox[j]
  BY <1>1, OthersStay
<1>3. \A id \in Ids : id # 0
  BY DEF Ids
<1>4. ASSUME NEW id \in Ids, Under(id)'
      PROVE  Under(id) /\ id # outbox[i].id
  BY <1>1, <1>2, <1>3, <1>4 DEF Under, Unique
<1>5. ASSUME NEW id \in Ids, Under(id), id # outbox[i].id
      PROVE  Under(id)'
  BY <1>2, <1>5 DEF Under
<1> QED BY <1>4, <1>5

LEMMA UnderMarked ==
  ASSUME SessionInv, UNCHANGED qos, NEW id \in Ids, NEW p \in {"transmitted", "acknowledged"},
         Mark(id, p)
  PROVE  \A x \in Ids : Under(x)' <=> Under(x) \/ (x = id /\ Has(outbox, id) /\ qos[id] # 0)
<1>1. outbox \in Seq(Item) /\ Unique(outbox) /\ 0 \notin DOMAIN outbox /\ id # 0
  BY DEF SessionInv, SessionTypeOK, Ids
<1>2. /\ DOMAIN outbox' = DOMAIN outbox
      /\ \A i \in DOMAIN outbox :
           /\ outbox'[i].id = outbox[i].id
           /\ outbox'[i].pending = IF i = Get(outbox, id) THEN p ELSE outbox[i].pending
  BY <1>1, SetPendingMarks DEF Mark
<1>3. Has(outbox, id) => Get(outbox, id) \in DOMAIN outbox /\ outbox[Get(outbox, id)].id = id
  BY <1>1, GetFinds DEF Has
<1>4. \A i \in DOMAIN outbox : outbox[i].id = id <=> i = Get(outbox, id)
  <2>1. ~Has(outbox, id) => Get(outbox, id) = 0
    BY <1>1, GetFinds DEF Has
  <2> QED BY <1>1, <1>3, <2>1 DEF Has, Unique
<1>5. p # "queued"
  OBVIOUS
<1>6. ASSUME NEW x \in Ids, x # id PROVE Under(x)' <=> Under(x)
  BY <1>2, <1>4, <1>6 DEF Under
<1>7. Under(id)' <=> Has(outbox, id) /\ qos[id] # 0
  BY <1>2, <1>3, <1>4, <1>5 DEF Under, Has
<1>8. Under(id) => Has(outbox, id) /\ qos[id] # 0
  BY DEF Under, Has
<1> QED BY <1>6, <1>7, <1>8

(* A connection that carries no more tokens than another.                   *)
Thins(q, r) == Single(r) /\ \A id \in Ids : Carries(r, id) => Carries(q, id)

LEMMA ThinTail ==
  ASSUME NEW S, NEW q \in Seq(S), q # << >>, Single(q)
  PROVE  Thins(q, Tail(q))
BY TokTaken DEF Thins

LEMMA ThinAppend ==
  ASSUME NEW S, NEW q \in Seq(S), NEW p \in S, ~Tok(p), Single(q)
  PROVE  Thins(q, q \o << p >>)
<1>1. PICK r : r = q \o << p >>
  OBVIOUS
<1>2. Single(r) /\ \A id \in Ids : Carries(r, id) <=> Carries(q, id) \/ (Tok(p) /\ p.id = id)
  BY <1>1, TokAppended
<1> QED BY <1>1, <1>2 DEF Thins

(* A step that neither sends nor acknowledges a message.                    *)
LEMMA NothingCounted ==
  ASSUME SessionInv, SessionInv', CounterInv, Counted, UNCHANGED <<setting, link, count>>,
         Thins(up, up'), Thins(down, down'), \A id \in Ids : Under(id)' <=> Under(id)
  PROVE  CounterInv'
<1>1. UnderWayOK /\ UnderWayOK'
  BY UnderWayIs, UnderWayIsThen DEF SessionInv
<1>2. UnderWay' = UnderWay
  BY <1>1 DEF UnderWayOK
<1>3. TokensInv' /\ link' = "up"
  BY DEF Thins, TokensInv, CounterInv, Single, Carries
<1> QED BY <1>2, <1>3 DEF CounterInv

(* A step that sends one.                                                   *)
LEMMA OneSent ==
  ASSUME SessionInv, SessionInv', CounterInv, Counted, UNCHANGED <<setting, link, down>>,
         NEW id \in Ids, ~Under(id), NEW p \in Packet, p.id = id, up' = up \o << p >>,
         \A x \in Ids : Under(x)' <=> Under(x) \/ x = id,
         count' = count + 1
  PROVE  CounterInv'
<1>1. UnderWayOK /\ UnderWayOK'
  BY UnderWayIs, UnderWayIsThen DEF SessionInv
<1>2. UnderWay' = UnderWay \cup {id} /\ id \notin UnderWay /\ IsFiniteSet(UnderWay)
  BY <1>1 DEF UnderWayOK
<1>3. Cardinality(UnderWay') = Cardinality(UnderWay) + 1
  BY <1>2, FS_AddElement
<1>4. count = Cardinality(UnderWay) /\ TokensInv /\ link = "up"
  BY DEF CounterInv
<1>5. ~Carries(up, id) /\ ~Carries(down, id)
  BY <1>4 DEF TokensInv
<1>6. Single(up') /\ \A x \in Ids : Carries(up', x) <=> Carries(up, x) \/ (Tok(p) /\ p.id = x)
  <2>1. up \in Seq(Packet)
    BY DEF SessionInv, SessionTypeOK
  <2>2. Tok(p) => ~Carries(up, p.id)
    BY <1>5
  <2> QED BY <1>4, <2>1, <2>2, TokAppended DEF TokensInv
<1>7. TokensInv'
  <2>1. \A x \in Ids : Carries(up', x) => Carries(up, x) \/ x = id
    BY <1>6
  <2> QED BY <1>4, <1>5, <1>6, <2>1 DEF TokensInv, Single, Carries
<1>8. count' = Cardinality(UnderWay)'
  BY <1>3, <1>4
<1> QED BY <1>4, <1>7, <1>8 DEF CounterInv

(* A packet that takes the token over from the one it answers.              *)
LEMMA TokenReplied ==
  ASSUME SessionInv, SessionInv', CounterInv, Counted, UNCHANGED <<setting, link, count>>,
         up # << >>, up' = Tail(up), NEW r \in Packet,
         down' \in {down, down \o << r >>},
         Tok(r) => Tok(Head(up)) /\ r.id = Head(up).id,
         \A x \in Ids : Under(x)' <=> Under(x)
  PROVE  CounterInv'
<1>1. UnderWayOK /\ UnderWayOK'
  BY UnderWayIs, UnderWayIsThen DEF SessionInv
<1>2. UnderWay' = UnderWay
  BY <1>1 DEF UnderWayOK
<1>3. up \in Seq(Packet) /\ down \in Seq(Packet)
  BY DEF SessionInv, SessionTypeOK
<1>4. count = Cardinality(UnderWay) /\ TokensInv /\ link = "up"
  BY DEF CounterInv
<1>5. /\ Single(up') /\ \A x \in Ids : Carries(up', x) => Carries(up, x)
      /\ Tok(Head(up)) => Carries(up, Head(up).id) /\ ~Carries(up', Head(up).id)
  BY <1>3, <1>4, TokTaken DEF TokensInv
<1>6. Tok(r) => r.id \in Ids /\ Carries(up, r.id) /\ ~Carries(up', r.id) /\ ~Carries(down, r.id)
  BY <1>4, <1>5 DEF TokensInv, Tok
<1>7. /\ Single(down')
      /\ \A x \in Ids : Carries(down', x) => Carries(down, x) \/ (Tok(r) /\ r.id = x)
  <2>1. CASE down' = down
    BY <1>4, <2>1 DEF TokensInv
  <2>2. CASE down' = down \o << r >>
    BY <1>3, <1>4, <1>6, <2>2, TokAppended DEF TokensInv
  <2> QED BY <2>1, <2>2
<1>8. \A x \in Ids : Carries(down', x) => Carries(down, x) \/ (Carries(up, x) /\ ~Carries(up', x))
  BY <1>6, <1>7
<1>9. TokensInv'
  BY <1>4, <1>5, <1>7, <1>8 DEF TokensInv, Single, Carries
<1> QED BY <1>2, <1>4, <1>9 DEF CounterInv
(* Nothing breaks the connection, and nothing is sent again.                *)
LEMMA CountedQuiet ==
  ASSUME SessionInv, CounterInv, Counted, UNCHANGED setting
  PROVE  /\ Counted' /\ TokensInv /\ link = "up" /\ ~Abort /\ ~Expire /\ ~Resend /\ ~Reconnect
         /\ setting.receiveMax > 0 /\ up \in Seq(Packet) /\ down \in Seq(Packet)
         /\ outbox \in Seq(Item)
<1>1. TokensInv /\ link = "up"
  BY DEF CounterInv
<1>2. breaks \in 0..0
  BY DEF SessionInv, SessionTypeOK, Counted, Undisturbed
<1>3. ~Abort
  BY <1>2 DEF Abort, Counted, Undisturbed
<1>4. ~Expire /\ ~Resend /\ ~Reconnect
  BY <1>1 DEF Expire, Resend, Reconnect, Counted, Undisturbed
<1>5. Counted' /\ setting.receiveMax > 0
  BY DEF Counted, Undisturbed
<1>6. up \in Seq(Packet) /\ down \in Seq(Packet) /\ outbox \in Seq(Item)
  BY DEF SessionInv, SessionTypeOK
<1> QED BY <1>1, <1>3, <1>4, <1>5, <1>6

LEMMA ThinSame ==
  ASSUME TokensInv
  PROVE  Thins(up, up) /\ Thins(down, down)
BY DEF Thins, TokensInv

LEMMA CountedApplication ==
  ASSUME SessionInv, SessionInv', CounterInv, Counted, UNCHANGED setting, Application
  PROVE  CounterInv'
<1>1. /\ TokensInv /\ link = "up" /\ ~Abort /\ setting.receiveMax > 0
      /\ up \in Seq(Packet) /\ down \in Seq(Packet)
  BY CountedQuiet
<1>2. Thins(up, up) /\ Thins(down, down)
  BY <1>1, ThinSame
<1>3. lastId < MaxId => lastId + 1 \in 0..MaxId
  BY SessionAssumption DEF SessionInv, SessionTypeOK
<1>4. ASSUME NEW q \in {1, 2}, Publish(q)
      PROVE  CounterInv'
  <2>1. PICK new : new = lastId + 1
    OBVIOUS
  <2>2. PICK item : item = NewItem("publish", q, "transmitted")
    OBVIOUS
  <2>3. PICK packet : packet = Pack("publish", new, q, FALSE)
    OBVIOUS
  <2>4. /\ Made(q) /\ outbox' = Append(outbox, item) /\ up' = up \o << packet >>
        /\ count' = count + 1 /\ Stay
    BY <1>1, <1>4, <2>1, <2>2, <2>3 DEF Publish, Write
  <2>5. new \in 0..MaxId
    BY <1>3, <2>1, <2>4 DEF Made
  <2>6. item \in Item /\ item.id = new /\ item.pending # "queued" /\ q \in 0..2 /\ q # 0
    BY <2>1, <2>2, <2>5 DEF NewItem, Item, Types
  <2>7. /\ \A id \in Ids : Under(id)' <=> \/ Under(id)
                                          \/ /\ id = lastId + 1 /\ item.id = id /\ q # 0
                                             /\ item.pending # "queued"
        /\ lastId + 1 \in Ids /\ ~Under(lastId + 1)
    <3>1. item.id \in {0, lastId + 1}
      BY <2>1, <2>6
    <3> QED BY <2>4, <2>6, <3>1, UnderAdded
  <2>8. new \in Ids /\ ~Under(new) /\ \A x \in Ids : Under(x)' <=> Under(x) \/ x = new
    BY <2>1, <2>6, <2>7 DEF Under
  <2>9. packet \in Packet /\ packet.id = new
    <3>1. "publish" \in PacketTypes /\ FALSE \in BOOLEAN /\ new \in PacketIds
      BY <2>5, IdsArePacketIds DEF PacketTypes, Types, SessionInv
    <3>2. packet \in Packet
      BY <2>3, <2>6, <3>1, PackIsPacket
    <3> QED BY <2>3, <3>2 DEF Pack
  <2> QED BY <2>4, <2>8, <2>9, OneSent DEF Stay
<1>5. ASSUME NEW q \in {1, 2}, EnqueuePublish(q)
      PROVE  CounterInv'
  <2>1. PICK item : item = [NewItem("publish", q, "new") EXCEPT !.pending = "queued"]
    OBVIOUS
  <2>2. /\ Made(q) /\ outbox' = Append(outbox, item) /\ q \in 0..2
        /\ UNCHANGED <<link, count, up, down>>
    BY <1>5, <2>1 DEF EnqueuePublish, Enqueue
  <2>3. item \in Item /\ item.id = lastId + 1 /\ item.pending = "queued"
    BY <1>3, <2>1, <2>2 DEF NewItem, Item, Types, Made
  <2>4. \A id \in Ids : Under(id)' <=> Under(id)
    BY <2>2, <2>3, UnderAdded
  <2> QED BY <1>2, <2>2, <2>4, NothingCounted
<1>6. ASSUME EnqueueStored
      PROVE  CounterInv'
  <2>1. PICK item : item = [[NewItem("publish", 0, "new") EXCEPT !.id = 0] EXCEPT !.pending = "queued"]
    OBVIOUS
  <2>2. Made(0) /\ 0 \in 0..2 /\ UNCHANGED <<link, count, up, down>>
    BY <1>6 DEF EnqueueStored
  <2>3. /\ outbox' = Append(outbox, item)
        /\ item = [id |-> 0, type |-> "publish", qos |-> 0, pending |-> "queued"]
    <3>1. outbox' = Append(outbox, item)
      BY <1>6, <2>1 DEF EnqueueStored, Enqueue
    <3>2. item = [id |-> 0, type |-> "publish", qos |-> 0, pending |-> "queued"]
      BY <2>1, Zenon DEF NewItem
    <3> QED BY <3>1, <3>2
  <2>4. item \in Item /\ item.id = 0 /\ item.pending = "queued"
    BY <2>3, SessionAssumption DEF Item, Types
  <2>5. \A id \in Ids : Under(id)' <=> Under(id)
    BY <2>2, <2>3, <2>4, UnderAdded
  <2> QED BY <1>2, <2>2, <2>5, NothingCounted
<1>7. ASSUME NEW type \in {"subscribe", "unsubscribe"}, Subscribe(type)
      PROVE  CounterInv'
  <2>1. PICK item : item = NewItem(type, 0, "transmitted")
    OBVIOUS
  <2>2. item \in Item /\ outbox' = Append(outbox, item) /\ item.id = lastId + 1
    BY <1>7, <2>1, SubscribeAdds DEF NewItem
  <2>3. Made(0) /\ 0 \in 0..2 /\ UNCHANGED <<link, count, down>>
    BY <1>7 DEF Subscribe
  <2>4. \A id \in Ids : Under(id)' <=> Under(id)
    BY <2>2, <2>3, UnderAdded
  <2>5. PICK packet : packet = Pack(type, lastId + 1, 0, FALSE)
    OBVIOUS
  <2>6. up' = up \/ up' = up \o << packet >>
    BY <1>7, <2>5 DEF Subscribe, Write
  <2>7. packet \in Packet /\ ~Tok(packet)
    <3>1. type \in PacketTypes /\ FALSE \in BOOLEAN /\ lastId + 1 \in PacketIds
      BY <1>3, <2>3, IdsArePacketIds DEF PacketTypes, Types, SessionInv, Made
    <3>2. packet \in Packet
      BY <2>3, <2>5, <3>1, PackIsPacket
    <3> QED BY <2>5, <3>2 DEF Pack, Tok
  <2>8. Thins(up, up')
    <3>1. Single(up)
      BY <1>1 DEF TokensInv
    <3>2. Thins(up, up \o << packet >>)
      BY <1>1, <2>7, <3>1, ThinAppend
    <3> QED BY <1>2, <2>6, <3>2
  <2>9. Thins(down, down')
    BY <1>2, <2>3
  <2> QED BY <2>3, <2>4, <2>8, <2>9, NothingCounted
<1>8. CASE EnqueueChecks \/ EnqueueLeaves
  <2>1. UNCHANGED <<link, count, up, down, outbox, qos>>
    BY <1>8 DEF EnqueueChecks, EnqueueLeaves, client, history
  <2>2. \A x \in Ids : Under(x)' <=> Under(x)
    BY <2>1 DEF Under
  <2>3. Thins(up, up') /\ Thins(down, down')
    BY <1>2, <2>1
  <2> QED BY <2>1, <2>2, <2>3, NothingCounted
<1> QED BY <1>4, <1>5, <1>6, <1>7, <1>8 DEF Application

LEMMA CountedSend ==
  ASSUME SessionInv, SessionInv', CounterInv, Counted, UNCHANGED setting, SendQueued
  PROVE  CounterInv'
<1>1. /\ TokensInv /\ link = "up" /\ ~Abort /\ setting.receiveMax > 0
      /\ up \in Seq(Packet) /\ down \in Seq(Packet) /\ outbox \in Seq(Item)
  BY CountedQuiet
<1>2. PICK i : i = Dequeue(outbox, "queued")
  OBVIOUS
<1>3. PICK packet : packet = Of(outbox[i], FALSE)
  OBVIOUS
<1>4. i \in DOMAIN outbox /\ outbox[i].pending = "queued"
  <2>1. i # 0
    BY <1>2 DEF SendQueued
  <2> QED BY <1>1, <1>2, <2>1, DequeueFinds
<1>5. PICK id : id = outbox[i].id
  OBVIOUS
<1>6. /\ packet \in Packet /\ packet.type = outbox[i].type /\ packet.id = id
      /\ outbox[i] \in Item /\ ItemOK(outbox[i]) /\ (id # 0 => id \in Ids)
  <2>1. Of(outbox[i], FALSE).type = outbox[i].type
    BY DEF Of, Pack
  <2> QED BY <1>3, <1>4, <1>5, <2>1, ItemWritable
<1>7. /\ up' = up \o << packet >> /\ Stay /\ UNCHANGED qos
      /\ \/ outbox[i].qos = 0 /\ outbox' = DeleteItem(outbox, i) /\ count' = count
         \/ outbox[i].qos > 0 /\ Mark(id, "transmitted") /\ count' = count + 1
  <2>1. outbox[i].qos \in 0..2
    BY <1>6 DEF Item
  <2>2. /\ up' = up \o << packet >> /\ Stay /\ UNCHANGED qos
        /\ outbox' = IF outbox[i].qos = 0 THEN DeleteItem(outbox, i)
                     ELSE SetPending(outbox, id, "transmitted")
        /\ count' = IF outbox[i].qos > 0 /\ setting.receiveMax > 0 THEN count + 1 ELSE count
    BY <1>1, <1>2, <1>3, <1>5 DEF SendQueued, Write, history
  <2>3. CASE outbox[i].qos = 0
    BY <2>2, <2>3
  <2>4. CASE outbox[i].qos # 0
    <3>1. outbox[i].qos > 0
      BY <2>1, <2>4
    <3> QED BY <1>1, <2>2, <2>4, <3>1 DEF Mark
  <2> QED BY <2>3, <2>4
<1>8. CASE outbox[i].qos = 0 /\ outbox' = DeleteItem(outbox, i) /\ count' = count
  <2>1. id \in Ids => qos[id] = 0 /\ packet.type # "publish"
    <3>1. 0 \notin Ids
      BY DEF Ids
    <3> QED BY <1>5, <1>6, <1>8, <3>1 DEF ItemOK
  <2>2. packet.type \in {"publish", "subscribe", "unsubscribe"}
    BY <1>6 DEF Item, Types
  <2>3. ~Tok(packet)
    BY <1>6, <2>1, <2>2 DEF Tok
  <2>4. \A x \in Ids : Under(x)' <=> Under(x) /\ x # id
    BY <1>4, <1>5, <1>7, <1>8, UnderLeft
  <2>5. \A x \in Ids : Under(x)' <=> Under(x)
    BY <2>1, <2>4 DEF Under
  <2>6. Thins(up, up')
    <3>1. Single(up)
      BY <1>1 DEF TokensInv
    <3> QED BY <1>1, <1>6, <1>7, <2>3, <3>1, ThinAppend
  <2>7. Thins(down, down') /\ UNCHANGED <<link, count>>
    BY <1>1, <1>7, <1>8, ThinSame DEF Stay
  <2> QED BY <2>5, <2>6, <2>7, NothingCounted
<1>9. CASE outbox[i].qos > 0 /\ Mark(id, "transmitted") /\ count' = count + 1
  <2>1. outbox[i].qos # 0
    BY <1>6, <1>9 DEF Item
  <2>2. id \in Ids /\ qos[id] # 0 /\ id # 0
    BY <1>5, <1>6, <2>1 DEF ItemOK
  <2>3. Has(outbox, id)
    BY <1>4, <1>5 DEF Has
  <2>4. ~Under(id)
    <3>1. Unique(outbox)
      BY DEF SessionInv, SessionTypeOK
    <3> QED BY <1>4, <1>5, <2>2, <3>1 DEF Under, Unique
  <2>5. \A x \in Ids : Under(x)' <=> Under(x) \/ x = id
    <3>1. \A x \in Ids : Under(x)' <=> Under(x) \/ (x = id /\ Has(outbox, id) /\ qos[id] # 0)
      BY <1>7, <1>9, <2>2, UnderMarked
    <3> QED BY <2>2, <2>3, <3>1
  <2> QED BY <1>6, <1>7, <1>9, <2>2, <2>4, <2>5, OneSent DEF Stay
<1> QED BY <1>7, <1>8, <1>9

LEMMA CountedFinish ==
  ASSUME SessionInv, SessionInv', CounterInv, Counted, UNCHANGED setting, Finish
  PROVE  CounterInv'
<1>1. /\ TokensInv /\ link = "up" /\ setting.receiveMax > 0
      /\ down \in Seq(Packet) /\ outbox \in Seq(Item)
  BY CountedQuiet
<1>2. /\ UNCHANGED <<link, up, qos>> /\ down # << >> /\ down' = Tail(down)
      /\ Head(down).type \in {"puback", "pubcomp"}
  BY DEF Finish, Receive, Handled
<1>3. PICK id : id = Head(down).id
  OBVIOUS
<1>4. id \in Ids /\ Tok(Head(down))
  <2>1. id \in Ids
    BY <1>2, <1>3, HeadIsOK DEF DownOK
  <2> QED BY <1>2, <1>3, <2>1 DEF Tok
<1>5. /\ Single(down') /\ \A x \in Ids : Carries(down', x) => Carries(down, x)
      /\ Carries(down, id) /\ ~Carries(down', id)
  BY <1>1, <1>2, <1>3, <1>4, TokTaken DEF TokensInv
<1>6. Under(id) /\ ~Carries(up, id)
  BY <1>1, <1>4, <1>5 DEF TokensInv
<1>7. PICK i : i = Initiator(outbox, id, "publish")
  OBVIOUS
<1>8. i \in DOMAIN outbox /\ outbox[i].id = id /\ outbox' = DeleteItem(outbox, i)
  <2>1. PICK j \in DOMAIN outbox : outbox[j].id = id
    BY <1>6 DEF Under
  <2>2. ItemOK(outbox[j]) /\ id # 0 /\ qos[id] # 0
    BY <1>4, <1>6 DEF SessionInv, OutboxInv, Ids, Under
  <2>3. outbox[j].type = "publish"
    BY <2>1, <2>2 DEF ItemOK
  <2>4. i \in DOMAIN outbox /\ outbox[i].id = id
    BY <1>1, <1>7, <2>1, <2>3, InitiatorFinds
  <2>5. outbox' = DeleteItem(outbox, i)
    BY <1>3, <1>7 DEF Finish, Delete
  <2> QED BY <2>4, <2>5
<1>9. \A x \in Ids : Under(x)' <=> Under(x) /\ x # id
  BY <1>2, <1>8, UnderLeft
<1>10. UnderWayOK /\ UnderWayOK'
  BY UnderWayIs, UnderWayIsThen DEF SessionInv
<1>11. UnderWay' = UnderWay \ {id} /\ id \in UnderWay /\ IsFiniteSet(UnderWay)
  BY <1>4, <1>6, <1>9, <1>10 DEF UnderWayOK
<1>12. Cardinality(UnderWay') = Cardinality(UnderWay) - 1 /\ Cardinality(UnderWay) \in Nat
  BY <1>11, FS_RemoveElement, FS_CardinalityType
<1>13. Cardinality(UnderWay) # 0
  BY <1>11, FS_EmptySet
<1>14. count' = Cardinality(UnderWay')
  <2>1. count = Cardinality(UnderWay) /\ count' = IF setting.receiveMax > 0 /\ count > 0 THEN count - 1 ELSE count
    BY DEF CounterInv, Finish, Acked
  <2>2. count > 0
    BY <1>12, <1>13, <2>1
  <2> QED BY <1>1, <1>12, <2>1, <2>2
<1>15. TokensInv'
  <2>1. \A x \in Ids : Carries(up, x) \/ Carries(down', x) => Under(x) /\ x # id
    BY <1>1, <1>5, <1>6 DEF TokensInv
  <2> QED BY <1>1, <1>2, <1>5, <1>9, <2>1 DEF TokensInv, Single, Carries
<1> QED BY <1>1, <1>2, <1>14, <1>15 DEF CounterInv
LEMMA CountedHandle ==
  ASSUME SessionInv, SessionInv', CounterInv, Counted, UNCHANGED setting,
         Suback \/ Pubrec \/ InPublish \/ InPubrel
  PROVE  CounterInv'
<1>1. /\ TokensInv /\ link = "up" /\ ~Abort
      /\ up \in Seq(Packet) /\ down \in Seq(Packet) /\ outbox \in Seq(Item)
      /\ Single(up) /\ Single(down)
  BY CountedQuiet DEF TokensInv
<1>2. /\ down # << >> /\ down' = Tail(down) /\ UNCHANGED <<link, count, qos>>
      /\ Head(down).type \in {"suback", "unsuback", "pubrec", "publish", "pubrel"}
  BY <1>1 DEF Suback, Pubrec, InPublish, InPubrel, Receive, Handled, history
<1>3. Thins(down, down') /\ Thins(up, up)
  BY <1>1, <1>2, ThinTail, ThinSame
<1>4. PICK id : id = Head(down).id
  OBVIOUS
<1>5. CASE Suback
  <2>1. PICK type : type \in {"subscribe", "unsubscribe"} /\ outbox' = Delete(outbox, id, type)
    BY <1>4, <1>5 DEF Suback
  <2>2. \A x \in Ids : Under(x)' <=> Under(x)
    <3>1. \/ outbox' = outbox
          \/ \E i \in DOMAIN outbox : /\ outbox' = DeleteItem(outbox, i)
                                     /\ outbox[i].id = id /\ outbox[i].type = type
      BY <1>1, <2>1, DeleteDrops
    <3>2. CASE outbox' = outbox
      BY <1>2, <3>2 DEF Under
    <3>3. CASE outbox' # outbox
      <4>1. PICK i \in DOMAIN outbox : /\ outbox' = DeleteItem(outbox, i)
                                       /\ outbox[i].id = id /\ outbox[i].type = type
        BY <3>1, <3>3
      <4>2. \A x \in Ids : Under(x)' <=> Under(x) /\ x # outbox[i].id
        BY <1>2, <4>1, UnderLeft
      <4>3. outbox[i].id \in Ids => qos[outbox[i].id] = 0
        <5>1. ItemOK(outbox[i]) /\ 0 \notin Ids /\ type # "publish"
          BY <2>1, <4>1 DEF SessionInv, OutboxInv, Ids
        <5> QED BY <4>1, <5>1 DEF ItemOK
      <4> QED BY <4>2, <4>3 DEF Under
    <3> QED BY <3>2, <3>3
  <2>3. Thins(up, up')
    BY <1>3, <1>5 DEF Suback
  <2> QED BY <1>2, <1>3, <2>2, <2>3, NothingCounted
<1>6. CASE Pubrec
  <2>1. Head(down).type = "pubrec" /\ Mark(id, "acknowledged")
    BY <1>4, <1>6 DEF Pubrec, Receive, Mark
  <2>2. id \in Ids /\ Tok(Head(down))
    <3>1. id \in Ids
      BY <1>2, <1>4, <2>1, HeadIsOK DEF DownOK
    <3> QED BY <1>4, <2>1, <3>1 DEF Tok
  <2>3. /\ Single(down') /\ \A x \in Ids : Carries(down', x) => Carries(down, x)
        /\ Carries(down, id) /\ ~Carries(down', id)
    BY <1>1, <1>2, <1>4, <2>2, TokTaken
  <2>4. Under(id) /\ ~Carries(up, id)
    BY <1>1, <2>2, <2>3 DEF TokensInv
  <2>5. \A x \in Ids : Under(x)' <=> Under(x)
    <3>1. \A x \in Ids : Under(x)' <=> Under(x) \/ (x = id /\ Has(outbox, id) /\ qos[id] # 0)
      BY <1>2, <2>1, <2>2, UnderMarked
    <3> QED BY <2>4, <3>1
  <2>6. PICK packet : packet = Pack("pubrel", id, 0, FALSE)
    OBVIOUS
  <2>7. packet \in Packet /\ packet.id = id
    <3>1. "pubrel" \in PacketTypes /\ FALSE \in BOOLEAN /\ 0 \in 0..2 /\ id \in PacketIds
      BY <2>2, IdsArePacketIds DEF PacketTypes, SessionInv
    <3>2. packet \in Packet
      BY <2>6, <3>1, PackIsPacket
    <3> QED BY <2>6, <3>2 DEF Pack
  <2>8. up' = up \/ up' = up \o << packet >>
    BY <1>4, <1>6, <2>6 DEF Pubrec, Write
  <2>9. Single(up') /\ \A x \in Ids : Carries(up', x) => Carries(up, x) \/ x = id
    <3>1. CASE up' = up
      BY <1>1, <3>1
    <3>2. CASE up' = up \o << packet >>
      <4>1. Single(up') /\ \A x \in Ids : Carries(up', x) <=> Carries(up, x) \/ (Tok(packet) /\ packet.id = x)
        BY <1>1, <2>4, <2>7, <3>2, TokAppended
      <4> QED BY <2>7, <4>1
    <3> QED BY <2>8, <3>1, <3>2
  <2>10. \A x \in Ids : /\ ~(Carries(up', x) /\ Carries(down', x))
                        /\ Carries(up', x) \/ Carries(down', x) => Under(x)
    BY <1>1, <2>3, <2>4, <2>9 DEF TokensInv
  <2>11. TokensInv'
    BY <2>3, <2>5, <2>9, <2>10 DEF TokensInv, Single, Carries
  <2>12. UnderWay' = UnderWay
    <3>1. UnderWayOK /\ UnderWayOK'
      BY UnderWayIs, UnderWayIsThen DEF SessionInv
    <3> QED BY <2>5, <3>1 DEF UnderWayOK
  <2> QED BY <1>1, <1>2, <2>11, <2>12 DEF CounterInv
<1>7. CASE InPublish \/ InPubrel
  <2>1. \A x \in Ids : Under(x)' <=> Under(x)
    BY <1>2, <1>7 DEF InPublish, InPubrel, Under
  <2>2. id - MaxId \in 1..setting.inbound /\ id \in Int
    <3>1. Head(down).type \in {"publish", "pubrel"}
      BY <1>7 DEF InPublish, InPubrel, Receive
    <3>2. Head(down) \in Packet /\ DownOK(Head(down))
      BY <1>2, HeadIsOK
    <3>3. id \in 0..(MaxId + setting.inbound)
      BY <1>4, <3>2 DEF Packet
    <3>4. id \in Int
      BY <3>3
    <3> QED BY <1>4, <3>1, <3>2, <3>4 DEF DownOK
  <2>3. MaxId + (id - MaxId) = id /\ id \notin Ids
    BY <2>2, SessionAssumption DEF Ids
  <2>4. PICK type \in {"pubrec", "pubcomp"} : up' = up \/ up' = up \o << Pack(type, id, 0, FALSE) >>
    BY <1>4, <1>7, <2>3 DEF InPublish, InPubrel, Write, WriteFails
  <2>5. PICK packet : packet = Pack(type, id, 0, FALSE)
    OBVIOUS
  <2>6. packet \in Packet /\ ~Tok(packet)
    <3>1. id \in PacketIds
      BY <1>2, <1>4, HeadIsOK DEF Packet, PacketIds
    <3>2. type \in PacketTypes /\ FALSE \in BOOLEAN /\ 0 \in 0..2
      BY DEF PacketTypes
    <3>3. packet \in Packet
      BY <2>5, <3>1, <3>2, PackIsPacket
    <3> QED BY <2>3, <2>5, <3>3 DEF Pack, Tok
  <2>7. Thins(up, up')
    <3>1. Thins(up, up \o << packet >>)
      BY <1>1, <2>6, ThinAppend
    <3> QED BY <1>3, <2>4, <2>5, <3>1
  <2> QED BY <1>2, <1>3, <2>1, <2>7, NothingCounted
<1> QED BY <1>5, <1>6, <1>7

LEMMA CountedBroker ==
  ASSUME SessionInv, SessionInv', CounterInv, Counted, UNCHANGED setting, Broker
  PROVE  CounterInv'
<1>1. /\ TokensInv /\ link = "up" /\ up \in Seq(Packet) /\ down \in Seq(Packet)
      /\ Single(up) /\ Single(down)
  BY CountedQuiet DEF TokensInv
<1>2. UNCHANGED <<link, count, qos, outbox>>
  BY DEF Broker, BrokerPublish, BrokerPubrel, BrokerSubscribe, BrokerAnswered, BrokerOffers,
     Keep, client, history
<1>3. \A x \in Ids : Under(x)' <=> Under(x)
  BY <1>2 DEF Under
<1>4. up # << >> => Head(up) \in Packet /\ UpOK(Head(up))
  <2>1. \A i \in DOMAIN up : UpOK(up[i])
    BY DEF SessionInv, UpInv
  <2>2. up # << >> => Head(up) = up[1] /\ Head(up) \in Packet /\ 1 \in DOMAIN up
    BY <1>1, HeadTailProperties
  <2> QED BY <2>1, <2>2
<1>5. PICK p : p = Head(up)
  OBVIOUS
<1>6. CASE BrokerPublish \/ BrokerPubrel \/ BrokerSubscribe
  <2>1. /\ up # << >> /\ up' = Tail(up)
        /\ p.type \in {"publish", "pubrel", "subscribe", "unsubscribe"}
    BY <1>5, <1>6 DEF BrokerPublish, BrokerPubrel, BrokerSubscribe, Take
  <2>2. p \in Packet /\ UpOK(p)
    BY <1>4, <1>5, <2>1
  <2>3. \E type \in {"puback", "pubrec", "pubcomp", "suback", "unsuback"} :
          /\ down' \in {down, down \o << Pack(type, p.id, 0, FALSE) >>}
          /\ type \in {"puback", "pubrec", "pubcomp"} => p.type \in {"publish", "pubrel"}
    <3>1. CASE BrokerPublish
      <4>1. Reply(Acknowledge(p)) /\ p.type = "publish"
        BY <1>5, <3>1 DEF BrokerPublish, Take
      <4>2. CASE p.qos = 0
        BY <1>1, <4>1, <4>2 DEF Acknowledge, Reply
      <4>3. CASE p.qos # 0
        BY <1>1, <4>1, <4>3 DEF Acknowledge, Reply
      <4> QED BY <4>2, <4>3
    <3>2. CASE BrokerPubrel
      BY <1>1, <1>5, <3>2 DEF BrokerPubrel, Take, Reply
    <3>3. CASE BrokerSubscribe
      <4>1. PICK type : type = IF p.type = "subscribe" THEN "suback" ELSE "unsuback"
        OBVIOUS
      <4>2. Reply(<< Pack(type, p.id, 0, FALSE) >>)
        BY <1>5, <3>3, <4>1 DEF BrokerSubscribe
      <4> QED BY <1>1, <4>1, <4>2 DEF Reply
    <3> QED BY <1>6, <3>1, <3>2, <3>3
  <2>4. PICK type \in {"puback", "pubrec", "pubcomp", "suback", "unsuback"} :
          /\ down' \in {down, down \o << Pack(type, p.id, 0, FALSE) >>}
          /\ type \in {"puback", "pubrec", "pubcomp"} => p.type \in {"publish", "pubrel"}
    BY <2>3
  <2>5. PICK r : r = Pack(type, p.id, 0, FALSE)
    OBVIOUS
  <2>6. r \in Packet /\ r.type = type /\ r.id = p.id
    <3>1. p.id \in PacketIds
      BY <2>2 DEF Packet, PacketIds
    <3>2. type \in PacketTypes /\ FALSE \in BOOLEAN /\ 0 \in 0..2
      BY DEF PacketTypes
    <3>3. r \in Packet
      BY <2>5, <3>1, <3>2, PackIsPacket
    <3> QED BY <2>5, <3>3 DEF Pack
  <2>7. Tok(r) => Tok(Head(up)) /\ r.id = Head(up).id
    BY <1>5, <2>4, <2>6 DEF Tok
  <2>8. down' \in {down, down \o << r >>}
    BY <2>4, <2>5
  <2> QED BY <1>2, <1>3, <2>1, <2>6, <2>7, <2>8, TokenReplied
<1>7. MaxId \in Nat /\ setting.inbound \in Nat /\ \A k \in 1..setting.inbound : MaxId + k \notin Ids
  <2>1. MaxId \in Nat /\ setting.inbound \in Nat
    BY SessionAssumption DEF SessionInv, SessionTypeOK, Setting
  <2> QED BY <2>1 DEF Ids
<1>8. CASE BrokerAnswered
  <2>1. up # << >> /\ up' = Tail(up) /\ p.type \in {"pubrec", "pubcomp"}
    BY <1>5, <1>8 DEF BrokerAnswered, Take
  <2>2. PICK k : k = p.id - MaxId
    OBVIOUS
  <2>3. k \in 1..setting.inbound
    BY <1>4, <1>5, <2>1, <2>2 DEF UpOK
  <2>4. PICK r : r = Pack("pubrel", MaxId + k, 0, FALSE)
    OBVIOUS
  <2>5. r \in Packet /\ ~Tok(r)
    <3>1. "pubrel" \in PacketTypes /\ FALSE \in BOOLEAN /\ 0 \in 0..2 /\ MaxId + k \in PacketIds
      BY <2>3, IdsArePacketIds DEF PacketTypes, SessionInv
    <3>2. r \in Packet
      BY <2>4, <3>1, PackIsPacket
    <3> QED BY <1>7, <2>3, <2>4, <3>2 DEF Pack, Tok
  <2>6. down' \in {down, down \o << r >>}
    <3>1. Reply(IF p.type = "pubrec" THEN << r >> ELSE << >>)
      BY <1>5, <1>8, <2>2, <2>4 DEF BrokerAnswered
    <3>2. CASE p.type = "pubrec"
      BY <3>1, <3>2 DEF Reply
    <3>3. CASE p.type # "pubrec"
      BY <1>1, <3>1, <3>3 DEF Reply
    <3> QED BY <3>2, <3>3
  <2> QED BY <1>2, <1>3, <2>1, <2>5, <2>6, TokenReplied
<1>9. ASSUME NEW k \in DOMAIN offered, BrokerOffers(k) PROVE CounterInv'
  <2>1. k \in 1..setting.inbound
    BY DEF SessionInv, SessionTypeOK
  <2>2. PICK type : type = IF offered[k] = "received" THEN "pubrel" ELSE "publish"
    OBVIOUS
  <2>3. PICK r : r = Pack(type, MaxId + k, 2, FALSE)
    OBVIOUS
  <2>4. r \in Packet /\ ~Tok(r)
    <3>1. type \in PacketTypes /\ FALSE \in BOOLEAN /\ 2 \in 0..2 /\ MaxId + k \in PacketIds
      BY <2>1, <2>2, IdsArePacketIds DEF PacketTypes, Types, SessionInv
    <3>2. r \in Packet
      BY <2>3, <3>1, PackIsPacket
    <3> QED BY <1>7, <2>1, <2>3, <3>2 DEF Pack, Tok
  <2>5. down' = Append(down, r) /\ up' = up
    BY <1>9, <2>2, <2>3 DEF BrokerOffers
  <2>6. down' = down \o << r >>
    BY <1>1, <2>4, <2>5, AppendProperties
  <2>7. Thins(down, down') /\ Thins(up, up')
    BY <1>1, <2>4, <2>5, <2>6, ThinAppend, ThinSame
  <2> QED BY <1>2, <1>3, <2>7, NothingCounted
<1> QED BY <1>6, <1>8, <1>9 DEF Broker

LEMMA CounterStep ==
  ASSUME SessionInv, SessionInv', CounterInv, [SessionNext]_sessionVars
  PROVE  CounterInv'
<1>1. UNCHANGED setting
  BY DEF SessionNext, sessionVars
<1> SUFFICES ASSUME Counted' PROVE CounterInv'
  BY DEF CounterInv
<1>2. Counted
  BY <1>1 DEF Counted, Undisturbed
<1>3. TokensInv /\ ~Abort /\ ~Expire /\ ~Resend /\ ~Reconnect
  BY <1>1, <1>2, CountedQuiet
<1>4. CASE UNCHANGED sessionVars
  <2>1. UNCHANGED <<link, count, up, down, outbox, qos>>
    BY <1>4 DEF sessionVars, client, history
  <2>2. \A x \in Ids : Under(x)' <=> Under(x)
    BY <2>1 DEF Under
  <2>3. Thins(up, up') /\ Thins(down, down')
    BY <1>3, <2>1, ThinSame
  <2> QED BY <1>1, <1>2, <2>1, <2>2, <2>3, NothingCounted
<1>5. CASE SessionNext
  <2>1. ~ReceiveFails
    BY <1>3 DEF ReceiveFails
  <2>2. Application \/ Finish \/ (Suback \/ Pubrec \/ InPublish \/ InPubrel) \/ SendQueued \/ Broker
    BY <1>3, <1>5, <2>1 DEF SessionNext, Handle
  <2> QED BY <1>1, <1>2, <2>2, CountedApplication, CountedFinish, CountedHandle, CountedSend,
             CountedBroker
<1> QED BY <1>4, <1>5

LEMMA CounterInit ==
  ASSUME SessionInit
  PROVE  CounterInv
<1>1. link = "up" /\ TokensInv /\ count = 0
  BY DEF SessionInit, TokensInv, Single, Carries
<1>2. UnderWay = {}
  <2>1. qos = [i \in Ids |-> 0]
    BY DEF SessionInit
  <2> QED BY <2>1 DEF UnderWay
<1>3. Cardinality(UnderWay) = 0
  BY <1>2, FS_EmptySet
<1> QED BY <1>1, <1>3 DEF CounterInv

(* Where nothing disturbs it, the MQTT 5 counter is that of the messages    *)
(* that were sent and are not acknowledged yet.                             *)
THEOREM CounterIsExact == SessionSpec => []CounterExact
<1>1. SessionInit => CounterInv
  BY CounterInit
<1>2. SessionInv /\ SessionInv' /\ CounterInv /\ [SessionNext]_sessionVars => CounterInv'
  BY CounterStep
<1>3. CounterInv => CounterExact
  BY DEF CounterInv, CounterExact, Counted
<1> QED BY <1>1, <1>2, <1>3, SessionInvariant, PTL DEF SessionSpec
=============================================================================
