---------------------------- MODULE OutboxProofs -----------------------------
(* Theorems about what module MCSession puts beside the session: the sizes  *)
(* of the two outboxes, that the outbox of the example does what that of    *)
(* the library does, and that nothing expires while Enough holds.           *)
EXTENDS MCSession, SessionProofs

-----------------------------------------------------------------------------
(* The outboxes (OutboxStore, CustomOutbox): what the sums over an outbox   *)
(* do when an item comes or goes, and the sizes kept beside them.           *)

(* Upwards from 0.                                                          *)
LEMMA FromZero ==
  ASSUME NEW n \in Nat, NEW G, 0 \in G, \A k \in 1..n : k - 1 \in G => k \in G
  PROVE  \A k \in 0..n : k \in G
<1> DEFINE I == {k \in 0..n : k \notin G}
<1> SUFFICES ASSUME I # {} PROVE FALSE
  OBVIOUS
<1>1. I \in SUBSET Nat
  OBVIOUS
<1>2. Min(I) \in I /\ \A k \in I : Min(I) <= k
  <2> HIDE DEF I
  <2> QED BY <1>1, MinIsLeast
<1>3. PICK k \in 0..n : k \notin G /\ \A j \in I : k <= j
  BY <1>2
<1>4. k # 0 /\ k \in 1..n /\ k - 1 \in 0..n /\ k - 1 \notin I
  BY <1>3
<1>5. k - 1 \in G
  BY <1>4
<1> QED BY <1>3, <1>4, <1>5

(* A recursive function on 0..n has the values its equation says: g[i] is   *)
(* what step i makes of the value before.                                   *)
Recursion(n, V, v, g) ==
  \E f \in [0..n -> V] : f[0] = v /\ \A i \in 1..n : f[i] = g[i][f[i - 1]]

LEMMA RecursionFromZero ==
  ASSUME NEW n \in Nat, NEW V, NEW v \in V, NEW g \in [1..n -> [V -> V]]
  PROVE  Recursion(n, V, v, g)
<1> DEFINE Solves(f, m) == f[0] = v /\ \A i \in 1..m : f[i] = g[i][f[i - 1]]
           G == {m \in 0..n : \E f \in [0..n -> V] : Solves(f, m)}
<1>1. 0 \in G
  <2> DEFINE f == [i \in 0..n |-> v]
  <2>1. f \in [0..n -> V] /\ f[0] = v
    OBVIOUS
  <2>2. \A i \in 1..0 : f[i] = g[i][f[i - 1]]
    OBVIOUS
  <2> HIDE DEF f
  <2> QED BY <2>1, <2>2
<1>2. ASSUME NEW k \in 1..n, k - 1 \in G PROVE k \in G
  <2>1. PICK f \in [0..n -> V] : Solves(f, k - 1)
    BY <1>2
  <2>2. k - 1 \in 0..n /\ k \in 0..n /\ f[k - 1] \in V /\ g[k][f[k - 1]] \in V
    OBVIOUS
  <2> DEFINE e == [f EXCEPT ![k] = g[k][f[k - 1]]]
  <2>3. e \in [0..n -> V] /\ e[k] = g[k][f[k - 1]] /\ \A i \in 0..(k - 1) : e[i] = f[i]
    BY <2>2
  <2> HIDE DEF e
  <2>4. e[0] = v
    BY <2>1, <2>3
  <2>5. ASSUME NEW i \in 1..k PROVE e[i] = g[i][e[i - 1]]
    <3>1. e[i - 1] = f[i - 1]
      BY <2>3
    <3>2. CASE i = k
      BY <2>3, <3>1, <3>2
    <3>3. CASE i # k
      <4>1. i \in 1..(k - 1) /\ i \in 0..(k - 1)
        BY <3>3
      <4> QED BY <2>1, <2>3, <3>1, <4>1
    <3> QED BY <3>2, <3>3
  <2>6. Solves(e, k)
    BY <2>4, <2>5
  <2> HIDE DEF Solves
  <2> QED BY <2>2, <2>3, <2>6
<1>3. n \in G
  <2> HIDE DEF G
  <2>1. \A k \in 1..n : k - 1 \in G => k \in G
    BY <1>2
  <2>2. \A k \in 0..n : k \in G
    BY <1>1, <2>1, FromZero
  <2> QED BY <2>2
<1> QED BY <1>3 DEF Recursion

(* Items with a length.                                                     *)
Sized(S) == \A x \in S : x.len \in Nat

(* t[i] is the bytes of those of the first i items that are in I.           *)
Running(q, I, t) ==
  /\ t \in [0..Len(q) -> Nat] /\ t[0] = 0
  /\ \A i \in 1..Len(q) : t[i] = IF i \in I THEN t[i - 1] + q[i].len ELSE t[i - 1]

LEMMA BytesAtRuns ==
  ASSUME NEW S, Sized(S), NEW q \in Seq(S), NEW I
  PROVE  \E t : Running(q, I, t) /\ BytesAt(q, I) = t[Len(q)]
<1> DEFINE n == Len(q)
           g == [i \in 1..n |-> [b \in Nat |-> IF i \in I THEN b + q[i].len ELSE b]]
           Total(t) == [i \in 0..n |-> IF i = 0 THEN 0 ELSE IF i \in I THEN t[i - 1] + q[i].len ELSE t[i - 1]]
           T == CHOOSE t : t = Total(t)
<1>1. n \in Nat /\ \A i \in 1..n : q[i].len \in Nat
  BY DEF Sized
<1>2. g \in [1..n -> [Nat -> Nat]]
  BY <1>1
<1>3. PICK f \in [0..n -> Nat] : f[0] = 0 /\ \A i \in 1..n : f[i] = g[i][f[i - 1]]
  <2>1. n \in Nat /\ 0 \in Nat
    BY <1>1
  <2> HIDE DEF g, n
  <2>2. Recursion(n, Nat, 0, g)
    BY <1>2, <2>1, RecursionFromZero
  <2> QED BY <2>2 DEF Recursion
<1>4. ASSUME NEW i \in 1..n
      PROVE  f[i] = IF i \in I THEN f[i - 1] + q[i].len ELSE f[i - 1]
  <2>1. i - 1 \in 0..n
    BY <1>1
  <2>4. f[i - 1] \in Nat
    BY <1>3, <2>1
  <2>2. f[i] = g[i][f[i - 1]]
    BY <1>3
  <2>3. g[i] = [b \in Nat |-> IF i \in I THEN b + q[i].len ELSE b]
    OBVIOUS
  <2> HIDE DEF g
  <2> QED BY <2>2, <2>3, <2>4
<1>5. f = Total(f)
  <2>1. \A i \in 0..n : f[i] = Total(f)[i]
    BY <1>1, <1>3, <1>4
  <2>2. f = [i \in 0..n |-> f[i]]
    OBVIOUS
  <2> QED BY <2>1, <2>2
<1>6. T = Total(T)
  <2> HIDE DEF Total
  <2> QED BY <1>5
<1>7. DOMAIN T = 0..n /\ T[0] = 0
      /\ \A i \in 1..n : T[i] = IF i \in I THEN T[i - 1] + q[i].len ELSE T[i - 1]
  <2> HIDE DEF T
  <2>1. DOMAIN T = 0..n /\ \A i \in 0..n : T[i] = Total(T)[i]
    BY <1>6
  <2>2. \A i \in 1..n : i \in 0..n /\ i # 0
    BY <1>1
  <2> QED BY <1>1, <2>1, <2>2
<1>8. \A i \in 0..n : T[i] \in Nat
  <2> DEFINE G == {i \in 0..n : T[i] \in Nat}
  <2>1. 0 \in G
    BY <1>1, <1>7
  <2>2. ASSUME NEW i \in 1..n, i - 1 \in G PROVE i \in G
    <3> HIDE DEF T
    <3>1. T[i - 1] \in Nat /\ i \in 0..n
      BY <1>1, <2>2
    <3>2. q[i].len \in Nat
      BY <1>1
    <3>3. T[i] = IF i \in I THEN T[i - 1] + q[i].len ELSE T[i - 1]
      BY <1>7
    <3>4. T[i] \in Nat
      BY <3>1, <3>2, <3>3
    <3> QED BY <3>1, <3>4
  <2>3. \A i \in 0..n : i \in G
    <3> HIDE DEF G
    <3> QED BY <1>1, <2>1, <2>2, FromZero
  <2> QED BY <2>3
<1>9. BytesAt(q, I) = T[n]
  BY DEF BytesAt
<1>10. Running(q, I, T)
  <2> HIDE DEF T
  <2>1. T = [i \in 0..n |-> T[i]]
    <3>1. T = [i \in DOMAIN T |-> T[i]]
      BY <1>6
    <3> QED BY <1>7, <3>1
  <2>2. T \in [0..n -> Nat]
    BY <1>8, <2>1
  <2> QED BY <1>7, <2>2 DEF Running
<1> HIDE DEF T
<1> QED BY <1>9, <1>10

(* There is one such function, so that it decides what BytesAt is.          *)
LEMMA BytesAtIs ==
  ASSUME NEW S, Sized(S), NEW q \in Seq(S), NEW I, NEW t, Running(q, I, t)
  PROVE  BytesAt(q, I) = t[Len(q)] /\ BytesAt(q, I) \in Nat
<1>1. PICK f : Running(q, I, f) /\ BytesAt(q, I) = f[Len(q)]
  BY BytesAtRuns
<1> DEFINE n == Len(q)
           G == {i \in 0..n : f[i] = t[i]}
<1>2. n \in Nat
  OBVIOUS
<1>3. 0 \in G
  BY <1>1, <1>2 DEF Running
<1>4. ASSUME NEW i \in 1..n, i - 1 \in G PROVE i \in G
  <2>1. f[i] = IF i \in I THEN f[i - 1] + q[i].len ELSE f[i - 1]
    BY <1>1 DEF Running
  <2>2. t[i] = IF i \in I THEN t[i - 1] + q[i].len ELSE t[i - 1]
    BY DEF Running
  <2> QED BY <1>4, <2>1, <2>2
<1>5. n \in G
  <2> HIDE DEF G
  <2>1. \A i \in 0..n : i \in G
    BY <1>2, <1>3, <1>4, FromZero
  <2> QED BY <1>2, <2>1
<1>6. t[n] \in Nat
  BY <1>2 DEF Running
<1> QED BY <1>1, <1>5, <1>6

LEMMA BytesOfNone == Bytes(<<>>) = 0
<1> DEFINE S == {[len |-> 0]}
           q == <<>>
           t == [i \in 0..0 |-> 0]
<1>1. Sized(S) /\ q \in Seq(S) /\ Len(q) = 0
  BY DEF Sized
<1>2. Running(q, DOMAIN q, t)
  BY <1>1 DEF Running
<1>3. BytesAt(q, DOMAIN q) = t[Len(q)]
  <2> HIDE DEF S, t, q
  <2> QED BY <1>1, <1>2, BytesAtIs
<1> QED BY <1>1, <1>3 DEF Bytes

LEMMA BytesAppend ==
  ASSUME NEW S, Sized(S), NEW q \in Seq(S), NEW x \in S
  PROVE  Bytes(Append(q, x)) = Bytes(q) + x.len
<1> DEFINE n == Len(q)
           p == Append(q, x)
<1>1. n \in Nat /\ p \in Seq(S) /\ Len(p) = n + 1 /\ DOMAIN p = 1..(n + 1) /\ DOMAIN q = 1..n
  OBVIOUS
<1>2. p[n + 1] = x /\ \A i \in 1..n : p[i] = q[i]
  OBVIOUS
<1> HIDE DEF p
<1>3. PICK t : Running(q, DOMAIN q, t) /\ Bytes(q) = t[n]
  BY BytesAtRuns DEF Bytes
<1>4. x.len \in Nat
  BY DEF Sized
<1> DEFINE u == [i \in 0..(n + 1) |-> IF i = n + 1 THEN t[n] + x.len ELSE t[i]]
<1>5. \A i \in 0..n : t[i] \in Nat
  BY <1>1, <1>3 DEF Running
<1>6. u \in [0..Len(p) -> Nat] /\ u[0] = 0
  <2>1. t[0] = 0
    BY <1>3 DEF Running
  <2> QED BY <1>1, <1>4, <1>5, <2>1
<1>7. ASSUME NEW i \in 1..Len(p)
      PROVE  u[i] = IF i \in DOMAIN p THEN u[i - 1] + p[i].len ELSE u[i - 1]
  <2>1. i \in 1..(n + 1) /\ i \in DOMAIN p /\ i - 1 \in 0..n /\ u[i - 1] = t[i - 1]
    BY <1>1
  <2>2. CASE i = n + 1
    <3>1. u[i] = t[n] + x.len /\ i - 1 = n
      BY <1>1, <2>2
    <3>2. p[i] = x
      BY <1>2, <2>2
    <3> HIDE DEF u
    <3> QED BY <2>1, <3>1, <3>2
  <2>3. CASE i # n + 1
    <3>1. i \in 1..n /\ i \in DOMAIN q
      BY <1>1, <2>1, <2>3
    <3>2. t[i] = t[i - 1] + q[i].len
      BY <1>3, <3>1 DEF Running
    <3>3. u[i] = t[i] /\ p[i] = q[i]
      BY <1>1, <1>2, <2>3, <3>1
    <3> QED BY <2>1, <3>2, <3>3
  <2> QED BY <2>2, <2>3
<1>8. u[Len(p)] = t[n] + x.len
  BY <1>1
<1>9. Running(p, DOMAIN p, u)
  <2> HIDE DEF u
  <2> QED BY <1>6, <1>7 DEF Running
<1>10. Bytes(p) = u[Len(p)]
  <2> HIDE DEF u
  <2> QED BY <1>1, <1>9, BytesAtIs DEF Bytes
<1> QED BY <1>3, <1>8, <1>10 DEF p

LEMMA BytesNat ==
  ASSUME NEW S, Sized(S), NEW q \in Seq(S)
  PROVE  Bytes(q) \in Nat /\ \A I : BytesAt(q, I) \in Nat
<1>1. ASSUME NEW I PROVE BytesAt(q, I) \in Nat
  <2>1. PICK t : Running(q, I, t) /\ BytesAt(q, I) = t[Len(q)]
    BY BytesAtRuns
  <2>2. Len(q) \in 0..Len(q)
    OBVIOUS
  <2> QED BY <2>1, <2>2 DEF Running
<1> QED BY <1>1 DEF Bytes

(* When an item leaves, its bytes do.                                       *)
LEMMA BytesRemoved ==
  ASSUME NEW S, Sized(S), NEW q \in Seq(S), NEW j \in DOMAIN q,
         NEW p \in Seq(S), Len(p) = Len(q) - 1,
         \A i \in 1..(Len(q) - 1) : p[i] = IF i < j THEN q[i] ELSE q[i + 1]
  PROVE  Bytes(p) = Bytes(q) - q[j].len
<1> DEFINE n == Len(q)
<1>1. n \in Nat /\ DOMAIN q = 1..n /\ DOMAIN p = 1..(n - 1) /\ j \in 1..n /\ n - 1 \in Nat
  OBVIOUS
<1>2. PICK t : Running(q, DOMAIN q, t) /\ Bytes(q) = t[n]
  BY BytesAtRuns DEF Bytes
<1>3. \A i \in 1..n : t[i] = t[i - 1] + q[i].len
  BY <1>1, <1>2 DEF Running
<1>4. \A i \in 0..n : t[i] \in Nat
  BY <1>2 DEF Running
<1>5. PICK u : Running(p, DOMAIN p, u) /\ Bytes(p) = u[n - 1]
  BY BytesAtRuns DEF Bytes
<1>6. \A i \in 1..(n - 1) : u[i] = u[i - 1] + p[i].len
  BY <1>1, <1>5 DEF Running
<1>7. \A i \in 0..(n - 1) : u[i] \in Nat
  BY <1>1, <1>5 DEF Running
<1>8. \A i \in 1..n : q[i].len \in Nat
  BY DEF Sized
<1> DEFINE G == {i \in 0..(n - 1) : u[i] = IF i < j THEN t[i] ELSE t[i + 1] - q[j].len}
<1>9. 0 \in G
  <2>1. u[0] = 0 /\ t[0] = 0
    BY <1>2, <1>5 DEF Running
  <2> QED BY <1>1, <2>1
<1>10. ASSUME NEW i \in 1..(n - 1), i - 1 \in G PROVE i \in G
  <2>1. u[i] = u[i - 1] + p[i].len
    BY <1>6
  <2>2. i \in 1..n /\ i + 1 \in 1..n /\ i - 1 \in 0..n /\ i \in 0..n /\ i + 1 \in 0..n
    BY <1>1
  <2>3. t[i] = t[i - 1] + q[i].len /\ t[i + 1] = t[i] + q[i + 1].len
    <3>1. (i + 1) - 1 = i
      BY <1>1
    <3> QED BY <1>3, <2>2, <3>1
  <2>4. t[i - 1] \in Nat /\ t[i] \in Nat /\ t[i + 1] \in Nat /\ q[i].len \in Nat /\ q[i + 1].len \in Nat
    BY <1>4, <1>8, <2>2
  <2>5. CASE i < j
    <3>1. u[i - 1] = t[i - 1] /\ p[i] = q[i]
      BY <1>1, <1>10, <2>5
    <3> QED BY <1>1, <2>1, <2>3, <2>5, <3>1
  <2>6. CASE i = j
    <3>1. u[i - 1] = t[i - 1] /\ p[i] = q[i + 1]
      BY <1>1, <1>10, <2>6
    <3>2. t[i + 1] - q[i].len = t[i - 1] + q[i + 1].len
      <4> DEFINE a == t[i - 1]
                 b == t[i]
                 c == t[i + 1]
                 k == q[i].len
                 l == q[i + 1].len
      <4>1. a \in Nat /\ b \in Nat /\ c \in Nat /\ k \in Nat /\ l \in Nat /\ b = a + k /\ c = b + l
        BY <2>3, <2>4
      <4> HIDE DEF a, b, c, k, l
      <4>2. c - k = a + l
        BY <4>1
      <4> QED BY <4>2 DEF a, c, k, l
    <3>3. u[i] = t[i + 1] - q[j].len
      BY <2>1, <2>6, <3>1, <3>2
    <3> QED BY <1>1, <2>6, <3>3
  <2>7. CASE i > j
    <3>1. u[i - 1] = t[(i - 1) + 1] - q[j].len /\ p[i] = q[i + 1] /\ (i - 1) + 1 = i
      BY <1>1, <1>10, <2>7
    <3>2. q[j].len \in Nat
      BY <1>1, <1>8
    <3>3. (t[i] - q[j].len) + q[i + 1].len = t[i + 1] - q[j].len
      <4> DEFINE b == t[i]
                 c == t[i + 1]
                 k == q[j].len
                 l == q[i + 1].len
      <4>1. b \in Nat /\ c \in Nat /\ k \in Nat /\ l \in Nat /\ c = b + l
        BY <2>3, <2>4, <3>2
      <4> HIDE DEF b, c, k, l
      <4>2. (b - k) + l = c - k
        BY <4>1
      <4> QED BY <4>2 DEF b, c, k, l
    <3>4. u[i] = t[i + 1] - q[j].len
      BY <2>1, <3>1, <3>3
    <3> QED BY <1>1, <2>7, <3>4
  <2> QED BY <1>1, <2>5, <2>6, <2>7
<1>11. n - 1 \in G
  <2> HIDE DEF G
  <2>1. \A i \in 0..(n - 1) : i \in G
    BY <1>1, <1>9, <1>10, FromZero
  <2> QED BY <1>1, <2>1
<1>12. u[n - 1] = IF n - 1 < j THEN t[n - 1] ELSE t[n] - q[j].len
  BY <1>1, <1>11
<1>13. t[n] = t[n - 1] + q[n].len /\ t[n - 1] \in Nat /\ t[n] \in Nat /\ q[n].len \in Nat
  BY <1>1, <1>3, <1>4, <1>8
<1>14. n - 1 < j => j = n
  BY <1>1
<1> QED BY <1>2, <1>5, <1>8, <1>12, <1>13, <1>14

(* The sum depends on the lengths only.                                     *)
LEMMA BytesSame ==
  ASSUME NEW S, Sized(S), NEW q \in Seq(S), NEW p \in Seq(S), Len(p) = Len(q),
         \A i \in 1..Len(q) : p[i].len = q[i].len
  PROVE  Bytes(p) = Bytes(q)
<1>1. DOMAIN p = 1..Len(q) /\ DOMAIN q = 1..Len(q)
  OBVIOUS
<1>2. PICK t : Running(q, DOMAIN q, t) /\ Bytes(q) = t[Len(q)]
  BY BytesAtRuns DEF Bytes
<1>3. Running(p, DOMAIN p, t)
  BY <1>1, <1>2 DEF Running
<1>4. BytesAt(p, DOMAIN p) = t[Len(p)]
  BY <1>3, BytesAtIs
<1> QED BY <1>2, <1>4 DEF Bytes

(* What is left of the first i items.                                       *)
Leaving(S, q, I, r) ==
  /\ r \in [0..Len(q) -> Seq(S)] /\ r[0] = <<>>
  /\ \A i \in 1..Len(q) : r[i] = IF i \in I THEN r[i - 1] ELSE Append(r[i - 1], q[i])

LEMMA WithoutLeaves ==
  ASSUME NEW S, NEW q \in Seq(S), NEW I
  PROVE  \E r : Leaving(S, q, I, r) /\ Without(q, I) = r[Len(q)]
<1> DEFINE n == Len(q)
           V == Seq(S)
           v == <<>>
           Step(s, i) == IF i \in I THEN s ELSE Append(s, q[i])
           g == [i \in 1..n |-> [s \in V |-> Step(s, i)]]
           Left(r) == [i \in 0..n |-> IF i = 0 THEN v ELSE Step(r[i - 1], i)]
           T == CHOOSE r : r = Left(r)
<1>1. n \in Nat /\ v \in V
  OBVIOUS
<1>2. ASSUME NEW i \in 1..n, NEW s \in V PROVE Step(s, i) \in V
  <2>1. q[i] \in S
    OBVIOUS
  <2>2. Append(s, q[i]) \in V
    BY <2>1, AppendProperties
  <2> QED BY <2>2
<1>3. Without(q, I) = T[n]
  BY DEF Without
<1>4. ASSUME NEW r, r \in [0..n -> V], r[0] = v, \A i \in 1..n : r[i] = Step(r[i - 1], i)
      PROVE  Leaving(S, q, I, r)
  BY <1>4 DEF Leaving
<1> HIDE DEF v, V, Step
<1>5. g \in [1..n -> [V -> V]]
  BY <1>2
<1>6. PICK f \in [0..n -> V] : f[0] = v /\ \A i \in 1..n : f[i] = g[i][f[i - 1]]
  <2> HIDE DEF g, n
  <2>1. Recursion(n, V, v, g)
    BY <1>1, <1>5, RecursionFromZero
  <2> QED BY <2>1 DEF Recursion
<1>7. ASSUME NEW i \in 1..n PROVE f[i] = Step(f[i - 1], i)
  <2>1. i - 1 \in 0..n
    BY <1>1
  <2>2. f[i - 1] \in V
    BY <1>6, <2>1
  <2> QED BY <1>6, <2>2
<1>8. f = Left(f)
  <2>1. \A i \in 0..n : f[i] = Left(f)[i]
    BY <1>1, <1>6, <1>7
  <2>2. f = [i \in 0..n |-> f[i]]
    OBVIOUS
  <2> QED BY <2>1, <2>2
<1>9. T = Left(T)
  <2> HIDE DEF Left
  <2> QED BY <1>8
<1>10. DOMAIN T = 0..n /\ T[0] = v /\ \A i \in 1..n : T[i] = Step(T[i - 1], i)
  <2> HIDE DEF T
  <2>1. DOMAIN T = 0..n /\ \A i \in 0..n : T[i] = Left(T)[i]
    BY <1>9
  <2>2. \A i \in 1..n : i \in 0..n /\ i # 0
    BY <1>1
  <2> QED BY <1>1, <2>1, <2>2
<1>11. \A i \in 0..n : T[i] \in V
  <2> DEFINE G == {i \in 0..n : T[i] \in V}
  <2> HIDE DEF T
  <2>1. 0 \in G
    BY <1>1, <1>10
  <2>2. ASSUME NEW i \in 1..n, i - 1 \in G PROVE i \in G
    BY <1>1, <1>2, <1>10, <2>2
  <2>3. \A i \in 0..n : i \in G
    <3> HIDE DEF G
    <3> QED BY <1>1, <2>1, <2>2, FromZero
  <2> QED BY <2>3
<1>12. T \in [0..n -> V]
  <2>1. T = [i \in DOMAIN T |-> T[i]]
    BY <1>9
  <2> HIDE DEF T
  <2> QED BY <1>10, <1>11, <2>1
<1>13. Leaving(S, q, I, T)
  <2> HIDE DEF T
  <2> QED BY <1>4, <1>10, <1>12
<1> HIDE DEF T
<1> QED BY <1>3, <1>13

LEMMA WithoutIn ==
  ASSUME NEW S, NEW q \in Seq(S), NEW I
  PROVE  Without(q, I) \in Seq(S)
<1>1. PICK r : Leaving(S, q, I, r) /\ Without(q, I) = r[Len(q)]
  BY WithoutLeaves
<1>2. Len(q) \in 0..Len(q)
  OBVIOUS
<1> QED BY <1>1, <1>2 DEF Leaving

(* Nothing leaves when no position is in I.                                 *)
LEMMA WithoutNone ==
  ASSUME NEW S, NEW q \in Seq(S), NEW I, \A i \in 1..Len(q) : i \notin I
  PROVE  Without(q, I) = q
<1>1. PICK r : Leaving(S, q, I, r) /\ Without(q, I) = r[Len(q)]
  BY WithoutLeaves
<1> DEFINE n == Len(q)
           Prefix(s, i) == Len(s) = i /\ \A k \in 1..i : s[k] = q[k]
           G == {i \in 0..n : Prefix(r[i], i)}
<1>2. n \in Nat
  OBVIOUS
<1>3. 0 \in G
  BY <1>1, <1>2 DEF Leaving
<1>4. ASSUME NEW i \in 1..n, i - 1 \in G PROVE i \in G
  <2>1. r[i] = Append(r[i - 1], q[i])
    BY <1>1 DEF Leaving
  <2>2. r[i - 1] \in Seq(S) /\ q[i] \in S /\ i - 1 \in Nat
    BY <1>1, <1>2 DEF Leaving
  <2>3. Prefix(r[i - 1], i - 1)
    BY <1>4
  <2>4. Len(r[i]) = i
    BY <2>1, <2>2, <2>3
  <2>5. ASSUME NEW k \in 1..i PROVE r[i][k] = q[k]
    BY <2>1, <2>2, <2>3
  <2> QED BY <1>2, <2>4, <2>5
<1>5. n \in G
  <2> HIDE DEF G
  <2>1. \A i \in 0..n : i \in G
    BY <1>2, <1>3, <1>4, FromZero
  <2> QED BY <1>2, <2>1
<1>6. r[n] \in Seq(S) /\ Prefix(r[n], n)
  BY <1>1, <1>2, <1>5 DEF Leaving
<1>7. r[n] = q
  <2> DEFINE s == r[n]
  <2>1. s \in Seq(S) /\ Len(s) = Len(q) /\ \A k \in 1..Len(q) : s[k] = q[k]
    BY <1>6
  <2> HIDE DEF s
  <2>2. s = q
    BY <2>1, SeqEqual
  <2> QED BY <2>2 DEF s
<1> QED BY <1>1, <1>7

(* What is left has the bytes that did not go.                              *)
LEMMA WithoutBytes ==
  ASSUME NEW S, Sized(S), NEW q \in Seq(S), NEW I
  PROVE  Bytes(Without(q, I)) = Bytes(q) - BytesAt(q, I)
<1>1. PICK r : Leaving(S, q, I, r) /\ Without(q, I) = r[Len(q)]
  BY WithoutLeaves
<1>2. PICK t : Running(q, I, t) /\ BytesAt(q, I) = t[Len(q)]
  BY BytesAtRuns
<1>3. PICK u : Running(q, DOMAIN q, u) /\ Bytes(q) = u[Len(q)]
  BY BytesAtRuns DEF Bytes
<1> DEFINE n == Len(q)
           G == {i \in 0..n : Bytes(r[i]) = u[i] - t[i]}
<1>4. n \in Nat /\ DOMAIN q = 1..n
  OBVIOUS
<1>5. 0 \in G
  BY <1>1, <1>2, <1>3, <1>4, BytesOfNone DEF Leaving, Running
<1>6. ASSUME NEW i \in 1..n, i - 1 \in G PROVE i \in G
  <2>1. u[i] = u[i - 1] + q[i].len
    BY <1>3, <1>4 DEF Running
  <2>2. t[i] = IF i \in I THEN t[i - 1] + q[i].len ELSE t[i - 1]
    BY <1>2 DEF Running
  <2>3. r[i] = IF i \in I THEN r[i - 1] ELSE Append(r[i - 1], q[i])
    BY <1>1 DEF Leaving
  <2>4. i - 1 \in 0..n /\ i \in 0..n
    BY <1>4
  <2>5. u[i - 1] \in Nat /\ t[i - 1] \in Nat /\ r[i - 1] \in Seq(S)
    BY <1>1, <1>2, <1>3, <2>4 DEF Running, Leaving
  <2>6. q[i] \in S /\ q[i].len \in Nat
    BY <1>4 DEF Sized
  <2>7. Bytes(r[i - 1]) = u[i - 1] - t[i - 1]
    BY <1>6
  <2>8. Bytes(Append(r[i - 1], q[i])) = Bytes(r[i - 1]) + q[i].len
    BY <2>5, <2>6, BytesAppend
  <2>9. CASE i \in I
    <3>1. t[i] = t[i - 1] + q[i].len /\ r[i] = r[i - 1]
      BY <2>2, <2>3, <2>9
    <3>2. u[i] - t[i] = u[i - 1] - t[i - 1]
      BY <2>1, <2>5, <2>6, <3>1
    <3> QED BY <2>4, <2>7, <3>1, <3>2
  <2>10. CASE i \notin I
    <3>1. t[i] = t[i - 1] /\ r[i] = Append(r[i - 1], q[i])
      BY <2>2, <2>3, <2>10
    <3>2. u[i] - t[i] = (u[i - 1] - t[i - 1]) + q[i].len
      BY <2>1, <2>5, <2>6, <3>1
    <3> QED BY <2>4, <2>7, <2>8, <3>1, <3>2
  <2> QED BY <2>9, <2>10
<1>7. n \in G
  <2> HIDE DEF G
  <2>1. \A i \in 0..n : i \in G
    BY <1>4, <1>5, <1>6, FromZero
  <2> QED BY <1>4, <2>1
<1> QED BY <1>1, <1>2, <1>3, <1>7

(* What an outbox holds.                                                    *)
Kept == [id : {m.id : m \in Stored}, type : {m.type : m \in Stored}, len : Nat,
         pending : {"queued", "transmitted", "acknowledged"}, old : BOOLEAN]

LEMMA KeptIsSized == Sized(Kept)
BY DEF Sized, Kept

(* The first position of an outbox where something holds is one of it.      *)
LEMMA FirstIsThere ==
  ASSUME NEW q \in Seq(Kept), NEW I \in SUBSET (1..Len(q)), NEW i,
         i = (IF I = {} THEN 0 ELSE Min(I)), i # 0
  PROVE  i \in DOMAIN q /\ i \in I
<1>1. I \in SUBSET Nat /\ I # {}
  OBVIOUS
<1>2. Min(I) \in I
  BY <1>1, MinIsLeast
<1> QED BY <1>2

LEMMA ItemEntered ==
  ASSUME NEW q \in Seq(Kept), NEW x \in Kept
  PROVE  Append(q, x) \in Seq(Kept) /\ Bytes(Append(q, x)) = Bytes(q) + x.len
BY KeptIsSized, BytesAppend

LEMMA ItemRemoved ==
  ASSUME NEW q \in Seq(Kept), NEW i \in DOMAIN q
  PROVE  /\ RemoveAt(q, i) \in Seq(Kept)
         /\ Bytes(RemoveAt(q, i)) = Bytes(q) - q[i].len
<1>1. RemoveAt(q, i) = DeleteItem(q, i)
  BY DEF DeleteItem
<1> DEFINE p == DeleteItem(q, i)
<1>2. /\ p \in Seq(Kept) /\ Len(p) = Len(q) - 1
      /\ \A k \in 1..(Len(q) - 1) : p[k] = q[IF k < i THEN k ELSE k + 1]
  BY DeleteItemLeaves
<1>3. \A k \in 1..(Len(q) - 1) : p[k] = IF k < i THEN q[k] ELSE q[k + 1]
  <2> HIDE DEF p
  <2> QED BY <1>2
<1>4. Bytes(p) = Bytes(q) - q[i].len
  <2> HIDE DEF p
  <2> QED BY <1>2, <1>3, KeptIsSized, BytesRemoved
<1> QED BY <1>1, <1>2, <1>4

(* An item that changes keeps its length.                                   *)
LEMMA ItemChanged ==
  ASSUME NEW q \in Seq(Kept), NEW p, DOMAIN p = 1..Len(q), p = [i \in DOMAIN p |-> p[i]],
         \A i \in 1..Len(q) : p[i] \in Kept /\ p[i].len = q[i].len
  PROVE  p \in Seq(Kept) /\ Bytes(p) = Bytes(q)
<1>1. Len(q) \in Nat
  OBVIOUS
<1>2. p \in [1..Len(q) -> Kept]
  OBVIOUS
<1>3. p \in Seq(Kept) /\ Len(p) = Len(q)
  BY <1>1, <1>2, SeqDef
<1> QED BY <1>3, KeptIsSized, BytesSame

LEMMA SomeLeft ==
  ASSUME NEW q \in Seq(Kept), NEW I
  PROVE  /\ Without(q, I) \in Seq(Kept)
         /\ Bytes(Without(q, I)) = Bytes(q) - BytesAt(q, I)
         /\ BytesAt(q, I) \in Nat /\ Bytes(q) \in Nat
BY KeptIsSized, WithoutIn, WithoutBytes, BytesNat

-----------------------------------------------------------------------------
(* OutboxStore and CustomOutbox, each with its own copy of the operators.   *)

LEMMA SameOperators ==
  /\ \A q : Store!Bytes(q) = Bytes(q) /\ Cleared!Bytes(q) = Bytes(q)
  /\ \A q, I : /\ Store!BytesAt(q, I) = BytesAt(q, I) /\ Cleared!BytesAt(q, I) = BytesAt(q, I)
               /\ Store!Without(q, I) = Without(q, I) /\ Cleared!Without(q, I) = Without(q, I)
  /\ \A q, i : Store!DeleteItem(q, i) = DeleteItem(q, i) /\ Cleared!RemoveAt(q, i) = RemoveAt(q, i)
  /\ \A q, id : Store!Get(q, id) = Get(q, id) /\ Cleared!Get(q, id) = Get(q, id)
<1>1. \A q : Store!Bytes(q) = Bytes(q) /\ Cleared!Bytes(q) = Bytes(q)
  BY DEF Store!Bytes, Cleared!Bytes, Bytes, Store!BytesAt, Cleared!BytesAt, BytesAt
<1>2. \A q, I : Store!BytesAt(q, I) = BytesAt(q, I) /\ Cleared!BytesAt(q, I) = BytesAt(q, I)
  BY DEF Store!BytesAt, Cleared!BytesAt, BytesAt
<1>3. \A q, I : Store!Without(q, I) = Without(q, I) /\ Cleared!Without(q, I) = Without(q, I)
  BY DEF Store!Without, Cleared!Without, Without
<1>4. \A q, i : Store!DeleteItem(q, i) = DeleteItem(q, i) /\ Cleared!RemoveAt(q, i) = RemoveAt(q, i)
  BY DEF Store!DeleteItem, DeleteItem, Store!RemoveAt, Cleared!RemoveAt, RemoveAt
<1>5. \A q, id : Store!Get(q, id) = Get(q, id) /\ Cleared!Get(q, id) = Get(q, id)
  BY DEF Store!Get, Cleared!Get, Get, Store!SelectInSeq, Cleared!SelectInSeq, SelectInSeq,
         Store!Min, Cleared!Min, Min
<1> QED BY <1>1, <1>2, <1>3, <1>4, <1>5

(* The size of the outbox of the library is the sum; that of the emptied    *)
(* one is not less.                                                         *)
StoreInv == items \in Seq(Kept) /\ size = Bytes(items)
ClearedInv == emptied \in Seq(Kept) /\ emptiedSize \in Nat /\ emptiedSize >= Bytes(emptied)

LEMMA QueuedItem ==
  ASSUME NEW id, NEW type, NEW len, NEW old
  PROVE  [[id |-> id, type |-> type, len |-> len, pending |-> "new", old |-> old]
             EXCEPT !.pending = "queued"]
         = [id |-> id, type |-> type, len |-> len, pending |-> "queued", old |-> old]
OBVIOUS

LEMMA StoreLeaves ==
  ASSUME StoreInv, NEW i \in DOMAIN items, Store!Leaves(i)
  PROVE  StoreInv'
<1>1. items' = RemoveAt(items, i) /\ size' = size - items[i].len
  BY SameOperators DEF Store!Leaves, DeleteItem
<1>2. /\ RemoveAt(items, i) \in Seq(Kept)
      /\ Bytes(RemoveAt(items, i)) = Bytes(items) - items[i].len
  BY ItemRemoved DEF StoreInv
<1> QED BY <1>1, <1>2 DEF StoreInv

LEMMA StoreChanges ==
  ASSUME StoreInv, DOMAIN items' = 1..Len(items), items' = [i \in DOMAIN items' |-> items'[i]],
         \A i \in 1..Len(items) : items'[i] \in Kept /\ items'[i].len = items[i].len,
         UNCHANGED size
  PROVE  StoreInv'
<1> DEFINE p == items'
<1>1. DOMAIN p = 1..Len(items) /\ p = [i \in DOMAIN p |-> p[i]]
      /\ \A i \in 1..Len(items) : p[i] \in Kept /\ p[i].len = items[i].len
  OBVIOUS
<1> HIDE DEF p
<1>2. p \in Seq(Kept) /\ Bytes(p) = Bytes(items)
  BY <1>1, ItemChanged DEF StoreInv
<1>3. items' \in Seq(Kept) /\ Bytes(items') = Bytes(items)
  BY <1>2 DEF p
<1> QED BY <1>3 DEF StoreInv

LEMMA StoreStep == ASSUME StoreInv, Store!Next PROVE StoreInv'
<1>0. items \in Seq(Kept) /\ DOMAIN items = 1..Len(items) /\ size = Bytes(items)
  BY DEF StoreInv
<1>00. \A i \in 1..Len(items) : items[i] \in Kept
  BY <1>0
<1>1. ASSUME NEW m \in Stored, Store!Put(m) PROVE StoreInv'
  <2> DEFINE x == [Store!Item(m) EXCEPT !.pending = "queued"]
  <2>0. x = [id |-> m.id, type |-> m.type, len |-> m.len, pending |-> "queued", old |-> FALSE]
    <3> DEFINE i == m.id
               t == m.type
               l == m.len
               f == FALSE
    <3>1. Store!Item(m) = [id |-> i, type |-> t, len |-> l, pending |-> "new", old |-> f]
      BY DEF Store!Item
    <3> HIDE DEF i, t, l, f
    <3>2. x = [id |-> i, type |-> t, len |-> l, pending |-> "queued", old |-> f]
      BY <3>1, QueuedItem
    <3> QED BY <3>2 DEF i, t, l, f
  <2>1. x \in Kept /\ x.len = m.len
    <3>1. m.id \in {s.id : s \in Stored} /\ m.type \in {s.type : s \in Stored} /\ m.len \in Nat
      BY StoredAssumption
    <3> HIDE DEF x
    <3> QED BY <2>0, <3>1 DEF Kept
  <2>2. items' = Append(items, x) /\ size' = size + m.len
    BY <1>1 DEF Store!Put, Store!Enqueue
  <2> HIDE DEF x
  <2>3. Append(items, x) \in Seq(Kept) /\ Bytes(Append(items, x)) = Bytes(items) + x.len
    BY <1>0, <2>1, ItemEntered
  <2> QED BY <1>0, <2>1, <2>2, <2>3 DEF StoreInv
<1>2. ASSUME NEW i, Store!Drop(i) PROVE StoreInv'
  BY <1>2, StoreLeaves DEF Store!Drop
<1>3. ASSUME NEW i, Store!Ages(i) PROVE StoreInv'
  <2>1. i \in 1..Len(items) /\ items' = [items EXCEPT ![i].old = TRUE] /\ UNCHANGED size
    BY <1>0, <1>3 DEF Store!Ages
  <2>2. DOMAIN items' = 1..Len(items) /\ items' = [k \in DOMAIN items' |-> items'[k]]
    BY <1>0, <2>1
  <2>3. ASSUME NEW k \in 1..Len(items) PROVE items'[k] \in Kept /\ items'[k].len = items[k].len
    BY <1>0, <1>00, <2>1 DEF Kept
  <2> QED BY <2>1, <2>2, <2>3, StoreChanges
<1>4. ASSUME NEW id, NEW type, Store!DropInitiator(id, type) PROVE StoreInv'
  <2> DEFINE I == {i \in 1..Len(items) : items[i].id = id /\ items[i].type = type}
             i == Store!Initiator(items, id, type)
  <2>1. i = IF I = {} THEN 0 ELSE Min(I)
    BY DEF Store!Initiator, Store!SelectInSeq, Store!Min, Min
  <2>2. i # 0 /\ Store!Leaves(i)
    BY <1>4 DEF Store!DropInitiator, Store!Leaves
  <2>3. I \in SUBSET (1..Len(items))
    OBVIOUS
  <2> HIDE DEF I, i
  <2>4. i \in DOMAIN items
    BY <1>0, <2>1, <2>2, <2>3, FirstIsThere
  <2> QED BY <2>2, <2>4, StoreLeaves
<1>5. ASSUME NEW id, NEW pending \in Store!States, Store!Mark(id, pending) PROVE StoreInv'
  <2>1. items' = [i \in DOMAIN items |-> IF i = Store!Get(items, id)
                                           THEN [items[i] EXCEPT !.pending = pending] ELSE items[i]]
        /\ UNCHANGED size
    BY <1>5 DEF Store!Mark, Store!SetPending
  <2>2. DOMAIN items' = 1..Len(items) /\ items' = [k \in DOMAIN items' |-> items'[k]]
    BY <1>0, <2>1
  <2>3. ASSUME NEW k \in 1..Len(items) PROVE items'[k] \in Kept /\ items'[k].len = items[k].len
    BY <1>0, <1>00, <2>1 DEF Kept, Store!States
  <2> QED BY <2>1, <2>2, <2>3, StoreChanges
<1>6. ASSUME NEW id, Store!Refresh(id) PROVE StoreInv'
  <2> DEFINE i == Store!Get(items, id)
  <2>1. items' = [items EXCEPT ![i].old = FALSE] /\ UNCHANGED size
    BY <1>6 DEF Store!Refresh
  <2> HIDE DEF i
  <2>2. DOMAIN items' = 1..Len(items) /\ items' = [k \in DOMAIN items' |-> items'[k]]
    BY <1>0, <2>1
  <2>3. ASSUME NEW k \in 1..Len(items) PROVE items'[k] \in Kept /\ items'[k].len = items[k].len
    BY <1>0, <1>00, <2>1 DEF Kept
  <2> QED BY <2>1, <2>2, <2>3, StoreChanges
<1>7. ASSUME Store!ExpireOne PROVE StoreInv'
  <2> DEFINE I == {i \in 1..Len(items) : items[i].old}
             i == Store!SelectInSeq(items, LAMBDA item : item.old)
  <2>1. i = IF I = {} THEN 0 ELSE Min(I)
    BY DEF Store!SelectInSeq, Store!Min, Min
  <2>2. i # 0 /\ Store!Leaves(i)
    BY <1>7 DEF Store!ExpireOne, Store!Leaves
  <2>3. I \in SUBSET (1..Len(items))
    OBVIOUS
  <2> HIDE DEF I, i
  <2>4. i \in DOMAIN items
    BY <1>0, <2>1, <2>2, <2>3, FirstIsThere
  <2> QED BY <2>2, <2>4, StoreLeaves
<1>8. ASSUME Store!ExpireAll PROVE StoreInv'
  <2> DEFINE old == {i \in DOMAIN items : items[i].old}
  <2>1. items' = Without(items, old) /\ size' = size - BytesAt(items, old)
    BY <1>8, SameOperators DEF Store!ExpireAll
  <2> HIDE DEF old
  <2>2. /\ Without(items, old) \in Seq(Kept)
        /\ Bytes(Without(items, old)) = Bytes(items) - BytesAt(items, old)
    BY <1>0, SomeLeft
  <2> QED BY <1>0, <2>1, <2>2 DEF StoreInv
<1>9. ASSUME Store!Clear PROVE StoreInv'
  <2>1. items' = <<>> /\ size' = size - Bytes(items)
    BY <1>9, SameOperators DEF Store!Clear
  <2>2. Bytes(items) \in Nat
    BY <1>0, KeptIsSized, BytesNat
  <2>3. size' = 0
    BY <1>0, <2>1, <2>2
  <2> QED BY <2>1, <2>3, BytesOfNone DEF StoreInv
<1> QED BY <1>1, <1>2, <1>3, <1>4, <1>5, <1>6, <1>7, <1>8, <1>9 DEF Store!Next

LEMMA ClearedLeaves ==
  ASSUME ClearedInv, NEW i \in DOMAIN emptied,
         emptied' = RemoveAt(emptied, i), emptiedSize' = emptiedSize - emptied[i].len
  PROVE  ClearedInv'
<1>1. /\ RemoveAt(emptied, i) \in Seq(Kept)
      /\ Bytes(RemoveAt(emptied, i)) = Bytes(emptied) - emptied[i].len
  BY ItemRemoved DEF ClearedInv
<1>2. Bytes(emptied) \in Nat /\ Bytes(RemoveAt(emptied, i)) \in Nat /\ emptied[i].len \in Nat
  <2>1. emptied[i] \in Kept
    BY DEF ClearedInv
  <2> QED BY <1>1, <2>1, KeptIsSized, BytesNat DEF ClearedInv, Kept
<1>3. emptiedSize \in Nat /\ emptiedSize >= Bytes(emptied)
  BY DEF ClearedInv
<1>4. emptiedSize' \in Nat /\ emptiedSize' >= Bytes(emptied')
  BY <1>1, <1>2, <1>3
<1> QED BY <1>1, <1>4 DEF ClearedInv

LEMMA ClearedChanges ==
  ASSUME ClearedInv, DOMAIN emptied' = 1..Len(emptied),
         emptied' = [i \in DOMAIN emptied' |-> emptied'[i]],
         \A i \in 1..Len(emptied) : emptied'[i] \in Kept /\ emptied'[i].len = emptied[i].len,
         UNCHANGED emptiedSize
  PROVE  ClearedInv'
<1> DEFINE p == emptied'
<1>1. DOMAIN p = 1..Len(emptied) /\ p = [i \in DOMAIN p |-> p[i]]
      /\ \A i \in 1..Len(emptied) : p[i] \in Kept /\ p[i].len = emptied[i].len
  OBVIOUS
<1> HIDE DEF p
<1>2. p \in Seq(Kept) /\ Bytes(p) = Bytes(emptied)
  BY <1>1, ItemChanged DEF ClearedInv
<1>3. emptied' \in Seq(Kept) /\ Bytes(emptied') = Bytes(emptied)
  BY <1>2 DEF p
<1> QED BY <1>3 DEF ClearedInv

LEMMA ClearedStep == ASSUME ClearedInv, Cleared!Next PROVE ClearedInv'
<1>0. /\ emptied \in Seq(Kept) /\ DOMAIN emptied = 1..Len(emptied)
      /\ emptiedSize \in Nat /\ emptiedSize >= Bytes(emptied) /\ Bytes(emptied) \in Nat
  BY KeptIsSized, BytesNat DEF ClearedInv
<1>00. \A i \in 1..Len(emptied) : emptied[i] \in Kept
  BY <1>0
<1>1. ASSUME NEW m \in Whole, Cleared!EnqueueMessage(m) PROVE ClearedInv'
  <2> DEFINE x == [id |-> m.id, type |-> m.type, len |-> m.len, pending |-> "queued", old |-> FALSE]
  <2>1. x \in Kept /\ x.len = m.len /\ m.len \in Nat
    <3>1. PICK s \in Stored : m = [id |-> s.id, type |-> s.type, len |-> s.len, rest |-> 0]
      BY DEF Whole
    <3>2. m.id = s.id /\ m.type = s.type /\ m.len = s.len
      BY <3>1
    <3>3. m.id \in {r.id : r \in Stored} /\ m.type \in {r.type : r \in Stored} /\ m.len \in Nat
      BY <3>2, StoredAssumption
    <3> QED BY <3>3 DEF Kept
  <2>2. emptied' = Append(emptied, x) /\ emptiedSize' = emptiedSize + m.len
    BY <1>1 DEF Cleared!EnqueueMessage
  <2> HIDE DEF x
  <2>3. Append(emptied, x) \in Seq(Kept) /\ Bytes(Append(emptied, x)) = Bytes(emptied) + x.len
    BY <1>0, <2>1, ItemEntered
  <2>4. emptiedSize' \in Nat /\ emptiedSize' >= Bytes(emptied')
    BY <1>0, <2>1, <2>2, <2>3
  <2> QED BY <2>2, <2>3, <2>4 DEF ClearedInv
<1>2. ASSUME NEW i, Cleared!EraseHandle(i) PROVE ClearedInv'
  BY <1>2, ClearedLeaves, SameOperators DEF Cleared!EraseHandle
<1>3. ASSUME NEW i, Cleared!TimePasses(i) PROVE ClearedInv'
  <2>1. i \in 1..Len(emptied) /\ emptied' = [emptied EXCEPT ![i].old = TRUE] /\ UNCHANGED emptiedSize
    BY <1>0, <1>3 DEF Cleared!TimePasses
  <2>2. DOMAIN emptied' = 1..Len(emptied) /\ emptied' = [k \in DOMAIN emptied' |-> emptied'[k]]
    BY <1>0, <2>1
  <2>3. ASSUME NEW k \in 1..Len(emptied)
        PROVE  emptied'[k] \in Kept /\ emptied'[k].len = emptied[k].len
    BY <1>0, <1>00, <2>1 DEF Kept
  <2> QED BY <2>1, <2>2, <2>3, ClearedChanges
<1>4. ASSUME NEW id, NEW type, Cleared!EraseMessage(id, type) PROVE ClearedInv'
  <2> DEFINE I == {i \in 1..Len(emptied) : emptied[i].id = id /\ emptied[i].type = type}
             i == Cleared!SelectInSeq(emptied, LAMBDA item : item.id = id /\ item.type = type)
  <2>1. i = IF I = {} THEN 0 ELSE Min(I)
    BY DEF Cleared!SelectInSeq, Cleared!Min, Min
  <2>2. i # 0 /\ emptied' = RemoveAt(emptied, i) /\ emptiedSize' = emptiedSize - emptied[i].len
    BY <1>4, SameOperators DEF Cleared!EraseMessage, Cleared!EraseFirst
  <2>3. I \in SUBSET (1..Len(emptied))
    OBVIOUS
  <2> HIDE DEF I, i
  <2>4. i \in DOMAIN emptied
    BY <1>0, <2>1, <2>2, <2>3, FirstIsThere
  <2> QED BY <2>2, <2>4, ClearedLeaves
<1>5. ASSUME NEW id, NEW pending \in {"queued", "transmitted", "acknowledged"},
             Cleared!SetState(id, pending)
      PROVE  ClearedInv'
  <2> DEFINE i == Cleared!Get(emptied, id)
  <2>1. emptied' = [emptied EXCEPT ![i].pending = pending] /\ UNCHANGED emptiedSize
    BY <1>5 DEF Cleared!SetState
  <2> HIDE DEF i
  <2>2. DOMAIN emptied' = 1..Len(emptied) /\ emptied' = [k \in DOMAIN emptied' |-> emptied'[k]]
    BY <1>0, <2>1
  <2>3. ASSUME NEW k \in 1..Len(emptied)
        PROVE  emptied'[k] \in Kept /\ emptied'[k].len = emptied[k].len
    BY <1>0, <1>00, <2>1 DEF Kept
  <2> QED BY <2>1, <2>2, <2>3, ClearedChanges
<1>6. ASSUME NEW id, Cleared!SetTick(id) PROVE ClearedInv'
  <2> DEFINE i == Cleared!Get(emptied, id)
  <2>1. emptied' = [emptied EXCEPT ![i].old = FALSE] /\ UNCHANGED emptiedSize
    BY <1>6 DEF Cleared!SetTick
  <2> HIDE DEF i
  <2>2. DOMAIN emptied' = 1..Len(emptied) /\ emptied' = [k \in DOMAIN emptied' |-> emptied'[k]]
    BY <1>0, <2>1
  <2>3. ASSUME NEW k \in 1..Len(emptied)
        PROVE  emptied'[k] \in Kept /\ emptied'[k].len = emptied[k].len
    BY <1>0, <1>00, <2>1 DEF Kept
  <2> QED BY <2>1, <2>2, <2>3, ClearedChanges
<1>7. ASSUME Cleared!DeleteSingleExpired PROVE ClearedInv'
  <2> DEFINE I == {i \in 1..Len(emptied) : emptied[i].old}
             i == Cleared!SelectInSeq(emptied, LAMBDA item : item.old)
  <2>1. i = IF I = {} THEN 0 ELSE Min(I)
    BY DEF Cleared!SelectInSeq, Cleared!Min, Min
  <2>2. i # 0 /\ emptied' = RemoveAt(emptied, i) /\ emptiedSize' = emptiedSize - emptied[i].len
    BY <1>7, SameOperators DEF Cleared!DeleteSingleExpired, Cleared!EraseFirst
  <2>3. I \in SUBSET (1..Len(emptied))
    OBVIOUS
  <2> HIDE DEF I, i
  <2>4. i \in DOMAIN emptied
    BY <1>0, <2>1, <2>2, <2>3, FirstIsThere
  <2> QED BY <2>2, <2>4, ClearedLeaves
<1>8. ASSUME Cleared!DeleteExpired PROVE ClearedInv'
  <2> DEFINE old == {i \in DOMAIN emptied : emptied[i].old}
  <2>1. emptied' = Without(emptied, old) /\ emptiedSize' = emptiedSize - BytesAt(emptied, old)
    BY <1>8, SameOperators DEF Cleared!DeleteExpired
  <2> HIDE DEF old
  <2>2. /\ Without(emptied, old) \in Seq(Kept)
        /\ Bytes(Without(emptied, old)) = Bytes(emptied) - BytesAt(emptied, old)
        /\ BytesAt(emptied, old) \in Nat
    BY <1>0, SomeLeft
  <2>3. Bytes(Without(emptied, old)) \in Nat
    BY <2>2, KeptIsSized, BytesNat
  <2>4. emptiedSize' \in Nat /\ emptiedSize' >= Bytes(emptied')
    BY <1>0, <2>1, <2>2, <2>3
  <2> QED BY <2>1, <2>2, <2>4 DEF ClearedInv
<1>9. ASSUME Cleared!ClearQueue PROVE ClearedInv'
  <2>1. emptied' = <<>> /\ emptiedSize' = emptiedSize
    BY <1>9 DEF Cleared!ClearQueue
  <2> QED BY <1>0, <2>1, BytesOfNone DEF ClearedInv
<1> QED BY <1>1, <1>2, <1>3, <1>4, <1>5, <1>6, <1>7, <1>8, <1>9 DEF Cleared!Next

(* Each step is one of one of the parts.                                    *)
LEMMA SizesStep ==
  ASSUME StoreInv, ClearedInv, [Next]_vars PROVE StoreInv' /\ ClearedInv'
<1>1. \/ Store!Next \/ UNCHANGED storeVars
  BY DEF Next, vars, OnlySession, OnlyOutbox
<1>2. \/ Cleared!Next \/ UNCHANGED clearedVars
  BY DEF Next, vars, OnlySession, OnlyOutbox
<1>3. StoreInv'
  BY <1>1, StoreStep DEF StoreInv, storeVars
<1>4. ClearedInv'
  BY <1>2, ClearedStep DEF ClearedInv, clearedVars
<1> QED BY <1>3, <1>4

(* The size the outbox of the library answers is that of the items there,   *)
(* after any number of calls in any order; that of the example is never     *)
(* less, even after it was emptied.                                         *)
THEOREM SizesKept == Spec => []SizeKept
<1>1. Init => StoreInv /\ ClearedInv
  BY BytesOfNone DEF Init, Store!Init, Cleared!Init, StoreInv, ClearedInv
<1>2. StoreInv /\ ClearedInv /\ [Next]_vars => (StoreInv /\ ClearedInv)'
  BY SizesStep
<1>3. StoreInv /\ ClearedInv => SizeKept
  BY SameOperators DEF StoreInv, ClearedInv, SizeKept, Store!SizeExact, Cleared!NeverTooSmall
<1> QED BY <1>1, <1>2, <1>3, PTL DEF Spec

-----------------------------------------------------------------------------
(* CustomOutbox implements OutboxStore as long as it is not emptied and its *)
(* messages are of one piece.                                               *)

LEMMA SameInLibrary ==
  /\ \A q, I : /\ Custom!Library!BytesAt(q, I) = Custom!BytesAt(q, I)
               /\ Custom!Library!Without(q, I) = Custom!Without(q, I)
  /\ \A q, i : i \in DOMAIN q => Custom!Library!DeleteItem(q, i) = Custom!RemoveAt(q, i)
  /\ \A q, id : Custom!Library!Get(q, id) = Custom!Get(q, id)
<1>1. \A q, I : Custom!Library!BytesAt(q, I) = Custom!BytesAt(q, I)
  BY DEF Custom!Library!BytesAt, Custom!BytesAt
<1>2. \A q, I : Custom!Library!Without(q, I) = Custom!Without(q, I)
  BY DEF Custom!Library!Without, Custom!Without
<1>3. \A q, i : i \in DOMAIN q => Custom!Library!DeleteItem(q, i) = Custom!RemoveAt(q, i)
  BY DEF Custom!Library!DeleteItem, Custom!Library!RemoveAt, Custom!RemoveAt
<1>4. \A q, id : Custom!Library!Get(q, id) = Custom!Get(q, id)
  BY DEF Custom!Library!Get, Custom!Get, Custom!Library!SelectInSeq, Custom!SelectInSeq,
         Custom!Library!Min, Custom!Min
<1> QED BY <1>1, <1>2, <1>3, <1>4

(* The messages of the library outbox under the mapping: the same without   *)
(* the rest, of which there is none.                                        *)
Mapped == {[id |-> m.id, type |-> m.type, len |-> m.len + m.rest] : m \in Whole}

LEMMA WholeMapped ==
  ASSUME NEW m \in Whole
  PROVE  \E s \in Mapped : s = [id |-> m.id, type |-> m.type, len |-> m.len] /\ s \in Mapped
<1>1. PICK r \in Stored : m = [id |-> r.id, type |-> r.type, len |-> r.len, rest |-> 0]
  BY DEF Whole
<1>2. m.len = r.len /\ m.rest = 0 /\ r.len \in Nat
  BY <1>1, StoredAssumption
<1>3. m.len + m.rest = m.len
  BY <1>2
<1>4. [id |-> m.id, type |-> m.type, len |-> m.len + m.rest] \in Mapped
  BY DEF Mapped
<1> QED BY <1>3, <1>4

LEMMA MappedIds ==
  /\ Custom!Library!Ids = Custom!Ids
  /\ Custom!Library!Types = Custom!Types
<1>1. Custom!Library!Ids = {s.id : s \in Mapped} /\ Custom!Library!Types = {s.type : s \in Mapped}
  BY DEF Custom!Library!Ids, Custom!Library!Types, Mapped
<1>2. Custom!Ids = {m.id : m \in Whole} /\ Custom!Types = {m.type : m \in Whole}
  BY DEF Custom!Ids, Custom!Types
<1>3. \A m \in Whole : \E s \in Mapped : s.id = m.id /\ s.type = m.type
  BY WholeMapped
<1>4. \A s \in Mapped : \E m \in Whole : s.id = m.id /\ s.type = m.type
  BY DEF Mapped
<1> QED BY <1>1, <1>2, <1>3, <1>4

LEMMA LibraryPut ==
  ASSUME NEW m \in Whole, Custom!EnqueueMessage(m)
  PROVE  \E s \in Mapped : Custom!Library!Put(s)
<1>1. PICK s \in Mapped : s = [id |-> m.id, type |-> m.type, len |-> m.len]
  BY WholeMapped
<1>2. s.id = m.id /\ s.type = m.type /\ s.len = m.len
  BY <1>1
<1> DEFINE i == m.id
           t == m.type
           l == m.len
           f == FALSE
           x == [Custom!Library!Item(s) EXCEPT !.pending = "queued"]
<1>3. Custom!Library!Item(s) = [id |-> i, type |-> t, len |-> l, pending |-> "new", old |-> f]
  BY <1>2 DEF Custom!Library!Item
<1>4. x = [id |-> i, type |-> t, len |-> l, pending |-> "queued", old |-> f]
  <2> HIDE DEF i, t, l, f
  <2> QED BY <1>3, QueuedItem
<1>5. queue' = Append(queue, x) /\ totalSize' = totalSize + s.len /\ Len(queue) < MaxItems
  <2> HIDE DEF x
  <2> QED BY <1>2, <1>4 DEF Custom!EnqueueMessage
<1>6. Custom!Library!Put(s)
  BY <1>5 DEF Custom!Library!Put, Custom!Library!Enqueue
<1> QED BY <1>6

(* Its queue stays a list of items.                                         *)
LEMMA CustomStep == ASSUME queue \in Seq(Kept), Custom!Next PROVE queue' \in Seq(Kept)
<1>0. DOMAIN queue = 1..Len(queue) /\ Len(queue) \in Nat
  OBVIOUS
<1>00. \A i \in 1..Len(queue) : queue[i] \in Kept
  OBVIOUS
<1>1. ASSUME NEW m \in Whole, Custom!EnqueueMessage(m) PROVE queue' \in Seq(Kept)
  <2> DEFINE x == [id |-> m.id, type |-> m.type, len |-> m.len, pending |-> "queued", old |-> FALSE]
  <2>1. x \in Kept
    <3>1. PICK s \in Stored : m = [id |-> s.id, type |-> s.type, len |-> s.len, rest |-> 0]
      BY DEF Whole
    <3>2. m.id = s.id /\ m.type = s.type /\ m.len = s.len
      BY <3>1
    <3>3. m.id \in {r.id : r \in Stored} /\ m.type \in {r.type : r \in Stored} /\ m.len \in Nat
      BY <3>2, StoredAssumption
    <3> QED BY <3>3 DEF Kept
  <2>2. queue' = Append(queue, x)
    BY <1>1 DEF Custom!EnqueueMessage
  <2> HIDE DEF x
  <2> QED BY <2>1, <2>2, AppendProperties
<1>2. ASSUME NEW i \in DOMAIN queue, queue' = Custom!RemoveAt(queue, i) PROVE queue' \in Seq(Kept)
  <2>1. queue' = RemoveAt(queue, i)
    BY <1>2 DEF Custom!RemoveAt, RemoveAt
  <2> QED BY <2>1, ItemRemoved
<1>3. ASSUME NEW p, DOMAIN p = 1..Len(queue), p = [i \in DOMAIN p |-> p[i]],
             \A i \in 1..Len(queue) : p[i] \in Kept, queue' = p
      PROVE  queue' \in Seq(Kept)
  <2>1. p \in [1..Len(queue) -> Kept]
    BY <1>3
  <2> QED BY <1>0, <1>3, <2>1, SeqDef
<1>4. ASSUME NEW i, NEW id, NEW pending \in {"queued", "transmitted", "acknowledged"},
             \/ Custom!TimePasses(i) \/ Custom!SetState(id, pending) \/ Custom!SetTick(id)
      PROVE  queue' \in Seq(Kept)
  <2> DEFINE j == Custom!Get(queue, id)
  <2>1. \/ queue' = [queue EXCEPT ![i].old = TRUE]
        \/ queue' = [queue EXCEPT ![j].pending = pending]
        \/ queue' = [queue EXCEPT ![j].old = FALSE]
    BY <1>4 DEF Custom!TimePasses, Custom!SetState, Custom!SetTick
  <2> HIDE DEF j
  <2>2. DOMAIN queue' = 1..Len(queue) /\ queue' = [k \in DOMAIN queue' |-> queue'[k]]
    BY <1>0, <2>1
  <2>3. ASSUME NEW k \in 1..Len(queue) PROVE queue'[k] \in Kept
    <3>1. queue[k] \in Kept /\ k \in DOMAIN queue
      BY <1>0, <1>00
    <3>2. CASE queue' = [queue EXCEPT ![i].old = TRUE]
      BY <3>1, <3>2 DEF Kept
    <3>3. CASE queue' = [queue EXCEPT ![j].pending = pending]
      BY <3>1, <3>3 DEF Kept
    <3>4. CASE queue' = [queue EXCEPT ![j].old = FALSE]
      BY <3>1, <3>4 DEF Kept
    <3> QED BY <2>1, <3>2, <3>3, <3>4
  <2> QED BY <1>3, <2>2, <2>3
<1>5. ASSUME NEW I \in SUBSET (1..Len(queue)), NEW i, i = (IF I = {} THEN 0 ELSE Min(I)),
             Custom!EraseFirst(i)
      PROVE  queue' \in Seq(Kept)
  <2>1. i # 0 /\ queue' = Custom!RemoveAt(queue, i)
    BY <1>5 DEF Custom!EraseFirst
  <2>2. i \in DOMAIN queue
    BY <1>5, <2>1, FirstIsThere
  <2> QED BY <1>2, <2>1, <2>2
<1>6. ASSUME NEW id, NEW type, Custom!EraseMessage(id, type) PROVE queue' \in Seq(Kept)
  <2> DEFINE I == {i \in 1..Len(queue) : queue[i].id = id /\ queue[i].type = type}
             i == Custom!SelectInSeq(queue, LAMBDA item : item.id = id /\ item.type = type)
  <2>1. i = IF I = {} THEN 0 ELSE Min(I)
    BY DEF Custom!SelectInSeq, Custom!Min, Min
  <2>2. I \in SUBSET (1..Len(queue)) /\ Custom!EraseFirst(i)
    BY <1>6 DEF Custom!EraseMessage
  <2> HIDE DEF I, i
  <2> QED BY <1>5, <2>1, <2>2
<1>7. ASSUME Custom!DeleteSingleExpired PROVE queue' \in Seq(Kept)
  <2> DEFINE I == {i \in 1..Len(queue) : queue[i].old}
             i == Custom!SelectInSeq(queue, LAMBDA item : item.old)
  <2>1. i = IF I = {} THEN 0 ELSE Min(I)
    BY DEF Custom!SelectInSeq, Custom!Min, Min
  <2>2. I \in SUBSET (1..Len(queue)) /\ Custom!EraseFirst(i)
    BY <1>7 DEF Custom!DeleteSingleExpired
  <2> HIDE DEF I, i
  <2> QED BY <1>5, <2>1, <2>2
<1>8. ASSUME Custom!DeleteExpired PROVE queue' \in Seq(Kept)
  <2> DEFINE old == {i \in DOMAIN queue : queue[i].old}
  <2>1. queue' = Without(queue, old)
    BY <1>8 DEF Custom!DeleteExpired, Custom!Without, Without
  <2> HIDE DEF old
  <2> QED BY <2>1, SomeLeft
<1>9. ASSUME NEW i, Custom!EraseHandle(i) PROVE queue' \in Seq(Kept)
  BY <1>2, <1>9 DEF Custom!EraseHandle
<1>10. ASSUME Custom!ClearQueue PROVE queue' \in Seq(Kept)
  BY <1>10 DEF Custom!ClearQueue
<1> QED BY <1>1, <1>4, <1>6, <1>7, <1>8, <1>9, <1>10 DEF Custom!Next

(* Every call of the one is that call of the other.                         *)
LEMMA LibraryStep ==
  ASSUME queue \in Seq(Kept), Custom!Next
  PROVE  Custom!Library!Next
<1>0. DOMAIN queue = 1..Len(queue) /\ Len(queue) \in Nat
  OBVIOUS
<1>1. ASSUME NEW m \in Whole, Custom!EnqueueMessage(m) PROVE Custom!Library!Next
  <2>1. \E s \in Mapped : Custom!Library!Put(s)
    BY <1>1, LibraryPut
  <2> QED BY <2>1 DEF Custom!Library!Next, Mapped
<1>2. ASSUME NEW i \in DOMAIN queue,
             queue' = Custom!RemoveAt(queue, i), totalSize' = totalSize - queue[i].len
      PROVE  Custom!Library!Leaves(i)
  BY <1>0, <1>2, SameInLibrary DEF Custom!Library!Leaves
<1>3. ASSUME NEW i \in 1..MaxItems, Custom!EraseHandle(i) PROVE Custom!Library!Next
  <2>1. Custom!Library!Drop(i)
    BY <1>2, <1>3 DEF Custom!EraseHandle, Custom!Library!Drop
  <2> QED BY <2>1 DEF Custom!Library!Next
<1>4. ASSUME NEW i \in 1..MaxItems, Custom!TimePasses(i) PROVE Custom!Library!Next
  <2>1. Custom!Library!Ages(i)
    BY <1>4 DEF Custom!TimePasses, Custom!Library!Ages
  <2> QED BY <2>1 DEF Custom!Library!Next
<1>5. ASSUME NEW I \in SUBSET (1..Len(queue)), NEW i, i = (IF I = {} THEN 0 ELSE Min(I)),
             Custom!EraseFirst(i)
      PROVE  Custom!Library!Leaves(i)
  <2>1. i # 0 /\ queue' = Custom!RemoveAt(queue, i) /\ totalSize' = totalSize - queue[i].len
    BY <1>5 DEF Custom!EraseFirst
  <2>2. i \in DOMAIN queue
    BY <1>5, <2>1, FirstIsThere
  <2> QED BY <1>2, <2>1, <2>2
<1>6. ASSUME NEW id \in Custom!Ids, NEW type \in Custom!Types, Custom!EraseMessage(id, type)
      PROVE  Custom!Library!Next
  <2> DEFINE I == {i \in 1..Len(queue) : queue[i].id = id /\ queue[i].type = type}
             i == Custom!SelectInSeq(queue, LAMBDA item : item.id = id /\ item.type = type)
  <2>1. i = IF I = {} THEN 0 ELSE Min(I)
    BY DEF Custom!SelectInSeq, Custom!Min, Min
  <2>2. I \in SUBSET (1..Len(queue)) /\ Custom!EraseFirst(i)
    BY <1>6 DEF Custom!EraseMessage
  <2>3. i = Custom!Library!Initiator(queue, id, type)
    BY DEF Custom!Library!Initiator, Custom!Library!SelectInSeq, Custom!Library!Min,
           Custom!SelectInSeq, Custom!Min
  <2> HIDE DEF I, i
  <2>4. Custom!Library!Leaves(i)
    BY <1>5, <2>1, <2>2
  <2>5. Custom!Library!DropInitiator(id, type)
    BY <2>3, <2>4 DEF Custom!Library!DropInitiator
  <2> QED BY <2>5, MappedIds DEF Custom!Library!Next
<1>7. ASSUME Custom!DeleteSingleExpired PROVE Custom!Library!Next
  <2> DEFINE I == {i \in 1..Len(queue) : queue[i].old}
             i == Custom!SelectInSeq(queue, LAMBDA item : item.old)
  <2>1. i = IF I = {} THEN 0 ELSE Min(I)
    BY DEF Custom!SelectInSeq, Custom!Min, Min
  <2>2. I \in SUBSET (1..Len(queue)) /\ Custom!EraseFirst(i)
    BY <1>7 DEF Custom!DeleteSingleExpired
  <2>3. i = Custom!Library!SelectInSeq(queue, LAMBDA item : item.old)
    BY DEF Custom!Library!SelectInSeq, Custom!Library!Min, Custom!SelectInSeq, Custom!Min
  <2> HIDE DEF I, i
  <2>4. Custom!Library!Leaves(i)
    BY <1>5, <2>1, <2>2
  <2>5. Custom!Library!ExpireOne
    BY <2>3, <2>4 DEF Custom!Library!ExpireOne
  <2> QED BY <2>5 DEF Custom!Library!Next
<1>8. ASSUME Custom!DeleteExpired PROVE Custom!Library!Next
  <2>1. Custom!Library!ExpireAll
    BY <1>8, SameInLibrary DEF Custom!DeleteExpired, Custom!Library!ExpireAll
  <2> QED BY <2>1 DEF Custom!Library!Next
<1>9. ASSUME NEW id \in Custom!Ids, NEW pending \in {"queued", "transmitted", "acknowledged"},
             Custom!SetState(id, pending)
      PROVE  Custom!Library!Next
  <2> DEFINE j == Custom!Get(queue, id)
             p == [i \in DOMAIN queue |-> IF i = j THEN [queue[i] EXCEPT !.pending = pending]
                                                   ELSE queue[i]]
  <2>1. queue' = [queue EXCEPT ![j].pending = pending] /\ UNCHANGED totalSize
    BY <1>9 DEF Custom!SetState
  <2>2. queue = [i \in DOMAIN queue |-> queue[i]]
    OBVIOUS
  <2>3. queue' = p
    <3> HIDE DEF j
    <3> QED BY <2>1, <2>2
  <2>4. Custom!Library!SetPending(queue, id, pending) = p
    BY SameInLibrary DEF Custom!Library!SetPending
  <2>5. Custom!Library!Mark(id, pending)
    <3> HIDE DEF p
    <3> QED BY <2>1, <2>3, <2>4 DEF Custom!Library!Mark
  <2>6. pending \in Custom!Library!States
    BY DEF Custom!Library!States
  <2> QED BY <2>5, <2>6, MappedIds DEF Custom!Library!Next
<1>10. ASSUME NEW id \in Custom!Ids, Custom!SetTick(id) PROVE Custom!Library!Next
  <2>1. Custom!Library!Refresh(id)
    BY <1>10, SameInLibrary DEF Custom!SetTick, Custom!Library!Refresh
  <2> QED BY <2>1, MappedIds DEF Custom!Library!Next
<1>11. ~Custom!ClearQueue
  BY DEF Custom!ClearQueue
<1> QED BY <1>1, <1>3, <1>4, <1>6, <1>7, <1>8, <1>9, <1>10, <1>11 DEF Custom!Next

(* The custom outbox that is not emptied makes the steps of the outbox of   *)
(* the library, item by item and with the same size, for messages of one    *)
(* piece.                                                                   *)
THEOREM CustomImplementsLibrary == Spec => ImplementsLibrary
<1>1. Init => queue \in Seq(Kept) /\ Custom!Library!Init
  BY DEF Init, Custom!Init, Custom!Library!Init
<1>2. [Next]_vars => Custom!Next \/ UNCHANGED customVars
  BY DEF Next, vars, OnlySession, OnlyOutbox
<1>3. queue \in Seq(Kept) /\ [Next]_vars => (queue \in Seq(Kept))'
  BY <1>2, CustomStep DEF customVars
<1>4. queue \in Seq(Kept) /\ [Next]_vars => [Custom!Library!Next]_(Custom!Library!vars)
  BY <1>2, LibraryStep DEF customVars, Custom!Library!vars
<1> QED BY <1>1, <1>3, <1>4, PTL DEF Spec, ImplementsLibrary, Custom!ImplementsLibrary, Custom!Library!Spec

-----------------------------------------------------------------------------
(* Retransmission: in the time that Enough asks for, nothing expires.       *)

(* How long k passes may take, and k messages sent again, one at a time.    *)
Passes(k) == k * MaxPass
Rounds(k) == k * (Period + MaxPass)

(* The line of items is in four pieces, in this order: the first message    *)
(* that waited, if it was sent again (s = 1) and is not acknowledged; u     *)
(* that still wait to be sent again; r new ones that were sent; new ones    *)
(* that were not.  Some of the new ones are acknowledged and gone.          *)
Row == [pending : {"queued", "transmitted"}, age : Nat, sent : {k \in Int : k >= -1}]
Gone(q, m, s, u) == New - m - (Len(q) - s - u)
Pieces(q, m, s, u, r) ==
  /\ s \in 0..1 /\ u \in Nat /\ r \in Nat
  /\ s + u <= Waiting /\ Gone(q, m, s, u) >= 0 /\ s + u + r <= Len(q)
Shape(q, s, u, r) ==
  \A i \in 1..Len(q) :
    /\ q[i].pending = IF i <= s + u + r THEN "transmitted" ELSE "queued"
    /\ q[i].sent = -1 <=> (s < i /\ i <= s + u) \/ s + u + r < i

(* What waits to be sent again is oldest first, and the first of it is      *)
(* young enough to wait for what comes before: the next time something is   *)
(* due, the others' rounds, and the passes the new messages take.           *)
Due(sc, lt) == IF sc < Period THEN Period - sc + MaxPass ELSE MaxPass - lt
Oldest == (IF MaxAge < Period THEN Period ELSE MaxAge) + Rounds(Waiting) + Passes(New)
UnsentOK(q, sc, lt, m, s, u, r) ==
  /\ \A i, j \in 1..Len(q) : s < i /\ i < j /\ j <= s + u => q[i].age >= q[j].age
  /\ u >= 1 => q[s + 1].age + Due(sc, lt) + Rounds(u - 1) + Passes(Len(q) - s - u - r + m) <= Oldest

(* What was sent again is acknowledged before the next is due: until then   *)
(* at most an acknowledgement of a new message is read in each pass.        *)
ResentOK(q, sc, lr, m, s, u) ==
  s = 1 =>
    /\ q[1].age <= Oldest + sc
    /\ sc <= Answer + Passes(Gone(q, m, s, u)) + lr
    /\ q[1].sent >= sc \/ q[1].sent > Answer

(* A new message is sent within a pass for each of them; its                *)
(* acknowledgement is there Answer ticks later, and read within a pass for  *)
(* each that is read before.                                                *)
NewSentOK(q, lr, m, s, u, r) ==
  \A i \in 1..Len(q) : s + u < i /\ i <= s + u + r =>
    q[i].age <= Passes(New) + (IF q[i].sent < Answer THEN q[i].sent
                               ELSE Answer + Passes(Gone(q, m, s, u) + Waiting - s - u) + lr)
NewQueuedOK(q, lt, m, s, u, r) ==
  \A i \in 1..Len(q) : s + u + r < i => q[i].age <= Passes(Gone(q, m, s, u) + r) + lt

(* lt and lr are the ticks since the last pass that sent, and that read:    *)
(* within a pass reading is done and sending is not.                        *)
Timely(q, sc, lt, lr, m, s, u, r) ==
  /\ Pieces(q, m, s, u, r) /\ Shape(q, s, u, r) /\ UnsentOK(q, sc, lt, m, s, u, r)
  /\ ResentOK(q, sc, lr, m, s, u) /\ NewSentOK(q, lr, m, s, u, r) /\ NewQueuedOK(q, lt, m, s, u, r)

TimingTypeOK ==
  line \in Seq(Row) /\ since \in Nat /\ late \in 0..MaxPass /\ more \in 0..New
TimingInv ==
  /\ TimingTypeOK /\ lost = 0
  /\ \E s \in 0..1, u \in Nat, r \in Nat : Timely(line, since, late, late, more, s, u, r)

LEMMA MulAdds ==
  ASSUME NEW p \in Nat, NEW k \in Int, NEW j \in Int, j <= k
  PROVE  k * p \in Int /\ (k + 1) * p = k * p + p /\ j * p <= k * p
<1>1. k * p \in Int /\ (k + 1) * p = k * p + p
  OBVIOUS
<1>2. (k - j) * p = k * p - j * p /\ k - j \in Nat
  OBVIOUS
<1>3. ASSUME NEW d \in Nat PROVE d * p >= 0
  OBVIOUS
<1>4. (k - j) * p >= 0
  BY <1>2, <1>3
<1>5. j * p \in Int
  OBVIOUS
<1>6. ASSUME NEW a \in Int, NEW b \in Int, NEW c \in Int, c = a - b, c >= 0 PROVE b <= a
  BY <1>6
<1> QED BY <1>1, <1>2, <1>4, <1>5, <1>6

LEMMA TimingFacts ==
  /\ Waiting \in Nat /\ New \in Nat /\ MaxAge \in Nat /\ Period \in Nat /\ Expiry \in Nat
  /\ Answer \in Nat /\ MaxPass \in Nat /\ MaxPass >= 1
BY TimingAssumption

LEMMA PassesAre ==
  /\ \A k \in Int : Passes(k) \in Int /\ Passes(k + 1) = Passes(k) + MaxPass
  /\ \A j, k \in Int : j <= k => Passes(j) <= Passes(k)
  /\ Passes(0) = 0
BY TimingFacts, MulAdds DEF Passes

LEMMA RoundsAre ==
  /\ \A k \in Int : Rounds(k) \in Int /\ Rounds(k + 1) = Rounds(k) + Period + MaxPass
  /\ \A j, k \in Int : j <= k => Rounds(j) <= Rounds(k)
  /\ Rounds(0) = 0
<1> DEFINE d == Period + MaxPass
<1>1. d \in Nat /\ Period \in Nat /\ MaxPass \in Nat
  BY TimingFacts
<1>2. \A k : Rounds(k) = k * d
  BY DEF Rounds
<1>4. 0 * d = 0
  BY <1>1
<1> HIDE DEF d
<1>3. /\ \A k \in Int : k * d \in Int /\ (k + 1) * d = k * d + d
      /\ \A j, k \in Int : j <= k => j * d <= k * d
  BY <1>1, MulAdds
<1>5. ASSUME NEW k \in Int PROVE Rounds(k) \in Int /\ Rounds(k + 1) = Rounds(k) + d
  <2>1. k * d \in Int /\ (k + 1) * d = k * d + d
    BY <1>3
  <2>2. Rounds(k) = k * d /\ Rounds(k + 1) = (k + 1) * d
    BY <1>2
  <2> QED BY <2>1, <2>2
<1>6. ASSUME NEW k \in Int PROVE Rounds(k) + d = Rounds(k) + Period + MaxPass
  BY <1>1, <1>5 DEF d
<1>7. ASSUME NEW j \in Int, NEW k \in Int, j <= k PROVE Rounds(j) <= Rounds(k)
  <2>1. j * d <= k * d
    BY <1>3, <1>7
  <2> QED BY <1>2, <2>1
<1>8. Rounds(0) = 0
  BY <1>2, <1>4
<1> QED BY <1>5, <1>6, <1>7, <1>8

(* What Enough gives: there is time for an acknowledgement before the next  *)
(* is due, and no bound of the invariant is above Expiry.                   *)
LEMMA EnoughTime ==
  ASSUME Enough
  PROVE  /\ Answer + Passes(New) + MaxPass <= Period
         /\ Oldest \in Nat /\ Passes(New) \in Nat /\ Rounds(Waiting) \in Nat
         /\ Oldest + Passes(New) + MaxPass + Answer <= Expiry
         /\ MaxAge + Rounds(Waiting) + Passes(New) <= Oldest
         /\ Period + Rounds(Waiting) + Passes(New) <= Oldest
<1> DEFINE n == Passes(New)
           w == Rounds(Waiting)
           g == (IF MaxAge < Period THEN Period ELSE MaxAge)
<1>1. n \in Nat /\ w \in Nat
  <2>1. 0 \in Int /\ New \in Int /\ Waiting \in Int /\ 0 <= New /\ 0 <= Waiting
    BY TimingFacts
  <2>2. Passes(0) <= Passes(New) /\ Rounds(0) <= Rounds(Waiting)
    BY <2>1, PassesAre, RoundsAre
  <2>3. Passes(New) \in Int /\ Rounds(Waiting) \in Int /\ Passes(0) = 0 /\ Rounds(0) = 0
    BY <2>1, PassesAre, RoundsAre
  <2> QED BY <2>2, <2>3
<1>2. (New + 1) * MaxPass = n + MaxPass
  <2>1. (New + 1) * MaxPass = New * MaxPass + MaxPass
    BY TimingFacts, MulAdds
  <2> QED BY <2>1 DEF Passes
<1>3. (2 * New + 1) * MaxPass = n + n + MaxPass
  <2> DEFINE k == 2 * New
  <2>1. k \in Int
    BY TimingFacts
  <2>2. (k + 1) * MaxPass = k * MaxPass + MaxPass
    <3> HIDE DEF k
    <3> QED BY <2>1, TimingFacts, MulAdds
  <2>3. k * MaxPass = New * MaxPass + New * MaxPass
    BY TimingFacts
  <2> QED BY <1>1, <2>2, <2>3, TimingFacts DEF Passes
<1>4. w = Waiting * (Period + MaxPass)
  BY DEF Rounds
<1>5. Answer + (n + MaxPass) <= Period
  BY <1>2 DEF Enough
<1>6. \A age \in {MaxAge, Period} : age + w + (n + n + MaxPass) + Answer <= Expiry
  BY <1>3, <1>4 DEF Enough
<1>7. g \in {MaxAge, Period} /\ MaxAge <= g /\ Period <= g /\ g \in Nat
  BY TimingFacts
<1>8. Oldest = g + w + n
  BY DEF Oldest
<1>9. g + w + (n + n + MaxPass) + Answer <= Expiry
  BY <1>6, <1>7
<1> HIDE DEF n, w, g
<1>10. Oldest \in Nat /\ Oldest + n + MaxPass + Answer <= Expiry
  BY <1>1, <1>7, <1>8, <1>9, TimingFacts
<1>11. MaxAge + w + n <= Oldest /\ Period + w + n <= Oldest
  BY <1>1, <1>7, <1>8, TimingFacts
<1>12. Answer + n + MaxPass <= Period
  BY <1>1, <1>5, TimingFacts
<1> QED BY <1>1, <1>10, <1>11, <1>12 DEF n, w

(* The first item of the line that is in a pending state.                   *)
LEMMA DequeueFirst ==
  ASSUME NEW S, NEW q \in Seq(S), NEW pending, NEW j \in 1..Len(q), q[j].pending = pending,
         \A i \in 1..Len(q) : i < j => q[i].pending # pending
  PROVE  Dequeue(q, pending) = j
<1> DEFINE I == {i \in 1..Len(q) : q[i].pending = pending}
<1>1. Dequeue(q, pending) = IF I = {} THEN 0 ELSE Min(I)
  BY DEF Dequeue, SelectInSeq
<1>2. I \in SUBSET Nat /\ j \in I
  OBVIOUS
<1>3. Min(I) \in I /\ \A y \in I : Min(I) <= y
  BY <1>2, MinIsLeast
<1>4. Min(I) \in 1..Len(q) /\ Min(I) <= j /\ ~(Min(I) < j)
  BY <1>2, <1>3
<1>5. Min(I) = j
  BY <1>4
<1> QED BY <1>1, <1>2, <1>5

LEMMA SentIs ==
  ASSUME NEW q \in Seq(Row), NEW j \in 1..Len(q)
  PROVE  /\ Sent(q, j) \in Seq(Row) /\ Len(Sent(q, j)) = Len(q)
         /\ \A i \in 1..Len(q) :
              /\ Sent(q, j)[i].age = q[i].age
              /\ i # j => Sent(q, j)[i] = q[i]
         /\ Sent(q, j)[j].pending = "transmitted"
         /\ Sent(q, j)[j].sent = IF q[j].sent = -1 THEN 0 ELSE q[j].sent
<1> DEFINE p == [q EXCEPT ![j].pending = "transmitted"]
           t == IF q[j].sent = -1 THEN 0 ELSE q[j].sent
           x == [q[j] EXCEPT !.pending = "transmitted"]
           y == [x EXCEPT !.sent = t]
<1>1. \A i \in 1..Len(q) : q[i] \in Row
  OBVIOUS
<1>2. DOMAIN q = 1..Len(q) /\ Len(q) \in Nat /\ q = [i \in 1..Len(q) |-> q[i]]
  OBVIOUS
<1>3. y \in Row /\ y.age = q[j].age /\ y.pending = "transmitted" /\ y.sent = t
  <2>1. t \in Int /\ q[j] \in Row
    BY <1>1 DEF Row
  <2>2. x \in Row /\ x.age = q[j].age /\ x.pending = "transmitted"
    BY <2>1 DEF Row
  <2>3. t >= -1
    BY <2>1 DEF Row
  <2> HIDE DEF x, t
  <2>4. y.age = q[j].age /\ y.pending = "transmitted" /\ y.sent = t
    BY <2>1, <2>2 DEF Row
  <2>5. t \in {k \in Int : k >= -1}
    BY <2>1, <2>3
  <2>6. y \in Row
    BY <2>2, <2>5 DEF Row
  <2> QED BY <2>4, <2>6
<1>4. Sent(q, j) = [p EXCEPT ![j].sent = IF @ = -1 THEN 0 ELSE @]
  BY DEF Sent
<1>5. DOMAIN p = 1..Len(q) /\ p[j] = x /\ \A i \in 1..Len(q) : i # j => p[i] = q[i]
  BY <1>2
<1>6. x.sent = q[j].sent
  BY <1>1 DEF Row
<1>7. /\ DOMAIN Sent(q, j) = 1..Len(q) /\ Sent(q, j)[j] = y
      /\ \A i \in 1..Len(q) : i # j => Sent(q, j)[i] = q[i]
      /\ Sent(q, j) = [i \in DOMAIN Sent(q, j) |-> Sent(q, j)[i]]
  <2> HIDE DEF p, x
  <2> QED BY <1>4, <1>5, <1>6
<1> HIDE DEF y, t, x, p
<1>8. Sent(q, j) \in [1..Len(q) -> Row]
  BY <1>1, <1>3, <1>7
<1>9. Sent(q, j) \in Seq(Row) /\ Len(Sent(q, j)) = Len(q)
  BY <1>2, <1>8, SeqDef
<1> QED BY <1>1, <1>3, <1>7, <1>9 DEF t

LEMMA PassesAdd ==
  /\ \A j, k \in Int : Passes(j + k) = Passes(j) + Passes(k)
  /\ \A k \in Nat : Passes(k) >= 0 /\ Rounds(k) >= Passes(k)
<1>1. ASSUME NEW p \in Nat, NEW j \in Int, NEW k \in Int PROVE (j + k) * p = j * p + k * p
  OBVIOUS
<1>2. \A j, k \in Int : Passes(j + k) = Passes(j) + Passes(k)
  BY <1>1, TimingFacts DEF Passes
<1>3. ASSUME NEW k \in Nat PROVE Passes(k) >= 0 /\ Rounds(k) >= Passes(k)
  <2>1. k * MaxPass >= 0 /\ k * MaxPass \in Int /\ k * Period >= 0 /\ k * Period \in Int
    <3>1. ASSUME NEW a \in Nat, NEW b \in Nat PROVE a * b >= 0 /\ a * b \in Int
      OBVIOUS
    <3> QED BY <3>1, TimingFacts
  <2>2. k * (Period + MaxPass) = k * Period + k * MaxPass
    <3>1. ASSUME NEW a \in Nat, NEW b \in Nat, NEW c \in Nat PROVE a * (b + c) = a * b + a * c
      OBVIOUS
    <3> QED BY <3>1, TimingFacts
  <2> DEFINE x == k * MaxPass
             y == k * Period
  <2>3. Passes(k) = x /\ Rounds(k) = y + x
    BY <2>2 DEF Passes, Rounds
  <2>4. x \in Int /\ y \in Int /\ x >= 0 /\ y >= 0
    BY <2>1
  <2> HIDE DEF x, y
  <2> QED BY <2>3, <2>4
<1> QED BY <1>2, <1>3

(* What is left of w when s and u are taken off; a bound that moves by one. *)
LEMMA TakenOff ==
  ASSUME NEW z \in Nat, NEW w \in Nat, NEW s \in Nat, NEW u \in Nat, s + u <= w
  PROVE  z + w - s - u \in Nat
OBVIOUS

LEMMA BoundMoves ==
  ASSUME NEW c \in Nat, NEW r \in Nat, NEW i \in Nat, i # c + r + 1
  PROVE  (i <= c + (r + 1) <=> i <= c + r) /\ (c + (r + 1) < i <=> c + r < i)
OBVIOUS

LEMMA PiecesAre ==
  ASSUME NEW q \in Seq(Row), NEW m \in 0..New, NEW s, NEW u, NEW r, Pieces(q, m, s, u, r)
  PROVE  /\ s \in 0..1 /\ u \in Nat /\ r \in Nat /\ Len(q) \in Nat /\ s + u <= Waiting
         /\ Gone(q, m, s, u) \in Nat /\ Gone(q, m, s, u) + r + m <= New
         /\ s + u + r <= Len(q) /\ Gone(q, m, s, u) = New - m - (Len(q) - s - u)
BY TimingFacts DEF Pieces, Gone

LEMMA RowsAre ==
  ASSUME NEW q \in Seq(Row)
  PROVE  /\ Len(q) \in Nat /\ DOMAIN q = 1..Len(q)
         /\ \A i \in 1..Len(q) : q[i] \in Row
         /\ \A i \in 1..Len(q) : q[i].age \in Nat /\ q[i].sent \in Int /\ q[i].sent >= -1
         /\ \A i \in 1..Len(q) : q[i].pending \in {"queued", "transmitted"}
<1>1. Len(q) \in Nat /\ DOMAIN q = 1..Len(q) /\ \A i \in 1..Len(q) : q[i] \in Row
  OBVIOUS
<1>2. ASSUME NEW x \in Row
      PROVE  x.age \in Nat /\ x.sent \in Int /\ x.sent >= -1 /\ x.pending \in {"queued", "transmitted"}
  <2>1. x.sent \in {k \in Int : k >= -1}
    BY DEF Row
  <2>2. x.age \in Nat /\ x.pending \in {"queued", "transmitted"}
    BY DEF Row
  <2> QED BY <2>1, <2>2
<1> QED BY <1>1, <1>2

LEMMA DueIs ==
  ASSUME NEW sc \in Nat, NEW lt \in 0..MaxPass
  PROVE  Due(sc, lt) \in Nat /\ Due(sc, lt) <= Period + MaxPass
BY TimingFacts DEF Due

(* No item is older than Expiry.                                            *)
LEMMA NoneTooOld ==
  ASSUME Enough, NEW q \in Seq(Row), NEW sc \in Nat, NEW lt \in 0..MaxPass, NEW m \in 0..New,
         NEW s, NEW u, NEW r, Timely(q, sc, lt, lt, m, s, u, r), NEW i \in 1..Len(q)
  PROVE  q[i].age <= Expiry
<1> DEFINE z == Gone(q, m, s, u)
           n == Len(q)
           a == q[i].age
           t == q[i].sent
           pn == Passes(New)
           rw == Rounds(Waiting)
<1>1. /\ s \in 0..1 /\ u \in Nat /\ r \in Nat /\ n \in Nat /\ s + u <= Waiting
      /\ z \in Nat /\ z + r + m <= New /\ s + u + r <= n
  BY PiecesAre DEF Timely
<1>2. Oldest \in Nat /\ pn \in Nat /\ rw \in Nat
  BY EnoughTime
<1>3. Oldest + pn + MaxPass + Answer <= Expiry
  BY EnoughTime
<1>4. MaxAge + rw + pn <= Oldest
  BY EnoughTime
<1>5. MaxPass \in Nat /\ Answer \in Nat /\ Waiting \in Nat /\ New \in Nat /\ MaxAge \in Nat /\ Expiry \in Nat
  BY TimingFacts
<1>6. lt <= MaxPass /\ lt \in Nat
  BY <1>5
<1>7. \A k \in 1..n : q[k].age \in Nat /\ q[k].sent \in Int
  BY RowsAre
<1>8. a \in Nat /\ t \in Int /\ i \in Nat /\ i \in 1..n
  BY <1>7
<1> HIDE DEF z, n, a, t, pn, rw
<1>9. CASE i <= s
  <2> DEFINE pz == Passes(z)
  <2>1. s = 1 /\ i = 1
    BY <1>1, <1>8, <1>9
  <2>2. a <= Oldest + sc /\ sc <= Answer + pz + lt
    BY <2>1 DEF Timely, ResentOK, z, a
  <2>3. z <= New /\ z \in Int /\ New \in Int
    BY <1>1, <1>5
  <2>4. Passes(z) <= Passes(New)
    BY <2>3, PassesAre
  <2>5. pz \in Int
    BY <2>3, PassesAre
  <2> HIDE DEF pz
  <2>6. pz <= pn
    BY <2>4 DEF pz, pn
  <2>7. a <= Oldest + pn + MaxPass + Answer
    BY <1>2, <1>5, <1>6, <1>8, <2>2, <2>5, <2>6
  <2>8. a <= Expiry
    BY <1>2, <1>3, <1>5, <1>8, <2>7
  <2> QED BY <2>8 DEF a
<1>10. CASE s < i /\ i <= s + u
  <2> DEFINE x == Len(q) - s - u - r + m
             v == u - 1
             b == q[s + 1].age
             px == Passes(x)
             rv == Rounds(v)
             d == Due(sc, lt)
  <2>1. u >= 1 /\ s + 1 \in 1..n /\ s < s + 1
    BY <1>1, <1>8, <1>10
  <2>2. b \in Nat
    BY <1>7, <2>1
  <2>3. b >= a
    <3>1. CASE i = s + 1
      BY <1>8, <3>1 DEF a
    <3>2. CASE i # s + 1
      <4>1. s + 1 < i
        BY <1>1, <1>8, <1>10, <3>2
      <4> QED BY <1>8, <1>10, <2>1, <4>1 DEF Timely, UnsentOK, n, a
    <3> QED BY <3>1, <3>2
  <2>4. b + d + rv + px <= Oldest
    BY <2>1 DEF Timely, UnsentOK
  <2>5. x \in Nat /\ v \in Nat /\ d \in Nat
    BY <1>1, <2>1, DueIs DEF n
  <2> HIDE DEF x, v, b, d
  <2>6. px \in Int /\ rv \in Int
    <3>1. px \in Int
      BY <2>5, PassesAre
    <3>2. rv \in Int
      BY <2>5, RoundsAre
    <3> QED BY <3>1, <3>2
  <2>7. px >= 0
    BY <2>5, PassesAdd
  <2>8. rv >= 0
    <3>1. 0 <= v /\ 0 \in Int /\ v \in Int
      BY <2>5
    <3> QED BY <3>1, RoundsAre
  <2> HIDE DEF px, rv
  <2>9. a <= Oldest
    BY <1>2, <1>8, <2>2, <2>3, <2>4, <2>5, <2>6, <2>7, <2>8
  <2>10. a <= Expiry
    BY <1>2, <1>3, <1>5, <1>8, <2>9
  <2> QED BY <2>10 DEF a
<1>11. CASE s + u < i /\ i <= s + u + r
  <2> DEFINE y == z + Waiting - s - u
             py == Passes(y)
             pw == Passes(Waiting)
  <2>1. a <= pn + (IF t < Answer THEN t ELSE Answer + py + lt)
    BY <1>8, <1>11 DEF Timely, NewSentOK, z, n, a, t, pn
  <2>2. y <= New + Waiting /\ y \in Int /\ New + Waiting \in Int
    BY <1>1, <1>5
  <2> HIDE DEF y
  <2>3. Passes(y) <= Passes(New + Waiting)
    BY <2>2, PassesAre
  <2>4. Passes(New + Waiting) = Passes(New) + Passes(Waiting)
    BY <1>5, PassesAdd
  <2>5. py \in Int /\ pw \in Int
    <3>1. py \in Int
      BY <2>2, PassesAre
    <3>2. pw \in Int
      BY <1>5, PassesAre
    <3> QED BY <3>1, <3>2
  <2>6. pw <= rw
    BY <1>5, PassesAdd DEF rw
  <2>7. py <= pn + pw
    BY <2>3, <2>4 DEF pn
  <2> HIDE DEF py, pw
  <2>8. py <= pn + rw
    BY <1>2, <2>5, <2>6, <2>7
  <2>9. CASE t < Answer
    <3>1. a <= pn + t
      BY <2>1, <2>9
    <3>2. a <= Expiry
      BY <1>2, <1>3, <1>5, <1>8, <2>9, <3>1
    <3> QED BY <3>2 DEF a
  <2>10. CASE ~(t < Answer)
    <3>1. a <= pn + (Answer + py + lt)
      BY <2>1, <2>10
    <3>2. a <= Expiry
      BY <1>2, <1>3, <1>4, <1>5, <1>6, <1>8, <2>5, <2>8, <3>1
    <3> QED BY <3>2 DEF a
  <2> QED BY <2>9, <2>10
<1>12. CASE s + u + r < i
  <2> DEFINE y == z + r
             py == Passes(y)
  <2>1. a <= py + lt
    BY <1>8, <1>12 DEF Timely, NewQueuedOK, z, n, a
  <2>2. y <= New /\ y \in Int /\ New \in Int
    BY <1>1, <1>5
  <2> HIDE DEF y
  <2>3. Passes(y) <= Passes(New)
    BY <2>2, PassesAre
  <2>4. py \in Int
    BY <2>2, PassesAre
  <2>5. py <= pn
    BY <2>3 DEF pn
  <2> HIDE DEF py
  <2>6. a <= Expiry
    BY <1>2, <1>3, <1>5, <1>6, <1>8, <2>1, <2>4, <2>5
  <2> QED BY <2>6 DEF a
<1> QED BY <1>1, <1>8, <1>9, <1>10, <1>11, <1>12

LEMMA PiecesOf ==
  ASSUME NEW q \in Seq(Row), NEW m, NEW s, NEW u, NEW r,
         s \in 0..1 /\ u \in Nat /\ r \in Nat, s + u <= Waiting,
         New - m - (Len(q) - s - u) >= 0, s + u + r <= Len(q)
  PROVE  Pieces(q, m, s, u, r)
BY DEF Pieces, Gone

LEMMA TimelyStart == ASSUME Enough, TimingInit PROVE TimingInv
<1> DEFINE R == [pending : {"transmitted"}, age : 0..MaxAge, sent : {-1}]
           q == line
<1>1. /\ q \in [1..Waiting -> R] /\ since \in 0..(Period + 1) /\ late = 0 /\ more = New /\ lost = 0
      /\ \A i, j \in DOMAIN q : i < j => q[i].age >= q[j].age
  BY DEF TimingInit
<1>2. Waiting \in Nat /\ New \in Nat /\ MaxAge \in Nat /\ Period \in Nat /\ MaxPass \in Nat /\ MaxPass >= 1
  BY TimingFacts
<1>3. since \in Nat /\ late \in 0..MaxPass /\ more \in 0..New
  BY <1>1, <1>2
<1>4. R \subseteq Row
  <2> SUFFICES ASSUME NEW x \in R PROVE x \in Row
    OBVIOUS
  <2>1. -1 \in {k \in Int : k >= -1} /\ \A a \in 0..MaxAge : a \in Nat
    BY <1>2
  <2> QED BY <2>1 DEF Row
<1>5. q \in Seq(Row) /\ Len(q) = Waiting /\ DOMAIN q = 1..Waiting
  BY <1>1, <1>2, <1>4, SeqDef
<1>6. \A i \in 1..Waiting : q[i].pending = "transmitted" /\ q[i].sent = -1 /\ q[i].age \in 0..MaxAge
  BY <1>1
<1> HIDE DEF q, R
<1>7. Pieces(q, New, 0, Waiting, 0)
  <2>1. New - New - (Waiting - 0 - Waiting) >= 0 /\ 0 + Waiting <= Waiting /\ 0 + Waiting + 0 <= Waiting
    BY <1>2
  <2>2. 0 \in 0..1 /\ 0 \in Nat /\ Waiting \in Nat
    BY <1>2
  <2> QED BY <1>5, <2>1, <2>2, PiecesOf
<1>8. Shape(q, 0, Waiting, 0)
  <2> SUFFICES ASSUME NEW i \in 1..Waiting
               PROVE  /\ q[i].pending = IF i <= 0 + Waiting + 0 THEN "transmitted" ELSE "queued"
                      /\ q[i].sent = -1 <=> (0 < i /\ i <= 0 + Waiting) \/ 0 + Waiting + 0 < i
    BY <1>5 DEF Shape
  <2>1. i <= 0 + Waiting + 0 /\ 0 < i /\ i <= 0 + Waiting
    BY <1>2
  <2> QED BY <1>6, <2>1
<1>9. UnsentOK(q, since, 0, New, 0, Waiting, 0)
  <2>1. ASSUME NEW i \in 1..Len(q), NEW j \in 1..Len(q), 0 < i, i < j, j <= 0 + Waiting
        PROVE  q[i].age >= q[j].age
    BY <1>1, <1>5, <2>1 DEF q
  <2>2. ASSUME Waiting >= 1
        PROVE  q[0 + 1].age + Due(since, 0) + Rounds(Waiting - 1)
                 + Passes(Len(q) - 0 - Waiting - 0 + New) <= Oldest
    <3> DEFINE a == q[0 + 1].age
               d == Due(since, 0)
               w == Waiting - 1
               rw == Rounds(w)
               x == Len(q) - 0 - Waiting - 0 + New
    <3>1. a \in 0..MaxAge
      BY <1>2, <1>6, <2>2
    <3>2. d \in Nat /\ d <= Period + MaxPass
      BY <1>2, <1>3, DueIs
    <3>3. w \in Int /\ w + 1 = Waiting
      BY <1>2
    <3>4. x = New
      BY <1>2, <1>5
    <3> HIDE DEF a, d, w, x
    <3>5. Rounds(w + 1) = Rounds(w) + Period + MaxPass
      BY <3>3, RoundsAre
    <3>6. rw \in Int
      BY <3>3, RoundsAre
    <3>7. MaxAge + Rounds(Waiting) + Passes(New) <= Oldest
      BY EnoughTime
    <3>8. Oldest \in Nat /\ Passes(New) \in Nat
      BY EnoughTime
    <3> DEFINE pn == Passes(New)
    <3>9. MaxAge + (rw + Period + MaxPass) + pn <= Oldest
      BY <3>3, <3>5, <3>7
    <3>10. pn \in Nat
      BY <3>8
    <3> HIDE DEF rw, pn
    <3>11. a + d + rw + pn <= Oldest
      BY <1>2, <3>1, <3>2, <3>6, <3>8, <3>9, <3>10
    <3> QED BY <3>4, <3>11 DEF a, d, w, rw, x, pn
  <2> QED BY <2>1, <2>2 DEF UnsentOK
<1>10. ResentOK(q, since, 0, New, 0, Waiting)
  BY DEF ResentOK
<1>11. NewSentOK(q, 0, New, 0, Waiting, 0)
  <2>1. \A i \in 1..Len(q) : ~(0 + Waiting < i /\ i <= 0 + Waiting + 0)
    BY <1>2
  <2> QED BY <2>1 DEF NewSentOK
<1>12. NewQueuedOK(q, 0, New, 0, Waiting, 0)
  <2>1. \A i \in 1..Len(q) : ~(0 + Waiting + 0 < i)
    BY <1>2, <1>5
  <2> QED BY <2>1 DEF NewQueuedOK
<1>13. Timely(q, since, 0, 0, New, 0, Waiting, 0)
  BY <1>7, <1>8, <1>9, <1>10, <1>11, <1>12 DEF Timely
<1>14. TimingTypeOK
  BY <1>3, <1>5 DEF TimingTypeOK, q
<1>15. Timely(line, since, late, late, more, 0, Waiting, 0)
  BY <1>1, <1>13 DEF q
<1>16. 0 \in 0..1 /\ 0 \in Nat /\ Waiting \in Nat
  BY <1>2
<1> QED BY <1>1, <1>14, <1>15, <1>16 DEF TimingInv

(* A tick.                                                                  *)
LEMMA TickTimely ==
  ASSUME Enough, NEW q \in Seq(Row), NEW p \in Seq(Row), Len(p) = Len(q),
         \A i \in 1..Len(q) :
           /\ p[i].pending = q[i].pending
           /\ p[i].age = q[i].age + 1
           /\ p[i].sent = IF q[i].sent = -1 \/ q[i].sent > Answer THEN q[i].sent ELSE q[i].sent + 1,
         NEW sc \in Nat, NEW lt \in 0..MaxPass, lt < MaxPass, NEW m \in 0..New,
         NEW s, NEW u, NEW r, Timely(q, sc, lt, lt, m, s, u, r),
         NEW e \in Nat, e = IF sc > Period THEN sc ELSE sc + 1,
         NEW l \in 0..MaxPass, l = lt + 1
  PROVE  Timely(p, e, l, l, m, s, u, r)
<1> DEFINE n == Len(q)
           z == Gone(q, m, s, u)
<1>1. /\ s \in 0..1 /\ u \in Nat /\ r \in Nat /\ n \in Nat /\ s + u <= Waiting
      /\ z \in Nat /\ z + r + m <= New /\ s + u + r <= n
  BY PiecesAre DEF Timely
<1>2. /\ Waiting \in Nat /\ New \in Nat /\ Period \in Nat /\ Answer \in Nat /\ MaxPass \in Nat
  BY TimingFacts
<1>3. lt \in Nat /\ l \in Nat /\ l = lt + 1 /\ l <= MaxPass
  BY <1>2
<1>4. \A i \in 1..n : q[i].age \in Nat /\ q[i].sent \in Int /\ q[i].sent >= -1
  BY RowsAre
<1>5. Gone(p, m, s, u) = z /\ Len(p) = n
  BY DEF Gone
<1>6. Pieces(p, m, s, u, r)
  BY <1>5 DEF Timely, Pieces
<1>7. Shape(p, s, u, r)
  <2> SUFFICES ASSUME NEW i \in 1..Len(p)
               PROVE  /\ p[i].pending = IF i <= s + u + r THEN "transmitted" ELSE "queued"
                      /\ p[i].sent = -1 <=> (s < i /\ i <= s + u) \/ s + u + r < i
    BY DEF Shape
  <2>1. i \in 1..Len(q)
    BY <1>5
  <2>2. /\ q[i].pending = IF i <= s + u + r THEN "transmitted" ELSE "queued"
        /\ q[i].sent = -1 <=> (s < i /\ i <= s + u) \/ s + u + r < i
    BY <2>1 DEF Timely, Shape
  <2>3. p[i].sent = -1 <=> q[i].sent = -1
    <3> DEFINE t == q[i].sent
               v == p[i].sent
    <3>1. t \in Int /\ t >= -1 /\ v = IF t = -1 \/ t > Answer THEN t ELSE t + 1
      BY <1>4, <2>1
    <3> HIDE DEF t, v
    <3>2. v = -1 <=> t = -1
      BY <1>2, <3>1
    <3> QED BY <3>2 DEF t, v
  <2> QED BY <2>1, <2>2, <2>3
<1>8. UnsentOK(p, e, l, m, s, u, r)
  <2>1. ASSUME NEW i \in 1..Len(p), NEW j \in 1..Len(p), s < i, i < j, j <= s + u
        PROVE  p[i].age >= p[j].age
    <3>1. i \in 1..n /\ j \in 1..n
      BY <1>5
    <3>2. q[i].age >= q[j].age
      BY <2>1, <3>1 DEF Timely, UnsentOK
    <3>3. p[i].age = q[i].age + 1 /\ p[j].age = q[j].age + 1
      BY <3>1
    <3>4. q[i].age \in Nat /\ q[j].age \in Nat
      BY <1>4, <3>1
    <3> DEFINE a == q[i].age
               b == q[j].age
    <3>5. a \in Nat /\ b \in Nat /\ a >= b
      BY <3>2, <3>4
    <3> HIDE DEF a, b
    <3>6. a + 1 >= b + 1
      BY <3>5
    <3> QED BY <3>3, <3>6 DEF a, b
  <2>2. ASSUME u >= 1
        PROVE  p[s + 1].age + Due(e, l) + Rounds(u - 1) + Passes(Len(p) - s - u - r + m) <= Oldest
    <3> DEFINE a == q[s + 1].age
               x == Len(q) - s - u - r + m
               v == u - 1
               px == Passes(x)
               rv == Rounds(v)
               d == Due(sc, lt)
               f == Due(e, l)
    <3>1. s + 1 \in 1..n
      BY <1>1, <2>2
    <3>2. a \in Nat /\ p[s + 1].age = a + 1
      BY <1>4, <3>1
    <3>3. a + d + rv + px <= Oldest
      BY <2>2 DEF Timely, UnsentOK
    <3>4. f + 1 <= d
      <4>1. d = IF sc < Period THEN Period - sc + MaxPass ELSE MaxPass - lt
        BY DEF Due
      <4>2. f = IF e < Period THEN Period - e + MaxPass ELSE MaxPass - l
        BY DEF Due
      <4>3. e = IF sc > Period THEN sc ELSE sc + 1
        OBVIOUS
      <4> HIDE DEF d, f
      <4>4. CASE sc > Period
        <5>1. e = sc /\ d = MaxPass - lt /\ f = MaxPass - l
          BY <1>2, <4>1, <4>2, <4>3, <4>4
        <5> QED BY <1>2, <1>3, <5>1
      <4>5. CASE ~(sc > Period)
        <5>1. e = sc + 1
          BY <4>3, <4>5
        <5>2. CASE e < Period
          <6>1. sc < Period
            BY <1>2, <5>1, <5>2
          <6>2. d = Period - sc + MaxPass /\ f = Period - e + MaxPass
            BY <4>1, <4>2, <5>2, <6>1
          <6> QED BY <1>2, <5>1, <6>2
        <5>3. CASE ~(e < Period)
          <6>1. f = MaxPass - l
            BY <4>2, <5>3
          <6>2. CASE sc < Period
            <7>1. d = Period - sc + MaxPass
              BY <4>1, <6>2
            <7> QED BY <1>2, <1>3, <6>1, <6>2, <7>1
          <6>3. CASE ~(sc < Period)
            <7>1. d = MaxPass - lt
              BY <4>1, <6>3
            <7> QED BY <1>2, <1>3, <6>1, <7>1
          <6> QED BY <6>2, <6>3
        <5> QED BY <5>2, <5>3
      <4> QED BY <4>4, <4>5
    <3>5. x \in Int /\ v \in Int
      BY <1>1, <1>2
    <3>6. d \in Nat /\ f \in Nat
      BY DueIs
    <3> HIDE DEF a, x, v, d, f
    <3>7. px \in Int
      BY <3>5, PassesAre
    <3>8. rv \in Int
      BY <3>5, RoundsAre
    <3>9. Oldest \in Nat
      BY EnoughTime
    <3> HIDE DEF px, rv, n, z
    <3>12. a \in Nat /\ d \in Nat /\ f \in Nat /\ rv \in Int /\ px \in Int /\ Oldest \in Nat
      BY <3>2, <3>6, <3>7, <3>8, <3>9
    <3>13. f + 1 <= d /\ a + d + rv + px <= Oldest
      BY <3>3, <3>4
    <3>10. (a + 1) + f + rv + px <= Oldest
      BY ONLY <3>12, <3>13
    <3> QED BY <1>5, <3>2, <3>10 DEF a, x, v, d, f, px, rv, n
  <2> QED BY <2>1, <2>2 DEF UnsentOK
<1>9. ResentOK(p, e, l, m, s, u)
  <2> SUFFICES ASSUME s = 1
               PROVE  /\ p[1].age <= Oldest + e
                      /\ e <= Answer + Passes(z) + l
                      /\ p[1].sent >= e \/ p[1].sent > Answer
    BY <1>5 DEF ResentOK
  <2> DEFINE a == q[1].age
             t == q[1].sent
             pz == Passes(z)
             b == p[1].age
             v == p[1].sent
  <2>1. a <= Oldest + sc /\ sc <= Answer + pz + lt /\ (t >= sc \/ t > Answer)
    BY DEF Timely, ResentOK
  <2>2. 1 \in 1..n
    BY <1>1
  <2>3. a \in Nat /\ t \in Int /\ t >= -1
    BY <1>4, <2>2
  <2>4. b = a + 1 /\ v = IF t = -1 \/ t > Answer THEN t ELSE t + 1
    BY <2>2
  <2>5. z <= New /\ z \in Int /\ New \in Int
    BY <1>1, <1>2
  <2>6. Oldest \in Nat /\ Passes(New) \in Nat
    BY EnoughTime
  <2>7. Answer + Passes(New) + MaxPass <= Period
    BY EnoughTime
  <2> HIDE DEF a, t, b, v, z
  <2>8. pz \in Int
    BY <2>5, PassesAre
  <2>9. pz <= Passes(New)
    BY <2>5, PassesAre
  <2> DEFINE pn == Passes(New)
  <2>10. pn \in Nat /\ pz <= pn /\ Answer + pn + MaxPass <= Period
    BY <2>6, <2>7, <2>9
  <2> HIDE DEF pz, pn
  <2>11. sc < Period
    BY <1>2, <1>3, <2>1, <2>8, <2>10
  <2>12. e = sc + 1
    BY <1>2, <2>11
  <2>13. b <= Oldest + e
    BY <2>1, <2>3, <2>4, <2>6, <2>12
  <2>14. e <= Answer + pz + l
    BY <1>2, <1>3, <2>1, <2>8, <2>12
  <2>15. t # -1
    <3>1. q[1].sent = -1 <=> (s < 1 /\ 1 <= s + u) \/ s + u + r < 1
      BY <2>2 DEF Timely, Shape, n
    <3>2. ~(s < 1) /\ ~(s + u + r < 1)
      <4>1. s = 1 /\ u \in Nat /\ r \in Nat
        BY <1>1
      <4> HIDE DEF n, pn, pz, z, a, t, b, v
      <4> QED BY ONLY <4>1
    <3> QED BY <3>1, <3>2 DEF t
  <2>16. v >= e \/ v > Answer
    <3>1. CASE t > Answer
      <4>1. v = t
        BY <2>4, <3>1
      <4> QED BY <3>1, <4>1
    <3>2. CASE ~(t > Answer)
      <4>1. v = t + 1 /\ t >= sc
        BY <2>1, <2>4, <2>15, <3>2
      <4> QED BY <2>3, <2>12, <4>1
    <3> QED BY <3>1, <3>2
  <2> QED BY <2>13, <2>14, <2>16 DEF b, v, pz
<1>10. NewSentOK(p, l, m, s, u, r)
  <2> SUFFICES ASSUME NEW i \in 1..Len(p), s + u < i /\ i <= s + u + r
               PROVE  p[i].age <= Passes(New) + (IF p[i].sent < Answer THEN p[i].sent
                                                 ELSE Answer + Passes(z + Waiting - s - u) + l)
    BY <1>5 DEF NewSentOK
  <2> DEFINE a == q[i].age
             t == q[i].sent
             b == p[i].age
             v == p[i].sent
             y == z + Waiting - s - u
             py == Passes(y)
             pn == Passes(New)
  <2>1. i \in 1..n
    BY <1>5
  <2>2. a <= pn + (IF t < Answer THEN t ELSE Answer + py + lt)
    BY <2>1 DEF Timely, NewSentOK
  <2>3. a \in Nat /\ t \in Int /\ t >= -1
    BY <1>4, <2>1
  <2>4. b = a + 1 /\ v = IF t = -1 \/ t > Answer THEN t ELSE t + 1
    BY <2>1
  <2>5. t # -1
    <3>1. q[i].sent = -1 <=> (s < i /\ i <= s + u) \/ s + u + r < i
      BY <2>1 DEF Timely, Shape, n
    <3>2. i \in Nat
      BY <2>1
    <3>3. ~(s < i /\ i <= s + u) /\ ~(s + u + r < i)
      BY <1>1, <3>2
    <3> QED BY <3>1, <3>3 DEF t
  <2>6. y \in Nat
    <3>1. s \in Nat
      BY <1>1
    <3> QED BY <1>1, <1>2, <3>1, TakenOff
  <2>7. pn \in Nat
    BY EnoughTime
  <2> HIDE DEF a, t, b, v, y, pn
  <2>8. py \in Int
    BY <2>6, PassesAre
  <2>9. py >= 0
    BY <2>6, PassesAdd
  <2> HIDE DEF py
  <2>10. b <= pn + (IF v < Answer THEN v ELSE Answer + py + l)
    <3>1. CASE t < Answer
      <4>1. a <= pn + t /\ v = t + 1
        BY <1>2, <2>2, <2>3, <2>4, <2>5, <3>1
      <4>2. b <= pn + v
        BY <2>3, <2>4, <2>7, <4>1
      <4>3. v <= Answer /\ v \in Int
        BY <1>2, <2>3, <3>1, <4>1
      <4>4. CASE v < Answer
        BY <4>2, <4>4
      <4>5. CASE ~(v < Answer)
        <5>1. b <= pn + (Answer + py + l)
          BY <1>2, <1>3, <2>3, <2>4, <2>7, <2>8, <2>9, <4>2, <4>3
        <5> QED BY <4>5, <5>1
      <4> QED BY <4>4, <4>5
    <3>2. CASE ~(t < Answer)
      <4>1. a <= pn + (Answer + py + lt)
        BY <2>2, <3>2
      <4>2. b <= pn + (Answer + py + l)
        BY <1>2, <1>3, <2>3, <2>4, <2>7, <2>8, <4>1
      <4>3. ~(v < Answer)
        BY <1>2, <2>3, <2>4, <3>2
      <4> QED BY <4>2, <4>3
    <3> QED BY <3>1, <3>2
  <2> QED BY <2>10 DEF b, v, y, py, pn
<1>11. NewQueuedOK(p, l, m, s, u, r)
  <2> SUFFICES ASSUME NEW i \in 1..Len(p), s + u + r < i
               PROVE  p[i].age <= Passes(z + r) + l
    BY <1>5 DEF NewQueuedOK
  <2> DEFINE a == q[i].age
             y == z + r
             py == Passes(y)
  <2>1. i \in 1..n
    BY <1>5
  <2>2. a <= py + lt
    BY <2>1 DEF Timely, NewQueuedOK
  <2>3. a \in Nat /\ p[i].age = a + 1
    BY <1>4, <2>1
  <2>4. y \in Int
    BY <1>1
  <2> HIDE DEF a, y
  <2>5. py \in Int
    BY <2>4, PassesAre
  <2> HIDE DEF py
  <2>6. a + 1 <= py + l
    BY <1>3, <2>2, <2>3, <2>5
  <2> QED BY <2>3, <2>6 DEF y, py
<1> QED BY <1>6, <1>7, <1>8, <1>9, <1>10, <1>11 DEF Timely

(* A message is enqueued.                                                   *)
LEMMA EnqueueTimely ==
  ASSUME Enough, NEW q \in Seq(Row), NEW sc \in Nat, NEW lt \in 0..MaxPass,
         NEW m \in 0..New, m > 0, NEW s, NEW u, NEW r, Timely(q, sc, lt, lt, m, s, u, r),
         NEW x \in Row, x.pending = "queued", x.age = 0, x.sent = -1,
         NEW p \in Seq(Row), p = Append(q, x), NEW k \in 0..New, k = m - 1
  PROVE  Timely(p, sc, lt, lt, k, s, u, r)
<1> DEFINE n == Len(q)
           z == Gone(q, m, s, u)
<1>1. /\ s \in 0..1 /\ u \in Nat /\ r \in Nat /\ n \in Nat /\ s + u <= Waiting
      /\ z \in Nat /\ z + r + m <= New /\ s + u + r <= n /\ z = New - m - (n - s - u)
  BY PiecesAre DEF Timely
<1>2. /\ Waiting \in Nat /\ New \in Nat /\ Period \in Nat /\ Answer \in Nat /\ MaxPass \in Nat
  BY TimingFacts
<1>3. lt \in Nat /\ m \in Nat /\ k \in Nat
  BY <1>2
<1>4. Len(p) = n + 1 /\ p[n + 1] = x /\ \A i \in 1..n : p[i] = q[i]
  OBVIOUS
<1> HIDE DEF n, z
<1>5. New - k - ((n + 1) - s - u) = z
  BY <1>1, <1>2, <1>3
<1>6. Gone(p, k, s, u) = z
  <2> DEFINE e == Len(p)
  <2>1. Gone(p, k, s, u) = New - k - (e - s - u)
    BY DEF Gone
  <2>2. e = n + 1
    BY <1>4
  <2> HIDE DEF e
  <2> QED BY <1>5, <2>1, <2>2
<1>7. Pieces(p, k, s, u, r)
  <2>1. s + u + r <= n + 1 /\ z >= 0
    BY <1>1
  <2> QED BY <1>1, <1>4, <1>6, <2>1 DEF Pieces
<1>8. \A i \in 1..Len(p) : i \in 1..n \/ i = n + 1
  BY <1>1, <1>4
<1>9. Shape(p, s, u, r)
  <2> SUFFICES ASSUME NEW i \in 1..Len(p)
               PROVE  /\ p[i].pending = IF i <= s + u + r THEN "transmitted" ELSE "queued"
                      /\ p[i].sent = -1 <=> (s < i /\ i <= s + u) \/ s + u + r < i
    BY DEF Shape
  <2>1. CASE i \in 1..n
    BY <1>4, <2>1 DEF Timely, Shape, n
  <2>2. CASE i = n + 1
    <3>1. s + u + r < i /\ ~(i <= s + u + r)
      BY <1>1, <2>2
    <3> QED BY <1>4, <2>2, <3>1
  <2> QED BY <1>8, <2>1, <2>2
<1>10. UnsentOK(p, sc, lt, k, s, u, r)
  <2>1. ASSUME NEW i \in 1..Len(p), NEW j \in 1..Len(p), s < i, i < j, j <= s + u
        PROVE  p[i].age >= p[j].age
    <3>1. i \in 1..n /\ j \in 1..n
      BY <1>1, <1>4, <2>1
    <3>2. q[i].age >= q[j].age
      BY <2>1, <3>1 DEF Timely, UnsentOK, n
    <3> QED BY <1>4, <3>1, <3>2
  <2>2. ASSUME u >= 1
        PROVE  p[s + 1].age + Due(sc, lt) + Rounds(u - 1) + Passes(Len(p) - s - u - r + k) <= Oldest
    <3>1. s + 1 \in 1..n
      BY <1>1, <2>2
    <3>2. Len(p) - s - u - r + k = n - s - u - r + m
      BY <1>1, <1>2, <1>3, <1>4
    <3>3. q[s + 1].age + Due(sc, lt) + Rounds(u - 1) + Passes(n - s - u - r + m) <= Oldest
      BY <2>2 DEF Timely, UnsentOK, n
    <3> QED BY <1>4, <3>1, <3>2, <3>3
  <2> QED BY <2>1, <2>2 DEF UnsentOK
<1>11. ResentOK(p, sc, lt, k, s, u)
  <2> SUFFICES ASSUME s = 1
               PROVE  /\ p[1].age <= Oldest + sc
                      /\ sc <= Answer + Passes(z) + lt
                      /\ p[1].sent >= sc \/ p[1].sent > Answer
    BY <1>6 DEF ResentOK
  <2>1. 1 \in 1..n
    BY <1>1
  <2> QED BY <1>4, <2>1 DEF Timely, ResentOK, z
<1>12. NewSentOK(p, lt, k, s, u, r)
  <2> SUFFICES ASSUME NEW i \in 1..Len(p), s + u < i /\ i <= s + u + r
               PROVE  p[i].age <= Passes(New) + (IF p[i].sent < Answer THEN p[i].sent
                                                 ELSE Answer + Passes(z + Waiting - s - u) + lt)
    BY <1>6 DEF NewSentOK
  <2>1. i \in 1..n
    BY <1>1, <1>4
  <2> QED BY <1>4, <2>1 DEF Timely, NewSentOK, n, z
<1>13. NewQueuedOK(p, lt, k, s, u, r)
  <2> SUFFICES ASSUME NEW i \in 1..Len(p), s + u + r < i
               PROVE  p[i].age <= Passes(z + r) + lt
    BY <1>6 DEF NewQueuedOK
  <2>1. CASE i \in 1..n
    BY <1>4, <2>1 DEF Timely, NewQueuedOK, n, z
  <2>2. CASE i = n + 1
    <3> DEFINE y == z + r
               py == Passes(y)
    <3>1. y \in Nat
      <4>1. z \in Nat /\ r \in Nat
        BY <1>1
      <4> QED BY <4>1
    <3> HIDE DEF y
    <3>2. py \in Int
      BY <3>1, PassesAre
    <3>3. py >= 0
      BY <3>1, PassesAdd
    <3> HIDE DEF py
    <3>4. 0 <= py + lt
      BY <1>3, <3>2, <3>3
    <3> QED BY <1>4, <2>2, <3>4 DEF y, py
  <2> QED BY <1>8, <2>1, <2>2
<1> QED BY <1>7, <1>9, <1>10, <1>11, <1>12, <1>13 DEF Timely

(* How the pieces move when the item at k is removed: i is a position in    *)
(* the shorter line, j that of the same item before.                        *)
Removable(k, s, u, r, a, b) ==
  (k = 1 /\ s = 1 /\ a = 0 /\ b = r) \/ (s + u < k /\ k <= s + u + r /\ a = s /\ b = r - 1)
Moves(n, k, s, u, r, a, b) ==
  /\ a \in 0..1 /\ b \in Nat /\ a <= s /\ a + b = s + r - 1 /\ a + u + b <= n - 1
  /\ a = 1 => s = 1 /\ 1 < k
  /\ u >= 1 => a + 1 \in 1..(n - 1) /\ s + 1 = IF a + 1 < k THEN a + 1 ELSE a + 2
  /\ \A i \in 1..(n - 1) : \A j : j = (IF i < k THEN i ELSE i + 1) =>
       /\ j \in 1..n
       /\ i <= a + u + b <=> j <= s + u + r
       /\ a < i <=> s < j
       /\ i <= a + u <=> j <= s + u
LEMMA RemovableMoves ==
  ASSUME NEW s \in 0..1, NEW u \in Nat, NEW r \in Nat, NEW n \in Nat, s + u + r <= n,
         NEW k \in 1..n, NEW a, NEW b, Removable(k, s, u, r, a, b)
  PROVE  Moves(n, k, s, u, r, a, b)
<1>0. (k = 1 /\ s = 1 /\ a = 0 /\ b = r) \/ (s + u < k /\ k <= s + u + r /\ a = s /\ b = r - 1)
  BY DEF Removable
<1>1. /\ a \in 0..1 /\ b \in Nat /\ a <= s /\ a + b = s + r - 1 /\ a + u + b <= n - 1
      /\ a = 1 => s = 1 /\ 1 < k
  <2>1. CASE k = 1 /\ s = 1 /\ a = 0 /\ b = r
    BY <2>1
  <2>2. CASE s + u < k /\ k <= s + u + r /\ a = s /\ b = r - 1
    <3>1. r >= 1
      BY <2>2
    <3> QED BY <2>2, <3>1
  <2> QED BY <1>0, <2>1, <2>2
<1>2. ASSUME u >= 1
      PROVE  a + 1 \in 1..(n - 1) /\ s + 1 = IF a + 1 < k THEN a + 1 ELSE a + 2
  <2>1. CASE k = 1 /\ s = 1 /\ a = 0 /\ b = r
    BY <1>2, <2>1
  <2>2. CASE s + u < k /\ k <= s + u + r /\ a = s /\ b = r - 1
    <3>1. s + 1 < k /\ s + 1 <= n - 1
      BY <1>2, <2>2
    <3> QED BY <2>2, <3>1
  <2> QED BY <1>0, <2>1, <2>2
<1>3. ASSUME NEW i \in 1..(n - 1), NEW j, j = IF i < k THEN i ELSE i + 1
      PROVE  /\ j \in 1..n
             /\ i <= a + u + b <=> j <= s + u + r
             /\ a < i <=> s < j
             /\ i <= a + u <=> j <= s + u
  <2>1. CASE k = 1 /\ s = 1 /\ a = 0 /\ b = r
    <3>1. j = i + 1
      BY <1>3, <2>1
    <3> QED BY <2>1, <3>1
  <2>2. CASE s + u < k /\ k <= s + u + r /\ a = s /\ b = r - 1
    <3>1. CASE i < k
      <4>1. j = i
        BY <1>3, <3>1
      <4> QED BY <2>2, <3>1, <4>1
    <3>2. CASE ~(i < k)
      <4>1. j = i + 1
        BY <1>3, <3>2
      <4> QED BY <2>2, <3>2, <4>1
    <3> QED BY <3>1, <3>2
  <2> QED BY <1>0, <2>1, <2>2
<1> QED BY <1>1, <1>2, <1>3 DEF Moves

(* An acknowledgement is read: that of the first message that waited, or of *)
(* a new one.                                                               *)
LEMMA ReadTimely ==
  ASSUME Enough, NEW q \in Seq(Row), NEW sc \in Nat, NEW lt \in 0..MaxPass, NEW m \in 0..New,
         NEW s, NEW u, NEW r, Timely(q, sc, lt, lt, m, s, u, r),
         NEW k \in 1..Len(q), NEW a, NEW b,
         Removable(k, s, u, r, a, b),
         NEW p \in Seq(Row), Len(p) = Len(q) - 1,
         \A i \in 1..(Len(q) - 1) : p[i] = IF i < k THEN q[i] ELSE q[i + 1]
  PROVE  Timely(p, sc, lt, 0, m, a, u, b)
<1> DEFINE n == Len(q)
           z == Gone(q, m, s, u)
           w == Gone(p, m, a, u)
<1>1. /\ s \in 0..1 /\ u \in Nat /\ r \in Nat /\ n \in Nat /\ s + u <= Waiting
      /\ z \in Nat /\ z + r + m <= New /\ s + u + r <= n /\ z = New - m - (n - s - u)
  BY PiecesAre DEF Timely
<1>2. /\ Waiting \in Nat /\ New \in Nat /\ Period \in Nat /\ Answer \in Nat /\ MaxPass \in Nat
  BY TimingFacts
<1>3. lt \in Nat /\ m \in Nat /\ k \in Nat /\ lt <= MaxPass
  BY <1>2
<1>4. w = New - m - (n - 1 - a - u)
  BY DEF Gone
<1> HIDE DEF n, z, w
<1>14. k \in 1..n
  BY DEF n
<1>16. Moves(n, k, s, u, r, a, b)
  BY <1>1, <1>14, RemovableMoves
<1>5. /\ a \in 0..1 /\ b \in Nat /\ a <= s /\ a + b = s + r - 1 /\ a + u + b <= n - 1
      /\ a = 1 => s = 1 /\ 1 < k
      /\ u >= 1 => a + 1 \in 1..(n - 1) /\ s + 1 = IF a + 1 < k THEN a + 1 ELSE a + 2
  BY <1>16 DEF Moves
<1>6. w - a = z - s + 1 /\ w \in Nat /\ w + b = z + r
  BY <1>1, <1>2, <1>3, <1>4, <1>5
<1>17. /\ s \in Nat /\ u \in Nat /\ r \in Nat /\ n \in Nat /\ z \in Nat /\ m \in Nat
       /\ a \in Nat /\ b \in Nat /\ w \in Nat /\ k \in Nat /\ Waiting \in Nat
  BY <1>1, <1>2, <1>3, <1>5, <1>6
<1>18. s + r = a + b + 1
  <2>1. a + b = s + r - 1
    BY <1>5
  <2> QED BY ONLY <1>17, <2>1
<1>19. w + s = z + a + 1
  <2>1. w - a = z - s + 1
    BY <1>6
  <2> QED BY ONLY <1>17, <2>1
<1>7. Pieces(p, m, a, u, b)
  <2>1. a + u <= Waiting /\ a + u + b <= n - 1 /\ w >= 0
    BY <1>1, <1>2, <1>5, <1>6
  <2> QED BY <1>1, <1>5, <2>1 DEF Pieces, w, n
<1> DEFINE o(i) == IF i < k THEN i ELSE i + 1
<1>15. Len(p) = n - 1
  BY DEF n
<1>8. ASSUME NEW i \in 1..Len(p)
      PROVE  /\ i \in Nat /\ i \in 1..(n - 1) /\ o(i) \in 1..n /\ o(i) \in Nat /\ p[i] = q[o(i)]
             /\ i <= a + u + b <=> o(i) <= s + u + r
             /\ a < i <=> s < o(i)
             /\ i <= a + u <=> o(i) <= s + u
  <2>1. i \in 1..(n - 1)
    BY <1>15
  <2>2. \A j : j = (IF i < k THEN i ELSE i + 1) =>
           /\ j \in 1..n
           /\ i <= a + u + b <=> j <= s + u + r
           /\ a < i <=> s < j
           /\ i <= a + u <=> j <= s + u
    BY <1>16, <2>1 DEF Moves
  <2>3. p[i] = q[o(i)]
    BY <2>1 DEF n
  <2>4. i \in Nat /\ \A j \in 1..n : j \in Nat
    BY <2>1
  <2> QED BY <2>1, <2>2, <2>3, <2>4
<1> HIDE DEF o
<1>9. Shape(p, a, u, b)
  <2> SUFFICES ASSUME NEW i \in 1..Len(p)
               PROVE  /\ p[i].pending = IF i <= a + u + b THEN "transmitted" ELSE "queued"
                      /\ p[i].sent = -1 <=> (a < i /\ i <= a + u) \/ a + u + b < i
    BY DEF Shape
  <2> DEFINE j == o(i)
  <2>1. /\ i \in Nat /\ j \in 1..n /\ j \in Nat /\ p[i] = q[j]
        /\ i <= a + u + b <=> j <= s + u + r
        /\ a < i <=> s < j
        /\ i <= a + u <=> j <= s + u
    BY <1>8
  <2> HIDE DEF j
  <2>2. /\ q[j].pending = IF j <= s + u + r THEN "transmitted" ELSE "queued"
        /\ q[j].sent = -1 <=> (s < j /\ j <= s + u) \/ s + u + r < j
    BY <2>1 DEF Timely, Shape, n
  <2> DEFINE c == a + u + b
             d == s + u + r
  <2>6. c \in Nat /\ d \in Nat
    BY ONLY <1>17
  <2>4. i <= c <=> j <= d
    BY <2>1
  <2> HIDE DEF c, d
  <2>7. i \in Nat /\ j \in Nat
    BY <2>1
  <2>5. c < i <=> d < j
    BY ONLY <2>4, <2>6, <2>7
  <2>3. a + u + b < i <=> s + u + r < j
    BY <2>5 DEF c, d
  <2> QED BY <2>1, <2>2, <2>3
<1>10. UnsentOK(p, sc, lt, m, a, u, b)
  <2>1. ASSUME NEW i \in 1..Len(p), NEW j \in 1..Len(p), a < i, i < j, j <= a + u
        PROVE  p[i].age >= p[j].age
    <3> DEFINE c == o(i)
               d == o(j)
    <3>1. /\ i \in Nat /\ c \in 1..n /\ c \in Nat /\ p[i] = q[c]
          /\ a < i <=> s < c
      BY <1>8
    <3>2. /\ j \in Nat /\ d \in 1..n /\ d \in Nat /\ p[j] = q[d]
          /\ j <= a + u <=> d <= s + u
      BY <1>8
    <3>3. c < d
      BY <1>3, <2>1, <3>1, <3>2 DEF o
    <3> HIDE DEF c, d
    <3>5. q[c].age >= q[d].age
      BY <2>1, <3>1, <3>2, <3>3 DEF Timely, UnsentOK, n
    <3> QED BY <3>1, <3>2, <3>5
  <2>2. ASSUME u >= 1
        PROVE  p[a + 1].age + Due(sc, lt) + Rounds(u - 1) + Passes(Len(p) - a - u - b + m) <= Oldest
    <3>1. a + 1 \in 1..Len(p) /\ o(a + 1) = s + 1
      <4>1. (a + 1) + 1 = a + 2
        BY <1>5
      <4> QED BY <1>5, <1>15, <2>2, <4>1 DEF o
    <3>2. p[a + 1] = q[s + 1]
      BY <1>8, <3>1
    <3>3. Len(p) - a - u - b + m = n - s - u - r + m
      <4>1. n - 1 - a - u - b + m = n - s - u - r + m
        BY ONLY <1>17, <1>18
      <4> QED BY <1>15, <4>1
    <3>4. q[s + 1].age + Due(sc, lt) + Rounds(u - 1) + Passes(n - s - u - r + m) <= Oldest
      BY <2>2 DEF Timely, UnsentOK, n
    <3> QED BY <3>2, <3>3, <3>4
  <2> QED BY <2>1, <2>2 DEF UnsentOK
<1>11. ResentOK(p, sc, 0, m, a, u)
  <2> SUFFICES ASSUME a = 1
               PROVE  /\ p[1].age <= Oldest + sc
                      /\ sc <= Answer + Passes(w) + 0
                      /\ p[1].sent >= sc \/ p[1].sent > Answer
    BY DEF ResentOK, w
  <2>9. a = 1 /\ s = 1 /\ 1 < k
    BY <1>5
  <2>10. w = z + 1
    BY ONLY <1>17, <1>19, <2>9
  <2>1. s = 1 /\ w = z + 1 /\ 1 < k
    BY <2>9, <2>10
  <2>2. 1 \in 1..Len(p) /\ o(1) = 1
    BY <1>1, <1>3, <1>14, <1>15, <2>1 DEF o
  <2>3. p[1] = q[1]
    BY <1>8, <2>2
  <2>4. q[1].age <= Oldest + sc /\ sc <= Answer + Passes(z) + lt /\ (q[1].sent >= sc \/ q[1].sent > Answer)
    BY <2>1 DEF Timely, ResentOK, z
  <2>5. z \in Int
    BY <1>1
  <2> DEFINE pz == Passes(z)
             pw == Passes(w)
  <2>6. pz \in Int /\ pw = pz + MaxPass
    BY <2>1, <2>5, PassesAre
  <2>7. sc <= Answer + pz + lt
    BY <2>4
  <2> HIDE DEF pz, pw
  <2>8. sc <= Answer + pw + 0
    BY <1>2, <1>3, <2>6, <2>7
  <2> QED BY <2>3, <2>4, <2>8 DEF pw
<1>12. NewSentOK(p, 0, m, a, u, b)
  <2> SUFFICES ASSUME NEW i \in 1..Len(p), a + u < i /\ i <= a + u + b
               PROVE  p[i].age <= Passes(New) + (IF p[i].sent < Answer THEN p[i].sent
                                                 ELSE Answer + Passes(w + Waiting - a - u) + 0)
    BY DEF NewSentOK, w
  <2> DEFINE j == o(i)
             y == z + Waiting - s - u
             v == w + Waiting - a - u
             py == Passes(y)
             pv == Passes(v)
             pn == Passes(New)
             t == q[j].sent
             g == q[j].age
  <2>8. i \in Nat /\ j \in 1..n /\ j \in Nat /\ p[i] = q[j]
    BY <1>8
  <2>9. (i <= a + u + b <=> j <= s + u + r) /\ (i <= a + u <=> j <= s + u)
    BY <1>8
  <2>10. a + u < i /\ i <= a + u + b
    OBVIOUS
  <2>11. j <= s + u + r
    BY <2>9, <2>10
  <2>12. s + u < j
    <3> HIDE DEF j
    <3>1. i \in Nat /\ j \in Nat
      BY <2>8
    <3>2. (i <= a + u <=> j <= s + u) /\ a + u < i
      BY <2>9, <2>10
    <3> QED BY ONLY <1>17, <3>1, <3>2
  <2>1. j \in 1..n /\ p[i] = q[j] /\ s + u < j /\ j <= s + u + r
    BY <2>8, <2>11, <2>12
  <2>2. g <= pn + (IF t < Answer THEN t ELSE Answer + py + lt)
    BY <2>1 DEF Timely, NewSentOK, n, z
  <2>3. v = y + 1 /\ y \in Int
    BY ONLY <1>17, <1>19
  <2>4. g \in Nat /\ t \in Int
    BY <2>1, RowsAre DEF n
  <2> HIDE DEF y, v, g, t, j
  <2>5. py \in Int /\ pv = py + MaxPass
    BY <2>3, PassesAre
  <2>6. pn \in Nat
    BY EnoughTime
  <2> HIDE DEF py, pv, pn
  <2>7. g <= pn + (IF t < Answer THEN t ELSE Answer + pv + 0)
    BY <1>2, <1>3, <2>2, <2>4, <2>5, <2>6
  <2> QED BY <2>1, <2>7 DEF g, t, v, pv, pn
<1>13. NewQueuedOK(p, lt, m, a, u, b)
  <2> SUFFICES ASSUME NEW i \in 1..Len(p), a + u + b < i
               PROVE  p[i].age <= Passes(w + b) + lt
    BY DEF NewQueuedOK, w
  <2>1. i \in Nat /\ o(i) \in 1..n /\ o(i) \in Nat /\ p[i] = q[o(i)] /\ (i <= a + u + b <=> o(i) <= s + u + r)
    BY <1>8
  <2> DEFINE j == o(i)
  <2>2. j \in 1..n /\ j \in Nat
    BY <2>1
  <2> HIDE DEF j
  <2>3. ~(i <= a + u + b)
    BY <1>1, <1>5, <2>1
  <2>4. ~(j <= s + u + r)
    BY <2>1, <2>3 DEF j
  <2>5. s + u + r < j
    BY <1>1, <2>2, <2>4
  <2>6. q[j].age <= Passes(z + r) + lt
    BY <2>2, <2>5 DEF Timely, NewQueuedOK, n, z
  <2> QED BY <1>6, <2>1, <2>6 DEF j
<1> QED BY <1>7, <1>9, <1>10, <1>11, <1>12, <1>13 DEF Timely

(* What a pass sends.  Without an item in a pending state, none is found.   *)
LEMMA DequeueNone ==
  ASSUME NEW S, NEW q \in Seq(S), NEW pending, \A i \in 1..Len(q) : q[i].pending # pending
  PROVE  Dequeue(q, pending) = 0
<1> DEFINE I == {i \in 1..Len(q) : q[i].pending = pending}
<1>1. Dequeue(q, pending) = IF I = {} THEN 0 ELSE Min(I)
  BY DEF Dequeue, SelectInSeq
<1>2. I = {}
  OBVIOUS
<1> QED BY <1>1, <1>2

(* The first QUEUED item is sent.                                           *)
LEMMA SendNewTimely ==
  ASSUME Enough, NEW q \in Seq(Row), NEW sc \in Nat, NEW lt \in 0..MaxPass, NEW m \in 0..New,
         NEW s, NEW u, NEW r, Timely(q, sc, lt, 0, m, s, u, r),
         NEW k \in 1..Len(q), k = s + u + r + 1,
         NEW p \in Seq(Row), p = Sent(q, k), NEW b, b = r + 1
  PROVE  Timely(p, sc, 0, 0, m, s, u, b)
<1> DEFINE n == Len(q)
           z == Gone(q, m, s, u)
<1>1. /\ s \in 0..1 /\ u \in Nat /\ r \in Nat /\ n \in Nat /\ s + u <= Waiting
      /\ z \in Nat /\ z + r + m <= New /\ s + u + r <= n /\ z = New - m - (n - s - u)
  BY PiecesAre DEF Timely
<1>2. /\ Waiting \in Nat /\ New \in Nat /\ Period \in Nat /\ Answer \in Nat /\ MaxPass \in Nat
  BY TimingFacts
<1>3. lt \in Nat /\ m \in Nat /\ lt <= MaxPass
  BY <1>2
<1>4. Len(p) = n /\ \A i \in 1..n : p[i].age = q[i].age /\ (i # k => p[i] = q[i])
  BY SentIs
<1>5. k \in 1..n /\ p[k].pending = "transmitted" /\ p[k].sent = IF q[k].sent = -1 THEN 0 ELSE q[k].sent
  BY SentIs
<1>6. q[k].sent = -1
  <2>1. s + u + r < k
    BY <1>1
  <2> QED BY <2>1 DEF Timely, Shape
<1>7. p[k].sent = 0
  BY <1>5, <1>6
<1> HIDE DEF n, z
<1>8. Gone(p, m, s, u) = z
  BY <1>4 DEF Gone, z, n
<1>9. s \in Nat /\ k \in Nat /\ b \in Nat /\ z + b <= New /\ s + u + b <= n
  <2>1. s + u + r + 1 <= n
    BY <1>1, <1>5
  <2> QED BY <1>1, <1>2, <1>3, <2>1
<1>10. Pieces(p, m, s, u, b)
  <2>1. z >= 0
    BY <1>1
  <2> QED BY <1>1, <1>4, <1>8, <1>9, <2>1 DEF Pieces
<1>11. Shape(p, s, u, b)
  <2> SUFFICES ASSUME NEW i \in 1..Len(p)
               PROVE  /\ p[i].pending = IF i <= s + u + b THEN "transmitted" ELSE "queued"
                      /\ p[i].sent = -1 <=> (s < i /\ i <= s + u) \/ s + u + b < i
    BY DEF Shape
  <2>1. i \in 1..n /\ i \in Nat
    BY <1>4
  <2>2. CASE i = k
    <3>1. i <= s + u + b /\ ~(i <= s + u) /\ ~(s + u + b < i)
      BY <1>1, <2>2
    <3> QED BY <1>5, <1>7, <2>2, <3>1
  <2>3. CASE i # k
    <3>1. p[i] = q[i]
      BY <1>4, <2>1, <2>3
    <3>2. /\ q[i].pending = IF i <= s + u + r THEN "transmitted" ELSE "queued"
          /\ q[i].sent = -1 <=> (s < i /\ i <= s + u) \/ s + u + r < i
      BY <2>1 DEF Timely, Shape, n
    <3>3. (i <= s + u + b <=> i <= s + u + r) /\ (s + u + b < i <=> s + u + r < i)
      <4> DEFINE c == s + u
      <4>1. c \in Nat
        BY <1>1
      <4> HIDE DEF c
      <4>2. i # c + r + 1
        BY <2>3 DEF c
      <4>3. (i <= c + b <=> i <= c + r) /\ (c + b < i <=> c + r < i)
        BY <1>1, <2>1, <4>1, <4>2, BoundMoves
      <4> QED BY <4>3 DEF c
    <3> QED BY <3>1, <3>2, <3>3
  <2> QED BY <2>2, <2>3
<1>12. UnsentOK(p, sc, 0, m, s, u, b)
  <2>1. ASSUME NEW i \in 1..Len(p), NEW j \in 1..Len(p), s < i, i < j, j <= s + u
        PROVE  p[i].age >= p[j].age
    <3>1. i \in 1..n /\ j \in 1..n
      BY <1>4
    <3>2. q[i].age >= q[j].age
      BY <2>1, <3>1 DEF Timely, UnsentOK, n
    <3> QED BY <1>4, <3>1, <3>2
  <2>2. ASSUME u >= 1
        PROVE  p[s + 1].age + Due(sc, 0) + Rounds(u - 1) + Passes(Len(p) - s - u - b + m) <= Oldest
    <3> DEFINE a == q[s + 1].age
               d == Due(sc, lt)
               f == Due(sc, 0)
               v == u - 1
               rv == Rounds(v)
               x == n - s - u - r + m
               y == n - s - u - b + m
               px == Passes(x)
               py == Passes(y)
    <3>1. s + 1 \in 1..n
      BY <1>1, <2>2
    <3>2. a + d + rv + px <= Oldest
      BY <2>2 DEF Timely, UnsentOK, n
    <3>3. f <= d + MaxPass
      BY <1>2, <1>3 DEF Due
    <3>4. d \in Nat /\ f \in Nat
      <4>1. 0 \in 0..MaxPass
        BY <1>2
      <4> QED BY <4>1, DueIs
    <3>5. y \in Int /\ x = y + 1 /\ v \in Int
      BY <1>1, <1>3
    <3>6. a \in Nat
      BY <3>1, RowsAre DEF n
    <3> HIDE DEF a, d, f, v, x, y
    <3>7. py \in Int /\ px = py + MaxPass
      BY <3>5, PassesAre
    <3>8. rv \in Int
      BY <3>5, RoundsAre
    <3>9. Oldest \in Nat
      BY EnoughTime
    <3> HIDE DEF rv, px, py
    <3>10. a \in Nat /\ d \in Nat /\ f \in Nat /\ rv \in Int /\ py \in Int /\ Oldest \in Nat /\ MaxPass \in Nat
      BY <1>2, <3>4, <3>6, <3>7, <3>8, <3>9
    <3>11. px = py + MaxPass
      BY <3>7
    <3>12. a + f + rv + py <= Oldest
      BY ONLY <3>2, <3>3, <3>10, <3>11
    <3>13. p[s + 1].age = a
      BY <1>4, <3>1 DEF a
    <3> QED BY <1>4, <3>12, <3>13 DEF f, v, rv, y, py
  <2> QED BY <2>1, <2>2 DEF UnsentOK
<1>13. ResentOK(p, sc, 0, m, s, u)
  <2> SUFFICES ASSUME s = 1
               PROVE  /\ p[1].age <= Oldest + sc
                      /\ sc <= Answer + Passes(z) + 0
                      /\ p[1].sent >= sc \/ p[1].sent > Answer
    BY <1>8 DEF ResentOK
  <2>1. 1 \in 1..n /\ 1 # k
    BY <1>1
  <2>2. p[1] = q[1]
    BY <1>4, <2>1
  <2> QED BY <2>2 DEF Timely, ResentOK, z
<1>14. NewSentOK(p, 0, m, s, u, b)
  <2> SUFFICES ASSUME NEW i \in 1..Len(p), s + u < i, i <= s + u + b
               PROVE  p[i].age <= Passes(New) + (IF p[i].sent < Answer THEN p[i].sent
                                                 ELSE Answer + Passes(z + Waiting - s - u) + 0)
    BY <1>8 DEF NewSentOK
  <2>1. i \in 1..n /\ i \in Nat
    BY <1>4
  <2>2. CASE i = k
    <3> DEFINE a == q[k].age
               y == z + r
               v == y + 1
               x == z + Waiting - s - u
               py == Passes(y)
               pv == Passes(v)
               px == Passes(x)
               pn == Passes(New)
    <3>1. a <= py + lt
      <4>1. s + u + r < k
        BY <1>1
      <4> QED BY <1>5, <4>1 DEF Timely, NewQueuedOK, n, z
    <3>2. a \in Nat /\ p[k].age = a
      BY <1>4, <1>5, RowsAre DEF n
    <3>3. y \in Int /\ v <= New /\ v \in Int /\ New \in Int /\ x \in Nat
      BY <1>1, <1>2, <1>9
    <3> HIDE DEF a, y, x
    <3>4. py \in Int /\ pv = py + MaxPass
      BY <3>3, PassesAre
    <3> HIDE DEF v
    <3>5. pv <= pn
      BY <3>3, PassesAre
    <3>6. px \in Int
      BY <3>3, PassesAre
    <3>7. px >= 0
      BY <3>3, PassesAdd
    <3>8. pn \in Nat
      BY EnoughTime
    <3> HIDE DEF py, pv, px, pn
    <3>9. a <= pn
      BY <1>2, <1>3, <3>1, <3>2, <3>4, <3>5, <3>8
    <3>10. a <= pn + (IF 0 < Answer THEN 0 ELSE Answer + px + 0)
      BY <1>2, <3>2, <3>6, <3>7, <3>8, <3>9
    <3> QED BY <1>7, <2>2, <3>2, <3>10 DEF x, px, pn
  <2>3. CASE i # k
    <3>1. p[i] = q[i]
      BY <1>4, <2>1, <2>3
    <3>2. i <= s + u + r
      BY <1>1, <2>1, <2>3
    <3> QED BY <2>1, <3>1, <3>2 DEF Timely, NewSentOK, n, z
  <2> QED BY <2>2, <2>3
<1>15. NewQueuedOK(p, 0, m, s, u, b)
  <2> SUFFICES ASSUME NEW i \in 1..Len(p), s + u + b < i
               PROVE  p[i].age <= Passes(z + b) + 0
    BY <1>8 DEF NewQueuedOK
  <2> DEFINE a == q[i].age
             y == z + r
             py == Passes(y)
  <2>1. i \in 1..n /\ i \in Nat
    BY <1>4
  <2>2. s + u + r < i
    BY <1>1, <2>1
  <2>3. a <= py + lt
    BY <2>1, <2>2 DEF Timely, NewQueuedOK, n, z
  <2>4. a \in Nat /\ p[i].age = a
    BY <1>4, <2>1, RowsAre DEF n
  <2>9. y \in Int
    BY <1>1
  <2>10. z + (r + 1) = (z + r) + 1
    BY <1>1
  <2>5. y \in Int /\ z + b = y + 1
    BY <2>9, <2>10
  <2> HIDE DEF a, y
  <2>6. py \in Int /\ Passes(y + 1) = py + MaxPass
    BY <2>5, PassesAre
  <2> DEFINE pv == Passes(y + 1)
  <2>7. pv = py + MaxPass
    BY <2>6
  <2> HIDE DEF py, pv
  <2>11. py \in Int
    BY <2>6
  <2>12. a \in Nat /\ lt \in Nat /\ MaxPass \in Nat /\ lt <= MaxPass
    BY <1>2, <1>3, <2>4
  <2>13. py + lt <= py + MaxPass
    BY <2>11, <2>12
  <2>8. a <= pv + 0
    <3>1. pv + 0 = py + MaxPass
      BY <2>7, <2>11, <2>12
    <3> QED BY <2>3, <2>11, <2>12, <2>13, <3>1
  <2> QED BY <2>4, <2>5, <2>8 DEF pv
<1> QED BY <1>10, <1>11, <1>12, <1>13, <1>14, <1>15 DEF Timely

(* Nothing is QUEUED and it is not time to send again.                      *)
LEMMA QuietTimely ==
  ASSUME Enough, NEW q \in Seq(Row), NEW sc \in Nat, NEW lt \in 0..MaxPass, NEW m \in 0..New,
         NEW s, NEW u, NEW r, Timely(q, sc, lt, 0, m, s, u, r),
         Len(q) = s + u + r, sc < Period
  PROVE  Timely(q, sc, 0, 0, m, s, u, r)
<1>1. s \in 0..1 /\ u \in Nat /\ r \in Nat
  BY PiecesAre DEF Timely
<1>2. Due(sc, lt) = Due(sc, 0)
  BY DEF Due
<1>3. UnsentOK(q, sc, 0, m, s, u, r)
  BY <1>2 DEF Timely, UnsentOK
<1>4. NewQueuedOK(q, 0, m, s, u, r)
  <2>1. \A i \in 1..Len(q) : ~(s + u + r < i)
    BY <1>1
  <2> QED BY <2>1 DEF NewQueuedOK
<1> QED BY <1>3, <1>4 DEF Timely

(* When it is time to send again, what was sent again is acknowledged.      *)
LEMMA NoneAwaited ==
  ASSUME Enough, NEW q \in Seq(Row), NEW sc \in Nat, NEW lt \in 0..MaxPass, NEW m \in 0..New,
         NEW s, NEW u, NEW r, Timely(q, sc, lt, 0, m, s, u, r), sc >= Period
  PROVE  s = 0
<1> DEFINE z == Gone(q, m, s, u)
           pz == Passes(z)
           pn == Passes(New)
<1>1. s \in 0..1 /\ z \in Int /\ z <= New /\ New \in Int
  <2>1. /\ s \in 0..1 /\ r \in Nat /\ z \in Nat /\ z + r + m <= New
    BY PiecesAre DEF Timely
  <2>2. New \in Nat /\ m \in Nat
    BY TimingFacts
  <2> HIDE DEF z
  <2> QED BY <2>1, <2>2
<1>2. SUFFICES ASSUME s = 1 PROVE FALSE
  BY <1>1
<1>3. sc <= Answer + pz + 0
  BY <1>2 DEF Timely, ResentOK
<1> HIDE DEF z
<1>4. pz \in Int
  BY <1>1, PassesAre
<1>5. pz <= pn
  BY <1>1, PassesAre
<1>6. pn \in Nat /\ Answer + pn + MaxPass <= Period
  BY EnoughTime
<1>7. Answer \in Nat /\ MaxPass \in Nat /\ MaxPass >= 1 /\ Period \in Nat
  BY TimingFacts
<1> HIDE DEF pz, pn
<1> QED BY ONLY sc \in Nat, sc >= Period, <1>3, <1>4, <1>5, <1>6, <1>7

(* It is time: the oldest is too young to be sent again.                    *)
LEMMA YoungTimely ==
  ASSUME Enough, NEW q \in Seq(Row), NEW sc \in Nat, NEW lt \in 0..MaxPass, NEW m \in 0..New,
         NEW s, NEW u, NEW r, Timely(q, sc, lt, 0, m, s, u, r), Len(q) = s + u + r,
         sc >= Period, Len(q) >= 1 => q[1].age <= Period
  PROVE  Timely(q, 0, 0, 0, m, s, u, r)
<1> DEFINE n == Len(q)
<1>1. /\ s = 0 /\ u \in Nat /\ r \in Nat /\ n \in Nat /\ s + u <= Waiting
  BY PiecesAre, NoneAwaited DEF Timely
<1>2. /\ Waiting \in Nat /\ New \in Nat /\ Period \in Nat /\ MaxPass \in Nat
  BY TimingFacts
<1>3. ResentOK(q, 0, 0, m, s, u)
  BY <1>1 DEF ResentOK
<1>4. NewQueuedOK(q, 0, m, s, u, r)
  <2>1. \A i \in 1..Len(q) : ~(s + u + r < i)
    BY <1>1
  <2> QED BY <2>1 DEF NewQueuedOK
<1>5. UnsentOK(q, 0, 0, m, s, u, r)
  <2>1. \A i, j \in 1..Len(q) : s < i /\ i < j /\ j <= s + u => q[i].age >= q[j].age
    BY DEF Timely, UnsentOK
  <2>2. ASSUME u >= 1
        PROVE  q[s + 1].age + Due(0, 0) + Rounds(u - 1) + Passes(Len(q) - s - u - r + m) <= Oldest
    <3> DEFINE a == q[s + 1].age
               d == Due(0, 0)
               v == u - 1
               rv == Rounds(v)
               x == Len(q) - s - u - r + m
               px == Passes(x)
               pn == Passes(New)
               rw == Rounds(Waiting)
    <3>1. 1 \in 1..n /\ n >= 1 /\ s + 1 = 1
      BY <1>1, <2>2
    <3>2. a \in Nat /\ a <= Period
      BY <3>1, RowsAre
    <3>3. 0 \in Nat /\ 0 \in 0..MaxPass
      BY <1>2
    <3>4. d \in Nat /\ d <= Period + MaxPass
      BY <3>3, DueIs
    <3>5. x \in Int /\ x <= New /\ New \in Int /\ v \in Int /\ v + 1 <= Waiting /\ v + 1 \in Int /\ Waiting \in Int
      BY <1>1, <1>2
    <3> HIDE DEF a, d, v, x
    <3>6. px \in Int
      BY <3>5, PassesAre
    <3>7. px <= pn
      BY <3>5, PassesAre
    <3>8. rv \in Int /\ Rounds(v + 1) = rv + Period + MaxPass
      BY <3>5, RoundsAre
    <3>9. Rounds(v + 1) <= rw
      BY <3>5, RoundsAre
    <3>10. pn \in Nat /\ rw \in Nat /\ Oldest \in Nat /\ Period + rw + pn <= Oldest
      BY EnoughTime
    <3> HIDE DEF rv, px, pn, rw
    <3>11. rv + Period + MaxPass <= rw
      BY <3>8, <3>9
    <3>12. a + d + rv + px <= Oldest
      BY <1>2, <3>2, <3>4, <3>6, <3>7, <3>8, <3>10, <3>11
    <3> QED BY <3>12 DEF a, d, v, rv, x, px
  <2> QED BY <2>1, <2>2 DEF UnsentOK
<1> QED BY <1>3, <1>4, <1>5 DEF Timely

(* It is time and the oldest is sent again: it waited for that, or it is a  *)
(* new one, sent before.                                                    *)
LEMMA ResendTimely ==
  ASSUME Enough, NEW q \in Seq(Row), NEW sc \in Nat, NEW lt \in 0..MaxPass, NEW m \in 0..New,
         NEW s, NEW u, NEW r, Timely(q, sc, lt, 0, m, s, u, r), Len(q) = s + u + r,
         sc >= Period, Len(q) >= 1, NEW p \in Seq(Row), p = Sent(q, 1)
  PROVE  \E a \in 0..1, c \in Nat : Timely(p, 0, 0, 0, m, a, c, r)
<1> DEFINE n == Len(q)
           z == Gone(q, m, s, u)
<1>1. /\ s = 0 /\ u \in Nat /\ r \in Nat /\ n \in Nat /\ s + u <= Waiting
      /\ z \in Nat /\ z + r + m <= New /\ z = New - m - (n - s - u) /\ n = s + u + r /\ n >= 1
  BY PiecesAre, NoneAwaited DEF Timely
<1>2. /\ Waiting \in Nat /\ New \in Nat /\ Period \in Nat /\ MaxPass \in Nat /\ Answer \in Nat
  BY TimingFacts
<1>3. m \in Nat /\ 1 \in 1..n
  BY <1>1, <1>2
<1>4. Len(p) = n /\ \A i \in 1..n : p[i].age = q[i].age /\ (i # 1 => p[i] = q[i])
  BY <1>3, SentIs
<1>5. p[1].pending = "transmitted" /\ p[1].sent = IF q[1].sent = -1 THEN 0 ELSE q[1].sent
  BY <1>3, SentIs
<1> HIDE DEF n, z
<1>6. ASSUME NEW i \in 1..n
      PROVE  /\ i \in Nat /\ q[i].pending = "transmitted"
             /\ q[i].sent = -1 <=> i <= u
             /\ q[i].age \in Nat
  <2>1. i \in Nat /\ i <= s + u + r /\ ~(s + u + r < i) /\ s < i /\ (i <= s + u <=> i <= u)
    BY <1>1, <1>6
  <2>2. /\ q[i].pending = IF i <= s + u + r THEN "transmitted" ELSE "queued"
        /\ q[i].sent = -1 <=> (s < i /\ i <= s + u) \/ s + u + r < i
    BY DEF Timely, Shape, n
  <2>3. q[i].age \in Nat
    BY RowsAre DEF n
  <2> QED BY <2>1, <2>2, <2>3
<1>7. CASE u = 0
  <2>1. q[1].sent # -1
    BY <1>3, <1>6, <1>7
  <2>2. \A i \in 1..n : p[i].age = q[i].age /\ p[i].sent = q[i].sent /\ p[i].pending = "transmitted"
    BY <1>4, <1>5, <1>6, <2>1
  <2>3. Gone(p, m, 0, 0) = z
    BY <1>1, <1>4, <1>7 DEF Gone, n, z
  <2>4. Pieces(p, m, 0, 0, r)
    BY <1>1, <1>2, <1>4, <1>7, <2>3 DEF Pieces
  <2>5. Shape(p, 0, 0, r)
    <3> SUFFICES ASSUME NEW i \in 1..n
                 PROVE  /\ p[i].pending = IF i <= 0 + 0 + r THEN "transmitted" ELSE "queued"
                        /\ p[i].sent = -1 <=> (0 < i /\ i <= 0 + 0) \/ 0 + 0 + r < i
      BY <1>4 DEF Shape
    <3>1. i <= 0 + 0 + r /\ ~(i <= 0 + 0) /\ ~(0 + 0 + r < i) /\ ~(i <= u)
      BY <1>1, <1>7
    <3> QED BY <1>6, <2>2, <3>1
  <2>6. UnsentOK(p, 0, 0, m, 0, 0, r)
    <3>1. \A i, j \in 1..Len(p) : ~(0 < i /\ i < j /\ j <= 0 + 0)
      BY <1>1, <1>4
    <3> QED BY <3>1 DEF UnsentOK
  <2>7. ResentOK(p, 0, 0, m, 0, 0)
    BY DEF ResentOK
  <2>8. NewSentOK(p, 0, m, 0, 0, r)
    <3> SUFFICES ASSUME NEW i \in 1..n, 0 + 0 < i, i <= 0 + 0 + r
                 PROVE  p[i].age <= Passes(New) + (IF p[i].sent < Answer THEN p[i].sent
                                                   ELSE Answer + Passes(z + Waiting - 0 - 0) + 0)
      BY <1>4, <2>3 DEF NewSentOK
    <3>1. s = 0 /\ u = 0
      BY <1>1, <1>7
    <3>2. q[i].age <= Passes(New) + (IF q[i].sent < Answer THEN q[i].sent
                                     ELSE Answer + Passes(z + Waiting - 0 - 0) + 0)
      BY <3>1 DEF Timely, NewSentOK, n, z
    <3> QED BY <2>2, <3>2
  <2>9. NewQueuedOK(p, 0, m, 0, 0, r)
    <3>1. \A i \in 1..Len(p) : ~(0 + 0 + r < i)
      BY <1>1, <1>4, <1>7
    <3> QED BY <3>1 DEF NewQueuedOK
  <2>10. Timely(p, 0, 0, 0, m, 0, 0, r) /\ 0 \in 0..1 /\ 0 \in Nat
    BY <2>4, <2>5, <2>6, <2>7, <2>8, <2>9 DEF Timely
  <2> QED BY <2>10
<1>8. CASE u # 0
  <2> DEFINE c == u - 1
  <2>1. c \in Nat /\ u = c + 1 /\ 1 <= u
    BY <1>1, <1>8
  <2> HIDE DEF c
  <2>2. p[1].sent = 0
    BY <1>3, <1>5, <1>6, <2>1
  <2>3. Gone(p, m, 1, c) = z
    <3>1. New - m - (n - 1 - c) = z
      BY <1>1, <1>2, <1>3, <2>1
    <3> QED BY <1>4, <3>1 DEF Gone
  <2>4. Pieces(p, m, 1, c, r)
    <3>1. 1 \in 0..1 /\ 1 + c <= Waiting /\ 1 + c + r <= n /\ z >= 0
      BY <1>1, <1>2, <2>1
    <3> QED BY <1>1, <1>4, <2>1, <2>3, <3>1 DEF Pieces
  <2>5. Shape(p, 1, c, r)
    <3> SUFFICES ASSUME NEW i \in 1..n
                 PROVE  /\ p[i].pending = IF i <= 1 + c + r THEN "transmitted" ELSE "queued"
                        /\ p[i].sent = -1 <=> (1 < i /\ i <= 1 + c) \/ 1 + c + r < i
      BY <1>4 DEF Shape
    <3>1. i \in Nat /\ i <= 1 + c + r /\ ~(1 + c + r < i) /\ (i <= 1 + c <=> i <= u)
      BY <1>1, <2>1
    <3>2. CASE i = 1
      BY <1>5, <2>2, <3>1, <3>2
    <3>3. CASE i # 1
      <4>1. 1 < i
        BY <3>3
      <4> QED BY <1>4, <1>6, <3>1, <3>3, <4>1
    <3> QED BY <3>2, <3>3
  <2>6. q[1].age + Due(sc, lt) + Rounds(c) + Passes(m) <= Oldest
    <3>1. s + 1 = 1 /\ u >= 1 /\ u - 1 = c /\ Len(q) - s - u - r + m = m
      BY <1>1, <1>3, <2>1 DEF n
    <3>2. q[s + 1].age + Due(sc, lt) + Rounds(u - 1) + Passes(Len(q) - s - u - r + m) <= Oldest
      BY <3>1 DEF Timely, UnsentOK
    <3> QED BY <3>1, <3>2
  <2> DEFINE a == q[1].age
             d == Due(sc, lt)
             rc == Rounds(c)
             pm == Passes(m)
  <2>7. a \in Nat /\ d \in Nat
    BY <1>3, <1>6, DueIs
  <2>8. m \in Int /\ c \in Int
    BY <1>3, <2>1
  <2>9. pm \in Int
    BY <2>8, PassesAre
  <2>10. pm >= 0
    BY <1>3, PassesAdd
  <2>11. rc \in Int
    BY <2>8, RoundsAre
  <2>12. Oldest \in Nat
    BY EnoughTime
  <2>13. a + d + rc + pm <= Oldest
    BY <2>6
  <2>14. rc >= 0
    <3>1. Passes(c) \in Int
      BY <2>8, PassesAre
    <3>2. Passes(c) >= 0 /\ rc >= Passes(c)
      BY <2>1, PassesAdd
    <3> HIDE DEF rc
    <3> QED BY <2>11, <3>1, <3>2
  <2> HIDE DEF a, d, rc, pm
  <2>15. UnsentOK(p, 0, 0, m, 1, c, r)
    <3>1. ASSUME NEW i \in 1..Len(p), NEW j \in 1..Len(p), 1 < i, i < j, j <= 1 + c
          PROVE  p[i].age >= p[j].age
      <4>1. i \in 1..n /\ j \in 1..n /\ s < i /\ j <= s + u
        BY <1>1, <1>4, <2>1, <3>1
      <4>2. q[i].age >= q[j].age
        BY <3>1, <4>1 DEF Timely, UnsentOK, n
      <4> QED BY <1>4, <4>1, <4>2
    <3>2. ASSUME c >= 1
          PROVE  p[1 + 1].age + Due(0, 0) + Rounds(c - 1) + Passes(Len(p) - 1 - c - r + m) <= Oldest
      <4> DEFINE e == q[2].age
                 f == Due(0, 0)
                 v == c - 1
                 rv == Rounds(v)
      <4>1. 2 \in 1..n /\ s < 1 /\ 1 < 2 /\ 2 <= s + u /\ 1 + 1 = 2
        BY <1>1, <2>1, <3>2
      <4>2. e \in Nat /\ p[2].age = e
        BY <1>4, <1>6, <4>1
      <4>3. e <= a
        <5>1. q[1].age >= q[2].age
          BY <1>3, <4>1 DEF Timely, UnsentOK, n
        <5> QED BY <2>7, <4>2, <5>1 DEF a
      <4>4. 0 \in Nat /\ 0 \in 0..MaxPass
        BY <1>2
      <4>5. f \in Nat /\ f <= Period + MaxPass
        BY <4>4, DueIs
      <4>6. v \in Int /\ c = v + 1
        BY <2>1
      <4> HIDE DEF e, f, v
      <4>7. rv \in Int /\ Rounds(v + 1) = rv + Period + MaxPass
        BY <4>6, RoundsAre
      <4>8. rc = rv + Period + MaxPass
        BY <4>6, <4>7 DEF rc
      <4> HIDE DEF rv
      <4>9. e + f + rv + pm <= Oldest
        BY <1>2, <2>7, <2>9, <2>12, <2>13, <4>2, <4>3, <4>5, <4>7, <4>8
      <4>10. n - 1 - c - r + m = m
        BY <1>1, <1>3, <2>1
      <4> QED BY <1>4, <4>1, <4>2, <4>9, <4>10 DEF f, v, rv, pm
    <3> QED BY <3>1, <3>2 DEF UnsentOK
  <2>16. ResentOK(p, 0, 0, m, 1, c)
    <3> SUFFICES /\ p[1].age <= Oldest + 0
                 /\ 0 <= Answer + Passes(z) + 0
                 /\ p[1].sent >= 0
      BY <2>3 DEF ResentOK
    <3>1. p[1].age = a
      BY <1>3, <1>4 DEF a
    <3>2. a <= Oldest + 0
      BY <2>7, <2>9, <2>10, <2>11, <2>12, <2>13, <2>14
    <3> DEFINE pz == Passes(z)
    <3>3. z \in Int /\ z \in Nat
      BY <1>1
    <3>4. pz \in Int
      BY <3>3, PassesAre
    <3>5. pz >= 0
      BY <3>3, PassesAdd
    <3> HIDE DEF pz
    <3>6. 0 <= Answer + pz + 0
      BY <1>2, <3>4, <3>5
    <3> QED BY <2>2, <3>1, <3>2, <3>6 DEF pz
  <2>17. NewSentOK(p, 0, m, 1, c, r)
    <3> SUFFICES ASSUME NEW i \in 1..n, 1 + c < i, i <= 1 + c + r
                 PROVE  p[i].age <= Passes(New) + (IF p[i].sent < Answer THEN p[i].sent
                                                   ELSE Answer + Passes(z + Waiting - 1 - c) + 0)
      BY <1>4, <2>3 DEF NewSentOK
    <3>1. s + u < i /\ i <= s + u + r /\ i # 1 /\ z + Waiting - s - u = z + Waiting - 1 - c
      BY <1>1, <1>2, <2>1
    <3>2. q[i].age <= Passes(New) + (IF q[i].sent < Answer THEN q[i].sent
                                     ELSE Answer + Passes(z + Waiting - s - u) + 0)
      BY <3>1 DEF Timely, NewSentOK, n, z
    <3> QED BY <1>4, <3>1, <3>2
  <2>18. NewQueuedOK(p, 0, m, 1, c, r)
    <3>1. \A i \in 1..Len(p) : ~(1 + c + r < i)
      BY <1>1, <1>4, <2>1
    <3> QED BY <3>1 DEF NewQueuedOK
  <2>19. Timely(p, 0, 0, 0, m, 1, c, r) /\ 1 \in 0..1
    BY <2>4, <2>5, <2>15, <2>16, <2>17, <2>18 DEF Timely
  <2> QED BY <2>1, <2>19
<1> QED BY <1>7, <1>8

(* A pass finds all items of the line, and reads at most one                *)
(* acknowledgement: what is overdue is read.                                *)
LEMMA FreshIsLine ==
  ASSUME Enough, NEW q \in Seq(Row), q = line, NEW sc \in Nat, NEW lt \in 0..MaxPass,
         NEW m \in 0..New, NEW s, NEW u, NEW r, Timely(q, sc, lt, lt, m, s, u, r)
  PROVE  Fresh = q
<1> DEFINE I == {i \in DOMAIN q : q[i].age > Expiry}
<1>1. Fresh = Without(q, I)
  BY DEF Fresh
<1>2. ASSUME NEW i \in 1..Len(q) PROVE i \notin I
  <2>1. q[i].age <= Expiry
    BY NoneTooOld
  <2>2. q[i].age \in Nat /\ Expiry \in Nat
    BY RowsAre, TimingFacts
  <2> DEFINE a == q[i].age
  <2>3. a \in Nat /\ a <= Expiry
    BY <2>1, <2>2
  <2> HIDE DEF a
  <2>4. ~(a > Expiry)
    BY <2>2, <2>3
  <2> QED BY <2>4 DEF a
<1> HIDE DEF I
<1> QED BY <1>1, <1>2, WithoutNone

LEMMA PassReads ==
  ASSUME Enough, NEW q \in Seq(Row), q = Fresh, NEW sc \in Nat, NEW lt \in 0..MaxPass,
         NEW m \in 0..New, NEW s, NEW u, NEW r, Timely(q, sc, lt, lt, m, s, u, r),
         NEW p \in Read
  PROVE  p \in Seq(Row) /\ \E a \in 0..1, b \in Nat : Timely(p, sc, lt, 0, m, a, u, b)
<1>1. /\ s \in 0..1 /\ u \in Nat /\ r \in Nat /\ Len(q) \in Nat /\ s + u + r <= Len(q)
  BY PiecesAre DEF Timely
<1>2. \A i \in 1..Len(q) : q[i].sent \in Int /\ q[i].sent >= -1
  BY RowsAre
<1>3. DOMAIN q = 1..Len(q)
  OBVIOUS
<1>4. CASE \E i \in Acknowledged : p = RemoveAt(q, i)
  <2>1. PICK k \in 1..Len(q) : q[k].sent >= 0 /\ p = RemoveAt(q, k)
    BY <1>3, <1>4 DEF Acknowledged
  <2>2. p = DeleteItem(q, k)
    BY <1>3, <2>1 DEF DeleteItem
  <2>3. p \in Seq(Row) /\ Len(p) = Len(q) - 1
    BY <1>3, <2>2, DeleteItemLeaves
  <2>4. \A i \in 1..(Len(q) - 1) : p[i] = q[IF i < k THEN i ELSE i + 1]
    BY <1>3, <2>2, DeleteItemLeaves
  <2>5. \A i \in 1..(Len(q) - 1) : p[i] = IF i < k THEN q[i] ELSE q[i + 1]
    BY <2>4
  <2>6. q[k].sent # -1
    BY <1>2, <2>1
  <2>7. ~((s < k /\ k <= s + u) \/ s + u + r < k)
    BY <2>6 DEF Timely, Shape
  <2>8. k \in Nat /\ k >= 1
    BY <1>1
  <2>9. CASE k <= s
    <3>1. k = 1 /\ s = 1
      BY <1>1, <2>8, <2>9
    <3>2. Removable(k, s, u, r, 0, r)
      BY <3>1 DEF Removable
    <3>3. Timely(p, sc, lt, 0, m, 0, u, r)
      BY <2>3, <2>5, <3>2, ReadTimely
    <3>4. 0 \in 0..1
      OBVIOUS
    <3> QED BY <1>1, <2>3, <3>3, <3>4
  <2>10. CASE ~(k <= s)
    <3> DEFINE b == r - 1
    <3>1. s + u < k /\ k <= s + u + r
      BY <1>1, <2>7, <2>8, <2>10
    <3>2. b \in Nat
      BY <1>1, <2>8, <3>1
    <3>3. Removable(k, s, u, r, s, b)
      BY <3>1 DEF Removable
    <3> HIDE DEF b
    <3>4. Timely(p, sc, lt, 0, m, s, u, b)
      BY <2>3, <2>5, <3>3, ReadTimely
    <3> QED BY <1>1, <2>3, <3>2, <3>4
  <2> QED BY <2>9, <2>10
<1>5. CASE Overdue = {} /\ p = q
  <2>1. ASSUME NEW i \in 1..Len(q) PROVE q[i].sent < Answer
    <3> DEFINE t == q[i].sent
    <3>1. ~(t >= Answer)
      BY <1>3, <1>5 DEF Overdue
    <3>2. t \in Int /\ Answer \in Nat
      BY <1>2, TimingFacts
    <3> HIDE DEF t
    <3>3. t < Answer
      BY <3>1, <3>2
    <3> QED BY <3>3 DEF t
  <2>2. ResentOK(q, sc, 0, m, s, u)
    <3> SUFFICES ASSUME s = 1
                 PROVE  /\ q[1].age <= Oldest + sc
                        /\ sc <= Answer + Passes(Gone(q, m, s, u)) + 0
                        /\ q[1].sent >= sc \/ q[1].sent > Answer
      BY DEF ResentOK
    <3> DEFINE t == q[1].sent
               z == Gone(q, m, s, u)
               pz == Passes(z)
    <3>1. q[1].age <= Oldest + sc /\ (t >= sc \/ t > Answer)
      BY DEF Timely, ResentOK
    <3>2. 1 \in 1..Len(q)
      BY <1>1
    <3>3. t < Answer /\ t \in Int
      BY <1>2, <2>1, <3>2
    <3>4. z \in Nat /\ z \in Int
      BY PiecesAre DEF Timely
    <3> HIDE DEF t, z
    <3>5. pz \in Int
      BY <3>4, PassesAre
    <3>6. pz >= 0
      BY <3>4, PassesAdd
    <3>7. Answer \in Nat
      BY TimingFacts
    <3> HIDE DEF pz
    <3>8. sc <= Answer + pz + 0
      BY <3>1, <3>3, <3>5, <3>6, <3>7
    <3> QED BY <3>1, <3>8 DEF t, z, pz
  <2>3. NewSentOK(q, 0, m, s, u, r)
    <3> SUFFICES ASSUME NEW i \in 1..Len(q), s + u < i /\ i <= s + u + r
                 PROVE  q[i].age <= Passes(New) + q[i].sent
      BY <2>1 DEF NewSentOK
    <3> QED BY <2>1 DEF Timely, NewSentOK
  <2>4. Timely(q, sc, lt, 0, m, s, u, r)
    BY <2>2, <2>3 DEF Timely
  <2> QED BY <1>1, <1>5, <2>4
<1> QED BY <1>4, <1>5 DEF Read

LEMMA PassSends ==
  ASSUME Enough, NEW q \in Seq(Row), since \in Nat, NEW lt \in 0..MaxPass, NEW m \in 0..New,
         NEW s, NEW u, NEW r, Timely(q, since, lt, 0, m, s, u, r), Send(q)
  PROVE  /\ line' \in Seq(Row) /\ since' \in Nat
         /\ \E a \in 0..1, b \in Nat, c \in Nat : Timely(line', since', 0, 0, m, a, b, c)
<1> DEFINE sc == since
           queued == Dequeue(q, "queued")
           first == Dequeue(q, "transmitted")
<1>1. /\ s \in 0..1 /\ u \in Nat /\ r \in Nat /\ Len(q) \in Nat /\ s + u + r <= Len(q)
  BY PiecesAre DEF Timely
<1>2. \A i \in 1..Len(q) : q[i].pending = IF i <= s + u + r THEN "transmitted" ELSE "queued"
  BY DEF Timely, Shape
<1>3. since \in Nat /\ Period \in Nat
  BY TimingFacts
<1>4. IF queued # 0
        THEN line' = Sent(q, queued) /\ since' = since
        ELSE IF since >= Period
          THEN /\ since' = 0
               /\ line' = IF first # 0 /\ q[first].age > Period THEN Sent(q, first) ELSE q
          ELSE line' = q /\ since' = since
  BY DEF Send
<1> HIDE DEF queued, first
<1>5. CASE Len(q) # s + u + r
  <2> DEFINE k == s + u + r + 1
             b == r + 1
  <2>1. k \in 1..Len(q) /\ k \in Nat /\ b \in Nat
    BY <1>1, <1>5
  <2>2. q[k].pending = "queued"
    <3>1. ~(k <= s + u + r)
      BY <1>1
    <3> QED BY <1>2, <2>1, <3>1
  <2>3. \A i \in 1..Len(q) : i < k => q[i].pending # "queued"
    <3> SUFFICES ASSUME NEW i \in 1..Len(q), i < k PROVE q[i].pending # "queued"
      OBVIOUS
    <3>1. i <= s + u + r
      BY <1>1
    <3> QED BY <1>2, <3>1
  <2> HIDE DEF k
  <2>4. queued = k
    BY <2>1, <2>2, <2>3, DequeueFirst DEF queued
  <2>5. line' = Sent(q, k) /\ since' = since
    BY <1>4, <2>1, <2>4
  <2>6. Sent(q, k) \in Seq(Row)
    BY <2>1, SentIs
  <2> HIDE DEF b
  <2>7. Timely(Sent(q, k), since, 0, 0, m, s, u, b)
    BY <1>3, <2>1, <2>6, SendNewTimely DEF k, b
  <2> QED BY <1>1, <1>3, <2>1, <2>5, <2>6, <2>7
<1>6. CASE Len(q) = s + u + r
  <2>1. \A i \in 1..Len(q) : q[i].pending = "transmitted"
    BY <1>1, <1>2, <1>6
  <2>2. \A i \in 1..Len(q) : q[i].pending # "queued"
    BY <2>1
  <2>3. queued = 0
    BY <2>2, DequeueNone DEF queued
  <2>4. CASE since < Period
    <3>1. line' = q /\ since' = since
      BY <1>3, <1>4, <2>3, <2>4
    <3>2. Timely(q, since, 0, 0, m, s, u, r)
      BY <1>3, <1>6, <2>4, QuietTimely
    <3> QED BY <1>1, <1>3, <3>1, <3>2
  <2>5. CASE ~(since < Period)
    <3>1. since >= Period
      BY <1>3, <2>5
    <3>2. since' = 0 /\ line' = IF first # 0 /\ q[first].age > Period THEN Sent(q, first) ELSE q
      BY <1>4, <2>3, <3>1
    <3>3. CASE Len(q) = 0
      <4>1. \A i \in 1..Len(q) : q[i].pending # "transmitted"
        BY <3>3
      <4>2. first = 0
        BY <4>1, DequeueNone DEF first
      <4>3. line' = q
        BY <3>2, <4>2
      <4>4. Len(q) >= 1 => q[1].age <= Period
        BY <3>3
      <4>5. Timely(q, 0, 0, 0, m, s, u, r)
        BY <1>3, <1>6, <3>1, <4>4, YoungTimely
      <4> QED BY <1>1, <3>2, <4>3, <4>5
    <3>4. CASE Len(q) # 0
      <4>1. Len(q) >= 1 /\ 1 \in 1..Len(q)
        BY <1>1, <3>4
      <4>2. \A i \in 1..Len(q) : i < 1 => q[i].pending # "transmitted"
        OBVIOUS
      <4>3. first = 1
        BY <2>1, <4>1, <4>2, DequeueFirst DEF first
      <4>4. CASE q[1].age > Period
        <5>1. line' = Sent(q, 1)
          BY <3>2, <4>3, <4>4
        <5>2. Sent(q, 1) \in Seq(Row)
          BY <4>1, SentIs
        <5>3. \E a \in 0..1, c \in Nat : Timely(Sent(q, 1), 0, 0, 0, m, a, c, r)
          BY <1>3, <1>6, <3>1, <4>1, <5>2, ResendTimely
        <5> QED BY <1>1, <3>2, <5>1, <5>2, <5>3
      <4>5. CASE ~(q[1].age > Period)
        <5>1. line' = q
          BY <3>2, <4>3, <4>5
        <5> DEFINE a == q[1].age
        <5>2. a \in Nat /\ ~(a > Period)
          BY <4>1, <4>5, RowsAre
        <5> HIDE DEF a
        <5>3. a <= Period
          BY <1>3, <5>2
        <5>4. Len(q) >= 1 => q[1].age <= Period
          BY <5>3 DEF a
        <5>5. Timely(q, 0, 0, 0, m, s, u, r)
          BY <1>3, <1>6, <3>1, <5>4, YoungTimely
        <5> QED BY <1>1, <3>2, <5>1, <5>5
      <4> QED BY <4>4, <4>5
    <3> QED BY <3>3, <3>4
  <2> QED BY <2>4, <2>5
<1> QED BY <1>5, <1>6

(* Every step keeps the times.                                              *)
LEMMA TimingStep ==
  ASSUME Enough, TimingInv, TimingNext PROVE TimingInv'
<1>1. line \in Seq(Row) /\ since \in Nat /\ late \in 0..MaxPass /\ more \in 0..New /\ lost = 0
  BY DEF TimingInv, TimingTypeOK
<1>2. PICK s \in 0..1, u \in Nat, r \in Nat : Timely(line, since, late, late, more, s, u, r)
  BY DEF TimingInv
<1>3. MaxPass \in Nat /\ New \in Nat /\ Answer \in Nat /\ Period \in Nat
  BY TimingFacts
<1>4. ASSUME Tick PROVE TimingInv'
  <2> DEFINE f(i) == [line[i] EXCEPT !.age = @ + 1,
                                     !.sent = IF @ = -1 \/ @ > Answer THEN @ ELSE @ + 1]
             p == [i \in DOMAIN line |-> f(i)]
             e == IF since > Period THEN since ELSE since + 1
             l == late + 1
  <2>1. line' = p /\ since' = e /\ late' = l /\ more' = more /\ lost' = lost /\ late < MaxPass
    BY <1>4 DEF Tick
  <2>12. e \in Nat
    BY <1>1
  <2>13. l \in 0..MaxPass
    <3>1. late \in Nat
      BY <1>1, <1>3
    <3>2. late < MaxPass
      BY <1>4 DEF Tick
    <3> HIDE DEF f, p, e
    <3> QED BY <1>3, <3>1, <3>2
  <2>2. e \in Nat /\ l \in 0..MaxPass
    BY <2>12, <2>13
  <2>3. ASSUME NEW i \in 1..Len(line)
        PROVE  /\ f(i) \in Row
               /\ f(i).pending = line[i].pending
               /\ f(i).age = line[i].age + 1
               /\ f(i).sent = IF line[i].sent = -1 \/ line[i].sent > Answer
                                THEN line[i].sent ELSE line[i].sent + 1
    <3> DEFINE x == line[i]
               a == x.age + 1
               t == IF x.sent = -1 \/ x.sent > Answer THEN x.sent ELSE x.sent + 1
    <3>1. x \in Row
      BY <1>1, RowsAre
    <3>2. x.age \in Nat /\ x.sent \in Int /\ x.sent >= -1
      BY <1>1, RowsAre
    <3>3. a \in Nat /\ t \in Int /\ t >= -1
      BY <1>3, <3>2
    <3>4. t \in {k \in Int : k >= -1}
      BY <3>3
    <3>5. f(i) = [x EXCEPT !.age = a, !.sent = t]
      BY <3>1 DEF Row
    <3> HIDE DEF a, t, f, x
    <3>6. /\ f(i) \in Row /\ f(i).pending = x.pending /\ f(i).age = a /\ f(i).sent = t
      BY <3>1, <3>3, <3>4, <3>5 DEF Row
    <3> QED BY <3>6 DEF a, t, x
  <2>4. DOMAIN line = 1..Len(line) /\ Len(line) \in Nat
    BY <1>1
  <2> HIDE DEF f
  <2>5. p \in Seq(Row) /\ Len(p) = Len(line) /\ \A i \in 1..Len(line) : p[i] = f(i)
    <3>1. p \in [1..Len(line) -> Row] /\ \A i \in 1..Len(line) : p[i] = f(i)
      BY <2>3, <2>4
    <3> HIDE DEF p
    <3> QED BY <2>4, <3>1, SeqDef
  <2>6. \A i \in 1..Len(line) :
           /\ p[i].pending = line[i].pending
           /\ p[i].age = line[i].age + 1
           /\ p[i].sent = IF line[i].sent = -1 \/ line[i].sent > Answer
                            THEN line[i].sent ELSE line[i].sent + 1
    BY <2>3, <2>5
  <2>7. e = (IF since > Period THEN since ELSE since + 1) /\ l = late + 1
    OBVIOUS
  <2> HIDE DEF p, e, l
  <2>8. Timely(p, e, l, l, more, s, u, r)
    BY <1>1, <1>2, <2>1, <2>2, <2>5, <2>6, <2>7, TickTimely
  <2>9. TimingTypeOK'
    BY <1>1, <2>1, <2>2, <2>5 DEF TimingTypeOK
  <2>10. Timely(line', since', late', late', more', s, u, r)
    BY <2>1, <2>8
  <2>11. lost' = 0
    BY <1>1, <2>1
  <2> QED BY <1>2, <2>9, <2>10, <2>11 DEF TimingInv
<1>5. ASSUME EnqueueNew PROVE TimingInv'
  <2> DEFINE x == [pending |-> "queued", age |-> 0, sent |-> -1]
             p == Append(line, x)
             k == more - 1
  <2>1. more > 0 /\ more' = k /\ line' = p /\ since' = since /\ late' = late /\ lost' = lost
    BY <1>5 DEF EnqueueNew, Enqueue
  <2>2. -1 \in {j \in Int : j >= -1} /\ 0 \in Nat
    OBVIOUS
  <2>3. x \in Row /\ x.pending = "queued" /\ x.age = 0 /\ x.sent = -1
    BY <2>2 DEF Row
  <2> HIDE DEF x
  <2>4. p \in Seq(Row)
    BY <1>1, <2>3
  <2>5. k \in 0..New /\ k = more - 1
    BY <1>1, <1>3, <2>1
  <2>6. p = Append(line, x)
    OBVIOUS
  <2> HIDE DEF p, k
  <2>7. Timely(p, since, late, late, k, s, u, r)
    BY <1>1, <1>2, <2>1, <2>3, <2>4, <2>5, <2>6, EnqueueTimely
  <2>8. TimingTypeOK'
    BY <1>1, <2>1, <2>4, <2>5 DEF TimingTypeOK
  <2>9. Timely(line', since', late', late', more', s, u, r)
    BY <2>1, <2>7
  <2> QED BY <1>1, <1>2, <2>1, <2>8, <2>9 DEF TimingInv
<1>6. ASSUME Pass PROVE TimingInv'
  <2>1. PICK p \in Read : Send(p)
    BY <1>6 DEF Pass
  <2>2. late' = 0 /\ more' = more /\ lost' = lost + Len(line) - Len(Fresh)
    BY <1>6 DEF Pass
  <2>3. Fresh = line
    BY <1>1, <1>2, FreshIsLine
  <2>4. lost' = 0
    BY <1>1, <2>2, <2>3
  <2>5. p \in Seq(Row) /\ \E a \in 0..1, b \in Nat : Timely(p, since, late, 0, more, a, u, b)
    BY <1>1, <1>2, <2>1, <2>3, PassReads
  <2>6. PICK a \in 0..1, b \in Nat : Timely(p, since, late, 0, more, a, u, b)
    BY <2>5
  <2>7. /\ line' \in Seq(Row) /\ since' \in Nat
        /\ \E c \in 0..1, d \in Nat, e \in Nat : Timely(line', since', 0, 0, more, c, d, e)
    BY <1>1, <2>1, <2>5, <2>6, PassSends
  <2>8. TimingTypeOK'
    <3>1. 0 \in 0..MaxPass
      BY <1>3
    <3> QED BY <1>1, <2>2, <2>7, <3>1 DEF TimingTypeOK
  <2>9. \E c \in 0..1, d \in Nat, e \in Nat : Timely(line', since', late', late', more', c, d, e)
    BY <2>2, <2>7
  <2> QED BY <2>4, <2>8, <2>9 DEF TimingInv
<1> QED BY <1>4, <1>5, <1>6 DEF TimingNext

TimingKept == Enough => IF part = "timing" THEN TimingInv ELSE lost = 0

(* The messages a broken connection left unacknowledged are all sent again  *)
(* and acknowledged before OUTBOX_EXPIRED_TIMEOUT_MS, and so are the new    *)
(* ones, whatever the constants are, if they leave the time for it.         *)
THEOREM NoneExpiresHolds == Spec => []NoneExpires
<1>1. Init => TimingKept
  BY TimelyStart DEF Init, TimingKept
<1>2. TimingKept /\ [Next]_vars => TimingKept'
  <2> SUFFICES ASSUME TimingKept, [Next]_vars, Enough
               PROVE  IF part' = "timing" THEN TimingInv' ELSE lost' = 0
    BY DEF TimingKept, Enough
  <2>4. part' = part
    BY DEF Next, vars, OnlySession, OnlyOutbox
  <2>5. UNCHANGED timingVars \/ (part = "timing" /\ TimingNext)
    BY DEF Next, vars, OnlySession, OnlyOutbox
  <2>1. part' = part /\ (UNCHANGED timingVars \/ (part = "timing" /\ TimingNext))
    BY <2>4, <2>5
  <2>2. CASE UNCHANGED timingVars
    BY <2>1, <2>2 DEF TimingKept, TimingInv, TimingTypeOK, timingVars
  <2>3. CASE part = "timing" /\ TimingNext
    BY <2>1, <2>3, TimingStep DEF TimingKept
  <2> QED BY <2>1, <2>2, <2>3
<1>3. TimingKept => NoneExpires
  BY DEF TimingKept, NoneExpires, TimingInv
<1> QED BY <1>1, <1>2, <1>3, PTL DEF Spec
=============================================================================
