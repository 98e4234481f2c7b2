---------------------------- MODULE PredictionProofs --------------------------
(* Theorems about predict() of the device.  The way of a tree from the      *)
(* exporter (module Forest), for every tree, every row and every limit on   *)
(* the indices a record can hold: the descent stays inside the embedded     *)
(* file, the exporter marks the leaves, and the device predicts what the    *)
(* trained tree predicts.  The election (module Vote), for every number of  *)
(* trees and classes that fits in eight bits.                               *)
EXTENDS Forest, Vote, SequenceTheorems, FiniteSetTheorems, WellFoundedInduction, TLAPS

-----------------------------------------------------------------------------
(* Induction.  No theorem of the library that takes a predicate can be used *)
(* by the provers: instead a set that is not empty has a least element, and *)
(* a statement about all nodes is one about a set of nodes.                 *)

LEMMA Least ==
  ASSUME NEW I \in SUBSET Nat, I # {}
  PROVE  \E x \in I : \A y \in I : x <= y
<1> DEFINE Below(x) == {y \in I : y <= x}
           T == {Below(x) : x \in I}
<1>1. IsWellFoundedOn(StrictSubsetOrdering(Nat), FiniteSubsetsOf(Nat))
  BY FS_StrictSubsetOrderingWellFounded
<1>2. T \subseteq FiniteSubsetsOf(Nat)
  <2> SUFFICES ASSUME NEW x \in I PROVE Below(x) \in FiniteSubsetsOf(Nat)
    OBVIOUS
  <2>1. IsFiniteSet(Below(x))
    BY FS_BoundedSetOfNaturals
  <2> QED BY <2>1 DEF FiniteSubsetsOf
<1>3. T # {}
  OBVIOUS
<1>4. PICK J \in T : \A K \in T : ~(<<K, J>> \in StrictSubsetOrdering(Nat))
  <2> HIDE DEF T
  <2> QED BY <1>1, <1>2, <1>3, WFMin
<1>5. PICK x \in I : J = Below(x)
  BY <1>4
<1>6. \A y \in I : x <= y
  <2> SUFFICES ASSUME NEW y \in I, y < x PROVE FALSE
    OBVIOUS
  <2>1. x \in Below(x) /\ x \notin Below(y)
    OBVIOUS
  <2>2. Below(y) \subseteq Below(x)
    <3> SUFFICES ASSUME NEW z \in I, z <= y PROVE z <= x
      OBVIOUS
    <3>1. x \in Nat /\ y \in Nat /\ z \in Nat
      OBVIOUS
    <3> QED BY <3>1
  <2>3. <<Below(y), Below(x)>> \in StrictSubsetOrdering(Nat)
    BY <2>1, <2>2 DEF StrictSubsetOrdering
  <2> QED BY <1>4, <1>5, <2>3
<1> QED BY <1>6

LEMMA Greatest ==
  ASSUME NEW n \in Nat, NEW I \in SUBSET (0..n), I # {}
  PROVE  \E x \in I : \A y \in I : y <= x
<1> DEFINE J == {n - x : x \in I}
<1>1. J \in SUBSET Nat /\ J # {}
  <2>1. \A x \in I : n - x \in Nat
    OBVIOUS
  <2> QED BY <2>1
<1>2. PICK k \in J : \A y \in J : k <= y
  <2> HIDE DEF J
  <2> QED BY <1>1, Least
<1>3. PICK x \in I : k = n - x
  BY <1>2
<1>4. \A y \in I : y <= x
  <2> SUFFICES ASSUME NEW y \in I PROVE y <= x
    OBVIOUS
  <2>1. n - x <= n - y /\ x \in 0..n /\ y \in 0..n
    BY <1>2, <1>3
  <2> QED BY <2>1
<1> QED BY <1>4

(* A recursion over the numbers below n whose value at i depends on those   *)
(* after i has a solution.                                                  *)
OnlyLater(n, V, g) ==
  \A i \in 0..(n - 1) : \A e, f \in [0..(n - 1) -> V] :
    (\A k \in (i + 1)..(n - 1) : e[k] = f[k]) => g[i][e] = g[i][f]
HasSolution(n, V, g) == \E f \in [0..(n - 1) -> V] : \A i \in 0..(n - 1) : f[i] = g[i][f]

LEMMA RecursionFromTheEnd ==
  ASSUME NEW n \in Nat, NEW V, NEW v \in V,
         NEW g \in [0..(n - 1) -> [[0..(n - 1) -> V] -> V]], OnlyLater(n, V, g)
  PROVE  HasSolution(n, V, g)
<1> DEFINE Solves(f, m) == \A i \in m..(n - 1) : f[i] = g[i][f]
           Solvable(m) == \E f \in [0..(n - 1) -> V] : Solves(f, m)
           I == {m \in 0..n : Solvable(m)}
<1>1. Solvable(n)
  <2>1. [i \in 0..(n - 1) |-> v] \in [0..(n - 1) -> V]
    OBVIOUS
  <2>2. \A i \in n..(n - 1) : FALSE
    OBVIOUS
  <2> QED BY <2>1, <2>2
<1>2. PICK m \in 0..n : Solvable(m) /\ \A k \in 0..n : Solvable(k) => m <= k
  <2> HIDE DEF Solvable
  <2>1. I \in SUBSET Nat
    OBVIOUS
  <2>2. n \in I
    BY <1>1
  <2>3. PICK m \in I : \A k \in I : m <= k
    <3> HIDE DEF I
    <3> QED BY <2>1, <2>2, Least
  <2> QED BY <2>3
<1>3. PICK f \in [0..(n - 1) -> V] : Solves(f, m)
  BY <1>2
<1>4. CASE m = 0
  BY <1>3, <1>4 DEF HasSolution
<1>5. CASE m # 0
  <2> DEFINE p == m - 1
             e == [f EXCEPT ![p] = g[p][f]]
  <2>1. m \in 0..n /\ p \in 0..(n - 1) /\ p \in 0..n
    BY <1>5
  <2>2. e \in [0..(n - 1) -> V] /\ e[p] = g[p][f]
    BY <2>1
  <2>3. \A k \in (p + 1)..(n - 1) : e[k] = f[k]
    BY <2>1
  <2>4. ASSUME NEW i \in p..(n - 1)
        PROVE  e[i] = g[i][e]
    <3>1. i \in 0..(n - 1) /\ \A k \in (i + 1)..(n - 1) : e[k] = f[k]
      BY <2>1, <2>3
    <3> HIDE DEF e
    <3>2. g[i][e] = g[i][f]
      BY <2>2, <3>1 DEF OnlyLater
    <3>3. e[i] = g[i][f]
      <4>1. CASE i = p
        BY <2>2, <4>1
      <4>2. CASE i # p
        <5>1. i \in (p + 1)..(n - 1) /\ i \in m..(n - 1)
          BY <2>1, <4>2
        <5> QED BY <1>3, <2>3, <5>1
      <4> QED BY <4>1, <4>2
    <3> QED BY <3>2, <3>3
  <2>5. Solvable(p)
    <3> HIDE DEF e
    <3>1. Solves(e, p)
      BY <2>4
    <3> QED BY <2>2, <3>1
  <2>6. m <= p
    <3> HIDE DEF Solvable
    <3> QED BY <1>2, <2>1, <2>5
  <2> QED BY <2>1, <2>6
<1> QED BY <1>4, <1>5

(* Induction over the nodes, as sets of them.                               *)
LEMMA FromTheEnd ==
  ASSUME NEW n \in Nat, NEW G,
         \A i \in 0..(n - 1) : (\A k \in (i + 1)..(n - 1) : k \in G) => i \in G
  PROVE  \A i \in 0..(n - 1) : i \in G
<1> DEFINE I == {i \in 0..(n - 1) : i \notin G}
<1>1. I # {} => FALSE
  <2> SUFFICES ASSUME I # {} PROVE FALSE
    OBVIOUS
  <2>1. I \in SUBSET (0..n)
    OBVIOUS
  <2>2. PICK x \in I : \A y \in I : y <= x
    <3> HIDE DEF I
    <3> QED BY <2>1, Greatest
  <2>3. \A k \in (x + 1)..(n - 1) : k \in G
    <3> SUFFICES ASSUME NEW k \in (x + 1)..(n - 1), k \notin G PROVE FALSE
      OBVIOUS
    <3>1. k \in I
      OBVIOUS
    <3>2. k <= x
      BY <2>2, <3>1
    <3> QED BY <3>2
  <2> QED BY <2>3
<1> QED BY <1>1

LEMMA FromTheRoot ==
  ASSUME NEW n \in Nat, NEW G,
         \A i \in 0..(n - 1) : (\A k \in 0..(i - 1) : k \in G) => i \in G
  PROVE  \A i \in 0..(n - 1) : i \in G
<1> DEFINE I == {i \in 0..(n - 1) : i \notin G}
<1>1. I # {} => FALSE
  <2> SUFFICES ASSUME I # {} PROVE FALSE
    OBVIOUS
  <2>1. I \in SUBSET Nat
    OBVIOUS
  <2>2. PICK x \in I : \A y \in I : x <= y
    <3> HIDE DEF I
    <3> QED BY <2>1, Least
  <2>3. \A k \in 0..(x - 1) : k \in G
    <3> SUFFICES ASSUME NEW k \in 0..(x - 1), k \notin G PROVE FALSE
      OBVIOUS
    <3>1. k \in I
      OBVIOUS
    <3>2. x <= k
      BY <2>2, <3>1
    <3> QED BY <3>2
  <2> QED BY <2>3
<1> QED BY <1>1

-----------------------------------------------------------------------------
(* What WellFormed says of a tree.                                          *)
LEMMA TreeShape ==
  ASSUME tree \in Trees
  PROVE  /\ tree.node_count \in Nat \ {0}
         /\ Nodes = 0..(tree.node_count - 1)
         /\ \A i \in Nodes : IsSplit(i) =>
              /\ tree.left[i] \in (i + 1)..(tree.node_count - 1)
              /\ tree.right[i] \in (i + 1)..(tree.node_count - 1)
         /\ \A k \in Nodes \ {0} : \E p \in 0..(k - 1) :
              IsSplit(p) /\ k \in {tree.left[p], tree.right[p]}
         /\ \A i, j \in Nodes : IsSplit(i) /\ IsSplit(j) /\ i # j =>
              {tree.left[i], tree.right[i]} \cap {tree.left[j], tree.right[j]} = {}
<1>1. WellFormed(tree)
  BY ForestAssumption
<1>2. /\ tree.node_count \in Nat \ {0}
      /\ Nodes = 0..(tree.node_count - 1)
      /\ tree.left \in [Nodes -> -1..(tree.node_count - 1)]
      /\ tree.right \in [Nodes -> -1..(tree.node_count - 1)]
  BY <1>1 DEF WellFormed, Nodes, NodesOf
<1>3. ASSUME NEW i \in Nodes
      PROVE  \/ tree.left[i] = -1 /\ tree.right[i] = -1
             \/ i < tree.left[i] /\ i < tree.right[i] /\ tree.left[i] # tree.right[i]
  BY <1>1 DEF WellFormed, Nodes
<1>4. ASSUME NEW i \in Nodes, IsSplit(i)
      PROVE  /\ tree.left[i] \in (i + 1)..(tree.node_count - 1)
             /\ tree.right[i] \in (i + 1)..(tree.node_count - 1)
  <2>1. i < tree.left[i] /\ i < tree.right[i]
    BY <1>3, <1>4 DEF IsSplit
  <2>2. tree.left[i] \in -1..(tree.node_count - 1) /\ tree.right[i] \in -1..(tree.node_count - 1)
    BY <1>2
  <2> QED BY <1>2, <2>1, <2>2
<1>5. ASSUME NEW k \in Nodes \ {0}
      PROVE  \E p \in 0..(k - 1) : IsSplit(p) /\ k \in {tree.left[p], tree.right[p]}
  <2>1. PICK p \in 0..(k - 1) : k \in {tree.left[p], tree.right[p]}
    BY <1>1 DEF WellFormed, Nodes
  <2>2. p \in Nodes /\ k # -1
    BY <1>2
  <2>3. tree.left[p] # tree.right[p]
    BY <1>3, <2>1, <2>2
  <2> QED BY <2>1, <2>3 DEF IsSplit
<1>6. ASSUME NEW i \in Nodes, NEW j \in Nodes, IsSplit(i), IsSplit(j), i # j
      PROVE  {tree.left[i], tree.right[i]} \cap {tree.left[j], tree.right[j]} = {}
  <2>1. {tree.left[i], tree.right[i]} \cap {tree.left[j], tree.right[j]} \subseteq {-1}
    BY <1>1, <1>6 DEF WellFormed, Nodes
  <2>2. tree.left[i] # -1 /\ tree.right[i] # -1
    BY <1>2, <1>4, <1>6
  <2> QED BY <2>1, <2>2
<1> QED BY <1>2, <1>4, <1>5, <1>6

(* The recursive functions of module Forest have the values they are        *)
(* defined by.                                                              *)
LEMMA SubtreeIs ==
  ASSUME tree \in Trees
  PROVE  /\ Subtree \in [Nodes -> SUBSET Nodes]
         /\ \A i \in Nodes :
              Subtree[i] = IF IsSplit(i)
                             THEN {i} \cup Subtree[tree.left[i]] \cup Subtree[tree.right[i]]
                             ELSE {i}
<1> DEFINE V == SUBSET Nodes
           D == [Nodes -> V]
           F(i, f) == IF IsSplit(i) THEN {i} \cup f[tree.left[i]] \cup f[tree.right[i]] ELSE {i}
           g == [i \in Nodes |-> [f \in D |-> F(i, f)]]
           n == tree.node_count
<1>1. n \in Nat /\ Nodes = 0..(n - 1)
  BY TreeShape
<1>2. ASSUME NEW i \in Nodes, IsSplit(i)
      PROVE  tree.left[i] \in (i + 1)..(n - 1) /\ tree.left[i] \in Nodes
             /\ tree.right[i] \in (i + 1)..(n - 1) /\ tree.right[i] \in Nodes
  BY <1>1, <1>2, TreeShape
<1>3. ASSUME NEW i \in Nodes, NEW f \in D
      PROVE  F(i, f) \in V
  BY <1>2
<1>4. g \in [Nodes -> [D -> V]]
  BY <1>3
<1>5. ASSUME NEW i \in Nodes, NEW e \in D, NEW f \in D,
             \A k \in (i + 1)..(n - 1) : e[k] = f[k]
      PROVE  g[i][e] = g[i][f]
  BY <1>2, <1>5
<1>6. \E f \in D : \A i \in Nodes : f[i] = g[i][f]
  <2>1. {} \in V /\ n \in Nat
    BY <1>1
  <2> HIDE DEF g, V, n
  <2>2. g \in [0..(n - 1) -> [[0..(n - 1) -> V] -> V]]
    BY <1>1, <1>4
  <2>3. OnlyLater(n, V, g)
    BY <1>1, <1>5 DEF OnlyLater
  <2>4. HasSolution(n, V, g)
    BY <2>1, <2>2, <2>3, RecursionFromTheEnd
  <2> QED BY <1>1, <2>4 DEF HasSolution
<1>7. PICK f \in [Nodes -> V] : f = [i \in Nodes |-> F(i, f)]
  BY <1>6
<1>8. Subtree = [i \in Nodes |-> F(i, Subtree)]
  BY <1>7 DEF Subtree
<1>9. \A i \in Nodes : Subtree[i] = F(i, Subtree)
  BY <1>8
<1>10. \A i \in Nodes : Subtree[i] \in V
  <2> DEFINE G == {i \in Nodes : Subtree[i] \in V}
  <2>1. ASSUME NEW i \in 0..(n - 1), \A k \in (i + 1)..(n - 1) : k \in G
        PROVE  i \in G
    <3>1. i \in Nodes /\ \A k \in (i + 1)..(n - 1) : Subtree[k] \in V
      BY <1>1, <2>1
    <3>2. IsSplit(i) => Subtree[tree.left[i]] \in V /\ Subtree[tree.right[i]] \in V
      BY <1>2, <3>1
    <3>3. Subtree[i] \in V
      BY <1>9, <3>1, <3>2
    <3> QED BY <3>1, <3>3
  <2> HIDE DEF G, n
  <2>2. \A i \in 0..(n - 1) : i \in G
    BY <1>1, <2>1, FromTheEnd
  <2> QED BY <1>1, <2>2 DEF G
<1> QED BY <1>8, <1>9, <1>10
(* Where scikit-learn goes on from split i.                                 *)
Way(i) ==
  IF Attribute(tree.feature[i]) <= tree.threshold[i] THEN tree.left[i] ELSE tree.right[i]

LEMMA DecisionIs ==
  ASSUME tree \in Trees
  PROVE  \A i \in Nodes : Decision[i] = IF ~IsSplit(i) THEN i ELSE Decision[Way(i)]
<1> DEFINE V == Nodes
           D == [Nodes -> V]
           F(i, f) == IF ~IsSplit(i) THEN i ELSE f[Way(i)]
           g == [i \in Nodes |-> [f \in D |-> F(i, f)]]
           n == tree.node_count
<1>1. n \in Nat \ {0} /\ Nodes = 0..(n - 1)
  BY TreeShape
<1>2. ASSUME NEW i \in Nodes, IsSplit(i)
      PROVE  Way(i) \in (i + 1)..(n - 1) /\ Way(i) \in Nodes
  <2>1. /\ tree.left[i] \in (i + 1)..(n - 1) /\ tree.left[i] \in Nodes
        /\ tree.right[i] \in (i + 1)..(n - 1) /\ tree.right[i] \in Nodes
    BY <1>1, <1>2, TreeShape
  <2> QED BY <2>1 DEF Way
<1>3. ASSUME NEW i \in Nodes, NEW f \in D
      PROVE  F(i, f) \in V
  BY <1>2
<1>4. g \in [Nodes -> [D -> V]]
  BY <1>3
<1>5. ASSUME NEW i \in Nodes, NEW e \in D, NEW f \in D,
             \A k \in (i + 1)..(n - 1) : e[k] = f[k]
      PROVE  g[i][e] = g[i][f]
  BY <1>2, <1>5
<1>6. \E f \in D : \A i \in Nodes : f[i] = g[i][f]
  <2>1. 0 \in V /\ n \in Nat
    BY <1>1
  <2> HIDE DEF g, V, n
  <2>2. g \in [0..(n - 1) -> [[0..(n - 1) -> V] -> V]]
    BY <1>1, <1>4
  <2>3. OnlyLater(n, V, g)
    BY <1>1, <1>5 DEF OnlyLater
  <2>4. HasSolution(n, V, g)
    BY <2>1, <2>2, <2>3, RecursionFromTheEnd
  <2> QED BY <1>1, <2>4 DEF HasSolution
<1>7. PICK f \in D : f = [i \in Nodes |-> F(i, f)]
  BY <1>6
<1>8. Decision = [i \in Nodes |-> F(i, Decision)]
  BY <1>7 DEF Decision, Way
<1> QED BY <1>8

LEMMA UndisputedIs ==
  ASSUME tree \in Trees
  PROVE  \A i \in Nodes : Undisputed[i] = (IsSplit(i) => ~InGap(i) /\ Undisputed[Way(i)])
<1> DEFINE V == BOOLEAN
           D == [Nodes -> V]
           F(i, f) == IsSplit(i) => ~InGap(i) /\ f[Way(i)]
           g == [i \in Nodes |-> [f \in D |-> F(i, f)]]
           n == tree.node_count
<1>1. n \in Nat \ {0} /\ Nodes = 0..(n - 1)
  BY TreeShape
<1>2. ASSUME NEW i \in Nodes, IsSplit(i)
      PROVE  Way(i) \in (i + 1)..(n - 1) /\ Way(i) \in Nodes
  <2>1. /\ tree.left[i] \in (i + 1)..(n - 1) /\ tree.left[i] \in Nodes
        /\ tree.right[i] \in (i + 1)..(n - 1) /\ tree.right[i] \in Nodes
    BY <1>1, <1>2, TreeShape
  <2> QED BY <2>1 DEF Way
<1>3. ASSUME NEW i \in Nodes, NEW f \in D
      PROVE  F(i, f) \in V
  BY <1>2
<1>4. g \in [Nodes -> [D -> V]]
  BY <1>3
<1>5. ASSUME NEW i \in Nodes, NEW e \in D, NEW f \in D,
             \A k \in (i + 1)..(n - 1) : e[k] = f[k]
      PROVE  g[i][e] = g[i][f]
  BY <1>2, <1>5
<1>6. \E f \in D : \A i \in Nodes : f[i] = g[i][f]
  <2>1. TRUE \in V /\ n \in Nat
    BY <1>1
  <2> HIDE DEF g, V, n
  <2>2. g \in [0..(n - 1) -> [[0..(n - 1) -> V] -> V]]
    BY <1>1, <1>4
  <2>3. OnlyLater(n, V, g)
    BY <1>1, <1>5 DEF OnlyLater
  <2>4. HasSolution(n, V, g)
    BY <2>1, <2>2, <2>3, RecursionFromTheEnd
  <2> QED BY <1>1, <2>4 DEF HasSolution
<1>7. PICK f \in D : f = [i \in Nodes |-> F(i, f)]
  BY <1>6
<1>8. Undisputed = [i \in Nodes |-> F(i, Undisputed)]
  BY <1>7 DEF Undisputed, Way
<1> QED BY <1>8

(* A subtree holds later nodes, the children of its splits and, of each     *)
(* node but its root, the parent.                                           *)
LEMMA SubtreeGoesDown ==
  ASSUME tree \in Trees, NEW i \in Nodes
  PROVE  /\ i \in Subtree[i]
         /\ \A k \in Subtree[i] : k \in Nodes /\ i <= k
         /\ \A p \in Subtree[i] : IsSplit(p) =>
              tree.left[p] \in Subtree[i] /\ tree.right[p] \in Subtree[i]
         /\ \A k \in Subtree[i] \ {i} : \E p \in Subtree[i] :
              p < k /\ IsSplit(p) /\ k \in {tree.left[p], tree.right[p]}
<1> DEFINE n == tree.node_count
           Good(x) ==
             /\ x \in Subtree[x]
             /\ \A k \in Subtree[x] : k \in Nodes /\ x <= k
             /\ \A p \in Subtree[x] : IsSplit(p) =>
                  tree.left[p] \in Subtree[x] /\ tree.right[p] \in Subtree[x]
             /\ \A k \in Subtree[x] \ {x} : \E p \in Subtree[x] :
                  p < k /\ IsSplit(p) /\ k \in {tree.left[p], tree.right[p]}
           G == {x \in Nodes : Good(x)}
<1>1. n \in Nat /\ Nodes = 0..(n - 1)
  BY TreeShape
<1>2. ASSUME NEW x \in 0..(n - 1), \A k \in (x + 1)..(n - 1) : k \in G
      PROVE  x \in G
  <2>1. x \in Nodes
    BY <1>1
  <2>2. CASE ~IsSplit(x)
    <3>1. Subtree[x] = {x}
      BY <2>1, <2>2, SubtreeIs
    <3> QED BY <1>1, <2>1, <2>2, <3>1
  <2>3. CASE IsSplit(x)
    <3> DEFINE a == tree.left[x]
               b == tree.right[x]
    <3>1. Subtree[x] = {x} \cup Subtree[a] \cup Subtree[b]
      BY <2>1, <2>3, SubtreeIs
    <3>2. a \in (x + 1)..(n - 1) /\ b \in (x + 1)..(n - 1)
      BY <2>1, <2>3, TreeShape
    <3>3. Good(a) /\ Good(b)
      BY <1>2, <3>2
    <3>4. a \in Int /\ b \in Int /\ x \in Int /\ x < a /\ x < b
      BY <3>2
    <3> HIDE DEF a, b
    <3>5. \A k \in Subtree[x] : k \in Nodes /\ x <= k
      BY <1>1, <2>1, <3>1, <3>3, <3>4
    <3>6. \A p \in Subtree[x] : IsSplit(p) =>
            tree.left[p] \in Subtree[x] /\ tree.right[p] \in Subtree[x]
      BY <3>1, <3>3 DEF a, b
    <3>7. ASSUME NEW k \in Subtree[x], k # x
          PROVE  \E p \in Subtree[x] : p < k /\ IsSplit(p) /\ k \in {tree.left[p], tree.right[p]}
      <4>1. CASE k \in {a, b}
        BY <2>3, <3>1, <3>4, <4>1 DEF a, b
      <4>2. CASE k \in Subtree[a] \ {a}
        BY <3>1, <3>3, <4>2
      <4>3. CASE k \in Subtree[b] \ {b}
        BY <3>1, <3>3, <4>3
      <4> QED BY <3>1, <3>7, <4>1, <4>2, <4>3
    <3> QED BY <2>1, <3>1, <3>5, <3>6, <3>7
  <2> QED BY <2>2, <2>3
<1>3. \A x \in 0..(n - 1) : x \in G
  <2> HIDE DEF G, n
  <2> QED BY <1>1, <1>2, FromTheEnd
<1> QED BY <1>1, <1>3

(* Neither below the other, two nodes have nothing below them in common:    *)
(* the first node both had would have two parents.                          *)
LEMMA SubtreesApart ==
  ASSUME tree \in Trees, NEW a \in Nodes, NEW b \in Nodes,
         a \notin Subtree[b], b \notin Subtree[a]
  PROVE  Subtree[a] \cap Subtree[b] = {}
<1> DEFINE I == Subtree[a] \cap Subtree[b]
<1> SUFFICES ASSUME I # {} PROVE FALSE
  OBVIOUS
<1>1. I \in SUBSET Nodes /\ Nodes \in SUBSET Nat
  BY TreeShape, SubtreeGoesDown
<1>2. PICK k \in I : \A y \in I : k <= y
  <2> HIDE DEF I
  <2> QED BY <1>1, Least
<1>3. k # a /\ k # b
  BY <1>2
<1>4. PICK p \in Subtree[a] : p < k /\ IsSplit(p) /\ k \in {tree.left[p], tree.right[p]}
  BY <1>3, SubtreeGoesDown
<1>5. PICK r \in Subtree[b] : r < k /\ IsSplit(r) /\ k \in {tree.left[r], tree.right[r]}
  BY <1>3, SubtreeGoesDown
<1>6. p \in Nodes /\ r \in Nodes
  BY SubtreeGoesDown
<1>7. p = r
  BY <1>4, <1>5, <1>6, TreeShape
<1>8. k <= p /\ p \in Nat /\ k \in Nat
  BY <1>1, <1>2, <1>6, <1>7
<1> QED BY <1>4, <1>8

(* A split is the only node its two subtrees do not have.                   *)
LEMMA ChildrenApart ==
  ASSUME tree \in Trees, NEW i \in Nodes, IsSplit(i)
  PROVE  /\ tree.left[i] \in Nodes /\ tree.right[i] \in Nodes
         /\ Subtree[i] = {i} \cup Subtree[tree.left[i]] \cup Subtree[tree.right[i]]
         /\ i \notin Subtree[tree.left[i]] /\ i \notin Subtree[tree.right[i]]
         /\ Subtree[tree.left[i]] \cap Subtree[tree.right[i]] = {}
<1> DEFINE a == tree.left[i]
           b == tree.right[i]
<1>1. a \in Nodes /\ b \in Nodes /\ i < a /\ i < b /\ a # b /\ Nodes \subseteq Nat
  BY TreeShape DEF IsSplit
<1>2. Subtree[i] = {i} \cup Subtree[a] \cup Subtree[b]
  BY SubtreeIs
<1>3. ASSUME NEW c \in {a, b}
      PROVE  i \notin Subtree[c]
  <2>1. c \in Nodes /\ i < c /\ c \in Nat /\ i \in Nat
    BY <1>1
  <2>2. i \in Subtree[c] => c <= i
    BY <2>1, SubtreeGoesDown
  <2> QED BY <2>1, <2>2
<1>4. ASSUME NEW c \in {a, b}, NEW e \in {a, b}, c # e
      PROVE  c \notin Subtree[e]
  <2> SUFFICES ASSUME c \in Subtree[e] PROVE FALSE
    OBVIOUS
  <2>1. e \in Nodes
    BY <1>1
  <2>2. PICK p \in Subtree[e] : IsSplit(p) /\ c \in {tree.left[p], tree.right[p]}
    BY <1>4, <2>1, SubtreeGoesDown
  <2>3. p \in Nodes /\ p # i
    BY <1>3, <2>1, SubtreeGoesDown
  <2> QED BY <2>2, <2>3, TreeShape
<1>5. Subtree[a] \cap Subtree[b] = {}
  BY <1>1, <1>4, SubtreesApart
<1> QED BY <1>1, <1>2, <1>3, <1>5

(* Every node but the root has a parent before it.                          *)
LEMMA RootIsAboveAll ==
  ASSUME tree \in Trees
  PROVE  0 \in Nodes /\ Subtree[0] = Nodes
<1> DEFINE n == tree.node_count
           G == Subtree[0]
<1>1. n \in Nat \ {0} /\ Nodes = 0..(n - 1)
  BY TreeShape
<1>2. 0 \in Nodes
  BY <1>1
<1>3. ASSUME NEW i \in 0..(n - 1), \A k \in 0..(i - 1) : k \in G
      PROVE  i \in G
  <2>1. CASE i = 0
    BY <1>2, <2>1, SubtreeGoesDown
  <2>2. CASE i # 0
    <3>1. PICK p \in 0..(i - 1) : IsSplit(p) /\ i \in {tree.left[p], tree.right[p]}
      BY <1>1, <2>2, TreeShape
    <3> QED BY <1>2, <1>3, <3>1, SubtreeGoesDown
  <2> QED BY <2>1, <2>2
<1>4. \A i \in 0..(n - 1) : i \in G
  <2>1. n \in Nat
    BY <1>1
  <2> HIDE DEF G, n
  <2> QED BY <1>3, <2>1, FromTheRoot
<1> QED BY <1>1, <1>2, <1>4, SubtreeGoesDown

-----------------------------------------------------------------------------
(* What a record the exporter has written may point at.                     *)
Points(r) == r.left \in 0..(tree.node_count - 1) /\ r.right \in 0..(tree.node_count - 1)

FileInv ==
  /\ ForestTypeOK
  /\ Len(file) \in 0..tree.node_count
  /\ \A k \in 1..Len(file) : Points(file[k])
  /\ stage = "mark" => file = <<>>
  /\ stage \in {"descend", "leaf"} => Len(file) = tree.node_count
  /\ it \in 0..(tree.node_count - 1)

LEMMA TreeFacts ==
  ASSUME tree \in Trees
  PROVE  /\ tree.node_count \in Nat \ {0}
         /\ 0 \in Nodes
         /\ tree.left \in [Nodes -> -1..(tree.node_count - 1)]
         /\ tree.right \in [Nodes -> -1..(tree.node_count - 1)]
         /\ tree.threshold \in [Nodes -> Int]
         /\ tree.class \in [Nodes -> Nat]
         /\ \A i \in Nodes :
              tree.left[i] # tree.right[i] =>
                tree.left[i] \in Nodes /\ tree.right[i] \in Nodes
         /\ \A i \in Nodes : tree.left[i] \in Nat => tree.feature[i] \in Nat
<1>1. WellFormed(tree)
  BY ForestAssumption
<1>2. /\ tree.node_count \in Nat \ {0}
      /\ tree.left \in [Nodes -> -1..(tree.node_count - 1)]
      /\ tree.right \in [Nodes -> -1..(tree.node_count - 1)]
      /\ tree.threshold \in [Nodes -> Int]
      /\ tree.class \in [Nodes -> Nat]
  BY <1>1 DEF WellFormed, Nodes
<1>3. 0 \in Nodes
  BY <1>2 DEF Nodes, NodesOf
<1>4. ASSUME NEW i \in Nodes
      PROVE  \/ tree.left[i] = -1 /\ tree.right[i] = -1
             \/ i < tree.left[i] /\ i < tree.right[i] /\ tree.feature[i] \in Nat
  BY <1>1 DEF WellFormed, Nodes
<1>5. ASSUME NEW i \in Nodes, tree.left[i] # tree.right[i]
      PROVE  tree.left[i] \in Nodes /\ tree.right[i] \in Nodes
  <2>1. i < tree.left[i] /\ i < tree.right[i] /\ i \in Nat
    BY <1>2, <1>4, <1>5 DEF Nodes, NodesOf
  <2>2. tree.left[i] \in -1..(tree.node_count - 1) /\ tree.right[i] \in -1..(tree.node_count - 1)
    BY <1>2
  <2>. QED  BY <1>2, <2>1, <2>2 DEF Nodes, NodesOf
<1>6. ASSUME NEW i \in Nodes, tree.left[i] \in Nat
      PROVE  tree.feature[i] \in Nat
  BY <1>4, <1>6
<1>. QED  BY <1>2, <1>3, <1>5, <1>6

LEMMA FloatIsInt ==
  ASSUME NEW t \in Int
  PROVE  ToFloat32(t) \in Int
BY DEF ToFloat32

(* What one more record leaves of the invariant.                            *)
LEMMA OneMoreRecord ==
  ASSUME FileInv, stage = "write", Len(file) \in Nodes, NEW r \in Record, Points(r),
         file' = Append(file, r),
         UNCHANGED <<tree, row, stage, stack, is_leaves, it>>
  PROVE  FileInv'
<1>1. file \in Seq(Record) /\ Len(file) \in Nat /\ tree.node_count \in Nat \ {0}
  BY TreeFacts, LenProperties DEF FileInv, ForestTypeOK
<1>2. /\ file' \in Seq(Record)
      /\ Len(file') = Len(file) + 1
      /\ \A i \in 1..Len(file) : file'[i] = file[i]
      /\ file'[Len(file) + 1] = r
  BY <1>1, AppendProperties
<1>3. ForestTypeOK'
  BY <1>2 DEF FileInv, ForestTypeOK, Nodes
<1>4. \A k \in 1..Len(file') : Points(file'[k])
  BY <1>1, <1>2 DEF FileInv
<1>5. Len(file') \in 0..tree.node_count
  BY <1>1, <1>2 DEF Nodes, NodesOf
<1>. QED  BY <1>3, <1>4, <1>5 DEF FileInv, Points

LEMMA ExportPreserves ==
  ASSUME FileInv, WriteLeaf \/ WriteSplit
  PROVE  FileInv'
<1>1. /\ tree \in Trees /\ is_leaves \in [Nodes -> BOOLEAN]
  BY DEF FileInv, ForestTypeOK
<1>2. Len(file) \in Nodes /\ stage = "write"
  BY DEF WriteLeaf, WriteSplit, Writing
<1>3. MaxIndex \in Nat
  BY ForestAssumption
<1>4. CASE WriteLeaf
  <2> DEFINE r == [feature |-> tree.class[Len(file)], threshold |-> 0,
                   left |-> 0, right |-> 0]
  <2>1. r \in Record
    BY <1>1, <1>2, <1>3, TreeFacts DEF Record
  <2>2. Points(r)
    BY <1>1, TreeFacts DEF Points, Nodes, NodesOf
  <2>3. file' = Append(file, r) /\ UNCHANGED <<tree, row, stage, stack, is_leaves, it>>
    BY <1>4 DEF WriteLeaf
  <2>. HIDE DEF r
  <2>. QED  BY <1>2, <2>1, <2>2, <2>3, OneMoreRecord
<1>5. CASE WriteSplit
  <2> DEFINE i == Len(file)
             r == [feature |-> tree.feature[i],
                   threshold |-> ToFloat32(tree.threshold[i]),
                   left |-> tree.left[i], right |-> tree.right[i]]
  <2>1. tree.left[i] \in 0..MaxIndex /\ tree.right[i] \in 0..MaxIndex
    BY <1>5 DEF WriteSplit, Packable
  <2>2. /\ tree.left[i] \in 0..(tree.node_count - 1)
        /\ tree.right[i] \in 0..(tree.node_count - 1)
    BY <1>1, <1>2, <1>3, <2>1, TreeFacts
  <2>3. tree.feature[i] \in Nat
    BY <1>1, <1>2, <1>3, <2>1, TreeFacts
  <2>4. r \in Record
    BY <1>1, <1>2, <2>1, <2>3, TreeFacts, FloatIsInt DEF Record
  <2>5. Points(r)
    BY <2>2 DEF Points
  <2>6. file' = Append(file, r) /\ UNCHANGED <<tree, row, stage, stack, is_leaves, it>>
    BY <1>5 DEF WriteSplit
  <2>. HIDE DEF r
  <2>. QED  BY <1>2, <2>4, <2>5, <2>6, OneMoreRecord
<1>. QED  BY <1>4, <1>5

LEMMA MarkPreserves ==
  ASSUME FileInv, VisitSplit \/ VisitLeaf
  PROVE  FileInv'
<1>1. /\ tree \in Trees /\ stack \in Seq(Nodes) /\ is_leaves \in [Nodes -> BOOLEAN]
      /\ UNCHANGED <<tree, row, stage, file, it>>
      /\ stack # <<>>
  BY DEF FileInv, ForestTypeOK, VisitSplit, VisitLeaf
<1>2. Len(stack) \in Nat \ {0}
  BY <1>1, EmptySeq
<1>3. Last(stack) \in Nodes
  <2>1. Len(stack) \in 1..Len(stack)
    BY <1>2
  <2>. QED  BY <1>1, <2>1, ElementOfSeq DEF Last
<1>4. Front(stack) \in Seq(Nodes)
  <2>1. \A k \in 1..(Len(stack) - 1) : stack[k] \in Nodes
    BY <1>1, <1>2, ElementOfSeq
  <2>. QED  BY <1>2, <2>1, SubSeqProperties DEF Front
<1>5. stack' \in Seq(Nodes)
  <2>1. CASE VisitSplit
    <3> DEFINE children == <<tree.left[Last(stack)], tree.right[Last(stack)]>>
    <3>1. stack' = Front(stack) \o children
      BY <2>1 DEF VisitSplit
    <3>2. children \in Seq(Nodes)
      <4>1. tree.left[Last(stack)] # tree.right[Last(stack)]
        BY <2>1 DEF VisitSplit, IsSplit
      <4>2. tree.left[Last(stack)] \in Nodes /\ tree.right[Last(stack)] \in Nodes
        BY <1>1, <1>3, <4>1, TreeFacts
      <4>. QED  BY <4>2
    <3>. HIDE DEF children
    <3>. QED  BY <1>4, <3>1, <3>2, ConcatProperties
  <2>2. CASE VisitLeaf
    BY <1>4, <2>2 DEF VisitLeaf
  <2>. QED  BY <2>1, <2>2
<1>6. is_leaves' \in [Nodes -> BOOLEAN]
  BY <1>1 DEF VisitSplit, VisitLeaf
<1>. QED  BY <1>1, <1>5, <1>6 DEF FileInv, ForestTypeOK, Nodes, Points

(* The descent goes from a record to one that record points at.             *)
LEMMA DescendPreserves ==
  ASSUME FileInv, Descend
  PROVE  FileInv'
<1>1. /\ tree.node_count \in Nat \ {0}
      /\ stage = "descend" /\ Len(file) = tree.node_count
      /\ it \in 0..(tree.node_count - 1)
      /\ \A k \in 1..Len(file) : Points(file[k])
      /\ UNCHANGED <<tree, row, stack, is_leaves, file>>
      /\ stage' \in {"leaf", "descend"} /\ it' = Child
  BY TreeFacts DEF FileInv, ForestTypeOK, Descend
<1>2. it + 1 \in 1..Len(file)
  BY <1>1
<1>3. Points(Node(it))
  BY <1>1, <1>2 DEF Node
<1>4. Child \in 0..(tree.node_count - 1)
  BY <1>3 DEF Child, Points
<1>. QED  BY <1>1, <1>4 DEF FileInv, ForestTypeOK, Nodes, Points

LEMMA InitFile == ForestInit => FileInv
<1>. SUFFICES ASSUME ForestInit PROVE FileInv
  OBVIOUS
<1>1. tree.node_count \in Nat \ {0} /\ 0 \in Nodes
  BY TreeFacts DEF ForestInit
<1>2. <<0>> \in Seq(Nodes) /\ <<>> \in Seq(Record) /\ Len(<<>>) = 0
  BY <1>1
<1>. QED  BY <1>1, <1>2 DEF ForestInit, FileInv, ForestTypeOK

LEMMA FileIsInductive ==
  ASSUME FileInv, [ForestNext]_forestVars
  PROVE  FileInv'
<1>1. CASE VisitSplit \/ VisitLeaf
  BY <1>1, MarkPreserves
<1>2. CASE WriteLeaf \/ WriteSplit
  BY <1>2, ExportPreserves
<1>3. CASE AllMarked \/ WriteFails
  BY <1>3 DEF AllMarked, WriteFails, Writing, FileInv, ForestTypeOK, Nodes, Points
<1>4. CASE Embed
  <2>1. tree.node_count \in Nat \ {0}
    BY TreeFacts DEF FileInv, ForestTypeOK
  <2>2. Len(file) = tree.node_count
    BY <1>4, <2>1 DEF Embed, FileInv, Nodes, NodesOf
  <2>. QED  BY <1>4, <2>1, <2>2 DEF Embed, FileInv, ForestTypeOK, Nodes, Points
<1>5. CASE Descend
  BY <1>5, DescendPreserves
<1>6. CASE UNCHANGED forestVars
  BY <1>6 DEF forestVars, FileInv, ForestTypeOK, Nodes, Points
<1>. QED  BY <1>1, <1>2, <1>3, <1>4, <1>5, <1>6 DEF ForestNext

(* Every record points into the file.                                       *)
THEOREM FileInvariance == ForestSpec => []FileInv
BY InitFile, FileIsInductive, PTL DEF ForestSpec

(* The exporter and the descent keep the types: a record never holds an     *)
(* index its field is too narrow for.                                       *)
THEOREM ForestTypeCorrect == ForestSpec => []ForestTypeOK
<1>1. FileInv => ForestTypeOK
  BY DEF FileInv
<1>. QED  BY <1>1, FileInvariance, PTL

(* predict() reads no record outside the file, although it never compares   *)
(* an index with the number of records.                                     *)
THEOREM DescentStaysInFile == ForestSpec => []DescentInFile
<1>1. FileInv => DescentInFile
  <2>. SUFFICES ASSUME FileInv, stage \in {"descend", "leaf"}
                PROVE  /\ it < Len(file)
                       /\ \A k \in DOMAIN file :
                            file[k].left < Len(file) /\ file[k].right < Len(file)
    BY DEF DescentInFile
  <2>1. /\ Len(file) = tree.node_count /\ tree.node_count \in Nat
        /\ DOMAIN file = 1..Len(file)
    BY TreeFacts, LenProperties DEF FileInv, ForestTypeOK
  <2>. QED  BY <2>1 DEF FileInv, Points
<1>. QED  BY <1>1, FileInvariance, PTL
(* The trained tree is what it was after every step.                        *)
LEMMA SameTree ==
  ASSUME UNCHANGED tree
  PROVE  Nodes' = Nodes /\ Subtree' = Subtree /\ \A i : IsSplit(i)' <=> IsSplit(i)
BY DEF Nodes, Subtree, IsSplit

(* So is what it decides for the row.                                       *)
LEMMA SameDecision ==
  ASSUME UNCHANGED <<tree, row>>
  PROVE  Decision' = Decision /\ Undisputed' = Undisputed
BY DEF Decision, Undisputed, Nodes, IsSplit, InGap, Attribute

(* While the leaves are marked every leaf is marked or still to be reached, *)
(* and nothing but leaves is marked.                                        *)
Covered ==
  stage = "mark" =>
    \A i \in Nodes : ~IsSplit(i) =>
      is_leaves[i] \/ \E j \in DOMAIN stack : i \in Subtree[stack[j]]

MarkInv ==
  /\ VisitedOnce /\ Covered /\ LeavesMarked
  /\ \A i \in Nodes : is_leaves[i] => ~IsSplit(i)

(* The root leads to every node.                                            *)
LEMMA MarkInit ==
  ASSUME ForestInit
  PROVE  MarkInv
<1>1. tree \in Trees /\ stage = "mark" /\ stack = <<0>> /\ \A i \in Nodes : ~is_leaves[i]
  BY DEF ForestInit
<1>2. Subtree[0] = Nodes
  BY <1>1, RootIsAboveAll
<1>3. DOMAIN stack = {1} /\ stack[1] = 0
  BY <1>1
<1>4. VisitedOnce
  BY <1>1, <1>2, <1>3 DEF VisitedOnce
<1>5. Covered
  BY <1>1, <1>2, <1>3 DEF Covered
<1> QED BY <1>1, <1>4, <1>5 DEF MarkInv, LeavesMarked

(* What Front and Last are.                                                 *)
LEMMA FrontAndLast ==
  ASSUME NEW S, NEW s \in Seq(S), s # <<>>
  PROVE  /\ Front(s) \in Seq(S) /\ Len(s) \in Nat \ {0}
         /\ Len(Front(s)) = Len(s) - 1
         /\ \A j \in 1..(Len(s) - 1) : Front(s)[j] = s[j]
         /\ Last(s) = s[Len(s)] /\ Last(s) \in S
<1>1. Len(s) \in Nat \ {0}
  BY EmptySeq
<1>2. \A k \in 1..(Len(s) - 1) : s[k] \in S
  BY <1>1, ElementOfSeq
<1>3. /\ Front(s) \in Seq(S) /\ Len(Front(s)) = Len(s) - 1
      /\ \A j \in 1..(Len(s) - 1) : Front(s)[j] = s[j]
  <2>1. PICK n : n = Len(s) - 1
    OBVIOUS
  <2>2. n \in Nat /\ \A k \in 1..n : s[k] \in S
    BY <1>1, <1>2, <2>1
  <2>3. /\ SubSeq(s, 1, n) \in Seq(S)
        /\ Len(SubSeq(s, 1, n)) = IF 1 <= n THEN n - 1 + 1 ELSE 0
        /\ \A j \in 1..(n - 1 + 1) : SubSeq(s, 1, n)[j] = s[1 + j - 1]
    BY <2>2, SubSeqProperties
  <2>4. Front(s) = SubSeq(s, 1, n)
    BY <2>1 DEF Front
  <2> QED BY <2>1, <2>2, <2>3, <2>4
<1>4. Last(s) = s[Len(s)] /\ Last(s) \in S
  BY <1>1, ElementOfSeq DEF Last
<1> QED BY <1>1, <1>3, <1>4

(* A split on the stack gives way to its children: what it led to, they do. *)
LEMMA VisitSplitMarks ==
  ASSUME FileInv, MarkInv, VisitSplit
  PROVE  MarkInv'
<1> DEFINE m == Len(stack)
           x == stack[m]
           a == tree.left[x]
           b == tree.right[x]
<1>1. /\ tree \in Trees /\ stack \in Seq(Nodes) /\ stack # <<>> /\ stage = "mark"
      /\ UNCHANGED <<tree, row, stage, is_leaves, file, it>>
      /\ IsSplit(Last(stack))
      /\ stack' = Front(stack) \o <<tree.left[Last(stack)], tree.right[Last(stack)]>>
  BY DEF FileInv, ForestTypeOK, VisitSplit
<1>2. /\ Front(stack) \in Seq(Nodes) /\ m \in Nat \ {0} /\ Len(Front(stack)) = m - 1
      /\ \A j \in 1..(m - 1) : Front(stack)[j] = stack[j]
      /\ Last(stack) = x /\ x \in Nodes
  BY <1>1, FrontAndLast
<1>3. /\ IsSplit(x) /\ a \in Nodes /\ b \in Nodes
      /\ Subtree[x] = {x} \cup Subtree[a] \cup Subtree[b]
      /\ Subtree[a] \cap Subtree[b] = {}
  <2>1. IsSplit(x) /\ x \in Nodes
    BY <1>1, <1>2
  <2> HIDE DEF x
  <2> QED BY <1>1, <2>1, ChildrenApart
<1>4. PICK M, A, B : M = m /\ A = a /\ B = b
  OBVIOUS
<1>5. PICK q : q = stack
  OBVIOUS
<1>6. /\ q \in Seq(Nodes) /\ DOMAIN q = 1..M /\ M \in Nat \ {0}
      /\ DOMAIN stack' = 1..(M + 1)
      /\ \A j \in 1..(M - 1) : stack'[j] = q[j]
      /\ stack'[M] = A /\ stack'[M + 1] = B
  <2>1. <<a, b>> \in Seq(Nodes) /\ Len(<<a, b>>) = 2 /\ <<a, b>>[1] = a /\ <<a, b>>[2] = b
    BY <1>3
  <2>2. stack' = Front(stack) \o <<a, b>>
    BY <1>1, <1>2
  <2>3. PICK f, c : f = Front(stack) /\ c = <<a, b>>
    OBVIOUS
  <2>4. f \in Seq(Nodes) /\ c \in Seq(Nodes) /\ Len(f) = M - 1 /\ Len(c) = 2 /\ stack' = f \o c
    BY <1>2, <1>4, <2>1, <2>2, <2>3
  <2>5. /\ Len(f \o c) = M + 1
        /\ \A j \in 1..(M - 1) : (f \o c)[j] = f[j]
        /\ (f \o c)[M] = c[1] /\ (f \o c)[M + 1] = c[2]
        /\ f \o c \in Seq(Nodes)
    <3>1. /\ f \o c \in Seq(Nodes) /\ Len(f \o c) = Len(f) + Len(c)
          /\ \A i \in 1..(Len(f) + Len(c)) :
               (f \o c)[i] = IF i <= Len(f) THEN f[i] ELSE c[i - Len(f)]
      BY <2>4, ConcatProperties
    <3>2. M \in Nat \ {0}
      BY <1>2, <1>4
    <3> QED BY <2>4, <3>1, <3>2
  <2>6. DOMAIN stack' = 1..(M + 1)
    BY <2>4, <2>5
  <2>7. q \in Seq(Nodes) /\ DOMAIN q = 1..M /\ M \in Nat \ {0}
    BY <1>1, <1>2, <1>4, <1>5
  <2>8. \A j \in 1..(M - 1) : stack'[j] = q[j]
    BY <1>2, <1>4, <1>5, <2>3, <2>4, <2>5
  <2>9. stack'[M] = A /\ stack'[M + 1] = B
    BY <1>4, <2>1, <2>3, <2>4, <2>5
  <2> QED BY <2>6, <2>7, <2>8, <2>9
<1>7. Nodes' = Nodes /\ Subtree' = Subtree /\ \A i : IsSplit(i)' <=> IsSplit(i)
  BY <1>1, SameTree
<1>8. /\ x = q[M] /\ Subtree[q[M]] = {x} \cup Subtree[A] \cup Subtree[B]
      /\ Subtree[A] \cap Subtree[B] = {} /\ IsSplit(q[M])
  BY <1>3, <1>4, <1>5
<1>9. /\ \A j \in 1..M : \A i \in Subtree[q[j]] : ~is_leaves[i]
      /\ \A j, k \in 1..M : j # k => Subtree[q[j]] \cap Subtree[q[k]] = {}
  BY <1>1, <1>5, <1>6 DEF MarkInv, VisitedOnce
<1>10. VisitedOnce'
  <2>1. \A j \in 1..(M + 1) : j \in 1..(M - 1) \/ j = M \/ j = M + 1
    BY <1>6
  <2>2. \A j \in 1..(M - 1) : j \in 1..M /\ j # M
    BY <1>6
  <2>3. ASSUME NEW j \in 1..(M + 1)
        PROVE  \A i \in Subtree[stack'[j]] : ~is_leaves[i]
    BY <1>6, <1>8, <1>9, <2>1, <2>2
  <2>4. ASSUME NEW j \in 1..(M + 1), NEW k \in 1..(M + 1), j # k
        PROVE  Subtree[stack'[j]] \cap Subtree[stack'[k]] = {}
    <3>1. \A y \in 1..(M - 1) : Subtree[q[y]] \cap Subtree[q[M]] = {}
      BY <1>6, <1>9, <2>2
    <3>2. \A y \in 1..(M - 1) :
            Subtree[q[y]] \cap Subtree[A] = {} /\ Subtree[q[y]] \cap Subtree[B] = {}
      BY <1>8, <3>1
    <3>3. CASE j \in 1..(M - 1) /\ k \in 1..(M - 1)
      BY <1>6, <1>9, <2>2, <2>4, <3>3
    <3>4. CASE j \in 1..(M - 1) /\ k \notin 1..(M - 1)
      BY <1>6, <2>1, <3>2, <3>4
    <3>5. CASE j \notin 1..(M - 1) /\ k \in 1..(M - 1)
      BY <1>6, <2>1, <3>2, <3>5
    <3>6. CASE j \notin 1..(M - 1) /\ k \notin 1..(M - 1)
      BY <1>6, <1>8, <2>1, <2>4, <3>6
    <3> QED BY <3>3, <3>4, <3>5, <3>6
  <2> QED BY <1>1, <1>6, <1>7, <2>3, <2>4 DEF VisitedOnce
<1>11. Covered'
  <2>1. ASSUME NEW i \in Nodes, ~IsSplit(i)
        PROVE  is_leaves[i] \/ \E j \in 1..(M + 1) : i \in Subtree[stack'[j]]
    <3>1. is_leaves[i] \/ \E j \in 1..M : i \in Subtree[q[j]]
      BY <1>1, <1>5, <1>6, <2>1 DEF MarkInv, Covered
    <3>2. ASSUME NEW j \in 1..M, i \in Subtree[q[j]]
          PROVE  \E k \in 1..(M + 1) : i \in Subtree[stack'[k]]
      <4>1. CASE j = M
        <5>1. i # q[M]
          BY <1>8, <2>1
        <5>2. i \in Subtree[A] \/ i \in Subtree[B]
          BY <1>8, <3>2, <4>1, <5>1
        <5>3. M \in 1..(M + 1) /\ M + 1 \in 1..(M + 1)
          BY <1>6
        <5> QED BY <1>6, <5>2, <5>3
      <4>2. CASE j # M
        <5>1. j \in 1..(M - 1) /\ j \in 1..(M + 1)
          BY <1>6, <4>2
        <5> QED BY <1>6, <3>2, <5>1
      <4> QED BY <4>1, <4>2
    <3> QED BY <3>1, <3>2
  <2> QED BY <1>1, <1>6, <1>7, <2>1 DEF Covered
<1> QED BY <1>1, <1>7, <1>10, <1>11 DEF MarkInv, LeavesMarked

(* A leaf leads to itself alone, and is marked.                             *)
LEMMA VisitLeafMarks ==
  ASSUME FileInv, MarkInv, VisitLeaf
  PROVE  MarkInv'
<1>1. /\ tree \in Trees /\ stack \in Seq(Nodes) /\ stack # <<>> /\ stage = "mark"
      /\ is_leaves \in [Nodes -> BOOLEAN]
      /\ UNCHANGED <<tree, row, stage, file, it>>
      /\ ~IsSplit(Last(stack)) /\ stack' = Front(stack)
      /\ is_leaves' = [is_leaves EXCEPT ![Last(stack)] = TRUE]
  BY DEF FileInv, ForestTypeOK, VisitLeaf
<1>2. PICK M, x, q : M = Len(stack) /\ x = Last(stack) /\ q = stack
  OBVIOUS
<1>3. /\ M \in Nat \ {0} /\ x = q[M] /\ x \in Nodes /\ DOMAIN q = 1..M
      /\ DOMAIN stack' = 1..(M - 1)
      /\ \A j \in 1..(M - 1) : stack'[j] = q[j]
  <2>1. /\ Front(stack) \in Seq(Nodes) /\ Len(stack) \in Nat \ {0}
        /\ Len(Front(stack)) = Len(stack) - 1
        /\ \A j \in 1..(Len(stack) - 1) : Front(stack)[j] = stack[j]
        /\ Last(stack) = stack[Len(stack)] /\ Last(stack) \in Nodes
    BY <1>1, FrontAndLast
  <2> QED BY <1>1, <1>2, <2>1
<1>4. Nodes' = Nodes /\ Subtree' = Subtree /\ \A i : IsSplit(i)' <=> IsSplit(i)
  BY <1>1, SameTree
<1>5. Subtree[x] = {x} /\ ~IsSplit(x)
  BY <1>1, <1>2, <1>3, SubtreeIs
<1>6. is_leaves'[x] /\ \A i \in Nodes : i # x => is_leaves'[i] = is_leaves[i]
  BY <1>1, <1>2, <1>3
<1>7. /\ \A j \in 1..M : \A i \in Subtree[q[j]] : ~is_leaves[i]
      /\ \A j, k \in 1..M : j # k => Subtree[q[j]] \cap Subtree[q[k]] = {}
      /\ \A i \in Nodes : ~IsSplit(i) => is_leaves[i] \/ \E j \in 1..M : i \in Subtree[q[j]]
  BY <1>1, <1>2, <1>3 DEF MarkInv, VisitedOnce, Covered
<1>8. \A j \in 1..(M - 1) : j \in 1..M /\ j # M
  BY <1>3
<1>9. VisitedOnce'
  <2>1. ASSUME NEW j \in 1..(M - 1), NEW i \in Subtree[q[j]]
        PROVE  ~is_leaves'[i]
    <3>1. i # x
      BY <1>3, <1>5, <1>7, <1>8
    <3>2. i \in Nodes
      <4>1. q \in Seq(Nodes) /\ j \in 1..Len(q)
        BY <1>1, <1>2, <1>3, <1>8
      <4>2. q[j] \in Nodes
        BY <4>1, ElementOfSeq
      <4> QED BY <1>1, <4>2, SubtreeGoesDown
    <3> QED BY <1>6, <1>7, <1>8, <3>1, <3>2
  <2> QED BY <1>1, <1>3, <1>4, <1>7, <1>8, <2>1 DEF VisitedOnce
<1>10. Covered'
  <2>1. ASSUME NEW i \in Nodes, ~IsSplit(i)
        PROVE  is_leaves'[i] \/ \E j \in 1..(M - 1) : i \in Subtree[q[j]]
    <3>1. CASE i = x
      BY <1>6, <3>1
    <3>2. CASE i # x
      <4>1. is_leaves[i] \/ \E j \in 1..M : i \in Subtree[q[j]] /\ j # M
        BY <1>3, <1>5, <1>7, <2>1, <3>2
      <4>2. \A j \in 1..M : j # M => j \in 1..(M - 1)
        BY <1>3
      <4> QED BY <1>6, <3>2, <4>1, <4>2
    <3> QED BY <3>1, <3>2
  <2> QED BY <1>1, <1>3, <1>4, <2>1 DEF Covered
<1>11. \A i \in Nodes : is_leaves'[i] => ~IsSplit(i)
  BY <1>5, <1>6 DEF MarkInv
<1> QED BY <1>1, <1>4, <1>9, <1>10, <1>11 DEF MarkInv, LeavesMarked

LEMMA MarkStep ==
  ASSUME FileInv, MarkInv, [ForestNext]_forestVars
  PROVE  MarkInv'
<1>1. CASE VisitSplit
  BY <1>1, VisitSplitMarks
<1>2. CASE VisitLeaf
  BY <1>2, VisitLeafMarks
<1>3. CASE AllMarked
  <2>1. /\ UNCHANGED <<tree, is_leaves, stack>> /\ stage' # "mark" /\ stage = "mark" /\ stack = <<>>
    BY <1>3 DEF AllMarked
  <2>2. Nodes' = Nodes /\ \A i : IsSplit(i)' <=> IsSplit(i)
    BY <2>1, SameTree
  <2>3. \A i \in Nodes : is_leaves[i] <=> ~IsSplit(i)
    BY <2>1 DEF MarkInv, Covered
  <2> QED BY <2>1, <2>2, <2>3 DEF MarkInv, VisitedOnce, Covered, LeavesMarked
<1>4. CASE WriteLeaf \/ WriteSplit \/ WriteFails \/ Embed \/ Descend
  <2>1. UNCHANGED <<tree, is_leaves, stack>> /\ stage' # "mark" /\ stage # "mark"
    BY <1>4 DEF WriteLeaf, WriteSplit, WriteFails, Embed, Descend, Writing
  <2>2. Nodes' = Nodes /\ \A i : IsSplit(i)' <=> IsSplit(i)
    BY <2>1, SameTree
  <2> QED BY <2>1, <2>2 DEF MarkInv, VisitedOnce, Covered, LeavesMarked
<1>5. CASE UNCHANGED forestVars
  <2>1. UNCHANGED <<tree, is_leaves, stack, stage>>
    BY <1>5 DEF forestVars
  <2>2. Nodes' = Nodes /\ Subtree' = Subtree /\ \A i : IsSplit(i)' <=> IsSplit(i)
    BY <2>1, SameTree
  <2> QED BY <2>1, <2>2 DEF MarkInv, VisitedOnce, Covered, LeavesMarked
<1> QED BY <1>1, <1>2, <1>3, <1>4, <1>5 DEF ForestNext

(* What is on the stack leads to different unmarked leaves, and every leaf  *)
(* is marked or led to.                                                     *)
THEOREM MarkInvariance == ForestSpec => [](FileInv /\ MarkInv)
<1>1. FileInv /\ MarkInv /\ [ForestNext]_forestVars => MarkInv'
  BY MarkStep
<1>2. ForestInit => MarkInv
  BY MarkInit
<1> QED BY <1>1, <1>2, FileInvariance, PTL DEF ForestSpec

(* The exporter marks the leaves of every tree and nothing else, and visits *)
(* each node once.                                                          *)
THEOREM LeavesAreMarked == ForestSpec => []MarksLeaves
<1>1. MarkInv => MarksLeaves
  BY DEF MarkInv, MarksLeaves
<1> QED BY <1>1, MarkInvariance, PTL

-----------------------------------------------------------------------------
(* What the file holds, and where the descent is.                           *)

(* The record the exporter means for node i.                                *)
RecordOf(i) ==
  IF IsSplit(i)
    THEN [feature |-> tree.feature[i], threshold |-> ToFloat32(tree.threshold[i]),
          left |-> tree.left[i], right |-> tree.right[i]]
    ELSE [feature |-> tree.class[i], threshold |-> 0, left |-> 0, right |-> 0]

(* The descent is at a split, or at the root before its first step, and     *)
(* scikit-learn would decide from there as it does from the root.           *)
WayInv ==
  /\ \A i \in 0..(Len(file) - 1) : Node(i) = RecordOf(i)
  /\ stage = "descend" => it = 0 \/ IsSplit(it)
  /\ stage = "leaf" => ~IsSplit(it)
  /\ stage \in {"descend", "leaf"} =>
       (Undisputed[0] => Undisputed[it]) /\ (Undisputed[0] => Decision[it] = Decision[0])

LEMMA RecordFields ==
  ASSUME NEW i
  PROVE  /\ IsSplit(i) => /\ RecordOf(i).feature = tree.feature[i]
                          /\ RecordOf(i).threshold = ToFloat32(tree.threshold[i])
                          /\ RecordOf(i).left = tree.left[i]
                          /\ RecordOf(i).right = tree.right[i]
         /\ ~IsSplit(i) => /\ RecordOf(i).feature = tree.class[i]
                           /\ RecordOf(i).left = 0 /\ RecordOf(i).right = 0
BY DEF RecordOf

(* Outside the gap the narrower threshold decides as the trained one.       *)
LEMMA SameSide ==
  ASSUME NEW v \in Int, NEW t \in Int, ~(2 * v > t /\ 2 * v <= ToFloat32(t))
  PROVE  2 * v <= t <=> 2 * v <= ToFloat32(t)
<1>1. CASE t % 2 = 0
  BY <1>1 DEF ToFloat32
<1>2. CASE t % 2 # 0
  <2>1. PICK u \in Int : t = 2 * u + 1
    BY <1>2
  <2>2. ToFloat32(t) = t - 1 \/ ToFloat32(t) = t + 1
    BY <1>2 DEF ToFloat32
  <2>3. 2 * v <= t => 2 * v <= t - 1
    BY <2>1
  <2> QED BY <2>2, <2>3
<1> QED BY <1>1, <1>2

LEMMA AttributeIsEven ==
  ASSUME row \in Instances, NEW f
  PROVE  \E v \in Int : Attribute(f) = 2 * v
<1>1. \A k \in DOMAIN row : row[k] \in Int
  BY ForestAssumption
<1>2. CASE f \in DOMAIN row
  BY <1>1, <1>2 DEF Attribute
<1>3. CASE f \notin DOMAIN row
  <2>1. Attribute(f) = 2 * 0
    BY <1>3 DEF Attribute
  <2> QED BY <2>1
<1> QED BY <1>2, <1>3

(* One more record.                                                         *)
LEMMA ContentGrows ==
  ASSUME FileInv, FileInv', MarkInv, WayInv, WriteLeaf \/ WriteSplit
  PROVE  WayInv'
<1>1. /\ UNCHANGED <<tree, row, it, stage>> /\ stage = "write"
      /\ tree \in Trees /\ file \in Seq(Record) /\ Len(file) \in Nodes /\ Len(file) \in Nat
  BY DEF FileInv, ForestTypeOK, WriteLeaf, WriteSplit, Writing
<1>2. is_leaves[Len(file)] <=> ~IsSplit(Len(file))
  BY <1>1 DEF MarkInv, LeavesMarked
<1>3. PICK n, r : n = Len(file) /\ r = RecordOf(Len(file))
  OBVIOUS
<1>4. file' = Append(file, r)
  <2>1. CASE WriteLeaf
    BY <1>2, <1>3, <2>1 DEF WriteLeaf, RecordOf
  <2>2. CASE WriteSplit
    BY <1>2, <1>3, <2>2 DEF WriteSplit, RecordOf
  <2> QED BY <2>1, <2>2
<1>5. r \in Record
  <2>1. file' \in Seq(Record) /\ Len(file') = n + 1 /\ file'[n + 1] = r
    <3>1. file' \in Seq(Record)
      BY DEF FileInv, ForestTypeOK
    <3> QED BY <1>1, <1>3, <1>4, <3>1
  <2> QED BY <1>1, <1>3, <2>1, ElementOfSeq
<1>6. /\ Len(file') = n + 1 /\ n \in Nat
      /\ \A k \in 1..n : file'[k] = file[k]
      /\ file'[n + 1] = r
  BY <1>1, <1>3, <1>4, <1>5, AppendProperties
<1>7. \A i : RecordOf(i)' = RecordOf(i)
  BY <1>1 DEF RecordOf, IsSplit, ToFloat32
<1>8. ASSUME NEW i \in 0..n
      PROVE  file'[i + 1] = RecordOf(i)
  <2>1. CASE i = n
    BY <1>3, <1>6, <2>1
  <2>2. CASE i # n
    <3>1. i \in 0..(Len(file) - 1) /\ i + 1 \in 1..n
      BY <1>3, <1>6, <2>2
    <3> QED BY <1>6, <3>1 DEF WayInv, Node
  <2> QED BY <2>1, <2>2
<1> QED BY <1>1, <1>6, <1>7, <1>8 DEF WayInv, Node

(* One iteration of predict().                                              *)
LEMMA DescendFollows ==
  ASSUME FileInv, WayInv, Descend
  PROVE  WayInv'
<1>1. /\ UNCHANGED <<tree, row, file>>
      /\ tree \in Trees /\ row \in Instances
      /\ tree.node_count \in Nat \ {0} /\ Len(file) = tree.node_count
      /\ stage = "descend" /\ it \in Nodes /\ 0 \in Nodes
      /\ Nodes = 0..(tree.node_count - 1)
      /\ it' = Child /\ stage' = IF IsLeaf(Child) THEN "leaf" ELSE "descend"
  BY TreeShape DEF FileInv, ForestTypeOK, Descend
<1>2. \A i \in Nodes : Node(i) = RecordOf(i)
  BY <1>1 DEF WayInv
<1>3. ASSUME NEW i \in Nodes
      PROVE  IsLeaf(i) <=> ~IsSplit(i)
  BY <1>2, RecordFields DEF IsLeaf, IsSplit
<1>4. ASSUME NEW c \in Nodes, Child = c,
             Undisputed[0] => Undisputed[c], Undisputed[0] => Decision[c] = Decision[0]
      PROVE  WayInv'
  <2>1. it' = c /\ ((stage' = "leaf" /\ ~IsSplit(c)) \/ (stage' = "descend" /\ IsSplit(c)))
    BY <1>1, <1>3, <1>4
  <2>2. Decision' = Decision /\ Undisputed' = Undisputed /\ \A i : IsSplit(i)' <=> IsSplit(i)
    BY <1>1, SameDecision, SameTree
  <2>3. \A i : RecordOf(i)' = RecordOf(i) /\ Node(i)' = Node(i)
    BY <1>1 DEF RecordOf, Node, IsSplit
  <2>4. (\A i \in 0..(Len(file) - 1) : Node(i) = RecordOf(i))'
    BY <1>1, <2>3 DEF WayInv
  <2>5. /\ stage' = "descend" => IsSplit(it)'
        /\ stage' = "leaf" => ~IsSplit(it)'
    BY <2>1, <2>2 DEF IsSplit
  <2>6. /\ (Undisputed[0] => Undisputed[it])'
        /\ (Undisputed[0] => Decision[it] = Decision[0])'
    BY <1>4, <2>1, <2>2
  <2> QED BY <2>4, <2>5, <2>6 DEF WayInv
<1>5. CASE ~IsSplit(it)
  <2>1. it = 0 /\ Child = 0
    BY <1>1, <1>2, <1>5, RecordFields DEF WayInv, Child
  <2> QED BY <1>1, <1>4, <2>1
<1>6. CASE IsSplit(it)
  <2>1. /\ Child = IF Attribute(tree.feature[it]) <= ToFloat32(tree.threshold[it])
                     THEN tree.left[it] ELSE tree.right[it]
        /\ Child \in Nodes
    <3>1. Child = IF Attribute(tree.feature[it]) <= ToFloat32(tree.threshold[it])
                    THEN tree.left[it] ELSE tree.right[it]
      BY <1>1, <1>2, <1>6, RecordFields DEF Child
    <3>2. tree.left[it] \in Nodes /\ tree.right[it] \in Nodes
      BY <1>1, <1>6, ChildrenApart
    <3> QED BY <3>1, <3>2
  <2>2. ASSUME Undisputed[it]
        PROVE  Child = Way(it) /\ Undisputed[Child] /\ Decision[Child] = Decision[it]
    <3>1. ~InGap(it) /\ Undisputed[Way(it)]
      BY <1>1, <1>6, <2>2, UndisputedIs
    <3>2. Child = Way(it)
      <4>1. PICK v \in Int : Attribute(tree.feature[it]) = 2 * v
        BY <1>1, AttributeIsEven
      <4>2. PICK t : t = tree.threshold[it]
        OBVIOUS
      <4>3. t \in Int
        BY <1>1, <4>2, TreeFacts
      <4>4. ~(2 * v > t /\ 2 * v <= ToFloat32(t))
        BY <1>6, <3>1, <4>1, <4>2 DEF InGap
      <4>5. 2 * v <= t <=> 2 * v <= ToFloat32(t)
        BY <4>3, <4>4, SameSide
      <4> QED BY <2>1, <4>1, <4>2, <4>5 DEF Way
    <3>3. Decision[it] = Decision[Way(it)]
      BY <1>1, <1>6, DecisionIs
    <3> QED BY <3>1, <3>2, <3>3
  <2> QED BY <1>1, <1>4, <2>1, <2>2 DEF WayInv
<1> QED BY <1>5, <1>6

(* Every step keeps what is known of the file and of the descent.           *)
LEMMA WayStep ==
  ASSUME FileInv, FileInv', MarkInv, WayInv, [ForestNext]_forestVars
  PROVE  WayInv'
<1>1. CASE WriteLeaf \/ WriteSplit
  BY <1>1, ContentGrows
<1>2. CASE Descend
  BY <1>2, DescendFollows
<1>3. ASSUME UNCHANGED <<tree, row, file>>
      PROVE  /\ Decision' = Decision /\ Undisputed' = Undisputed
             /\ \A i : IsSplit(i)' <=> IsSplit(i)
             /\ (\A i \in 0..(Len(file) - 1) : Node(i) = RecordOf(i))'
  <2>1. \A i : RecordOf(i)' = RecordOf(i) /\ Node(i)' = Node(i)
    BY <1>3 DEF RecordOf, Node, IsSplit
  <2> QED BY <1>3, <2>1, SameDecision, SameTree DEF WayInv
<1>4. CASE VisitSplit \/ VisitLeaf \/ AllMarked \/ WriteFails
  <2>1. /\ UNCHANGED <<tree, row, file>>
        /\ stage' \notin {"descend", "leaf"}
    BY <1>4 DEF VisitSplit, VisitLeaf, AllMarked, WriteFails
  <2> QED BY <1>3, <2>1 DEF WayInv
<1>5. CASE Embed
  <2>1. UNCHANGED <<tree, row, file>> /\ stage' = "descend" /\ it' = 0
    BY <1>5 DEF Embed
  <2> QED BY <1>3, <2>1 DEF WayInv
<1>6. CASE UNCHANGED forestVars
  <2>1. UNCHANGED <<tree, row, file, it, stage>>
    BY <1>6 DEF forestVars
  <2>2. /\ (stage = "descend" => it = 0 \/ IsSplit(it))'
        /\ (stage = "leaf" => ~IsSplit(it))'
    BY <1>3, <2>1 DEF WayInv
  <2>3. (stage \in {"descend", "leaf"} =>
           (Undisputed[0] => Undisputed[it]) /\ (Undisputed[0] => Decision[it] = Decision[0]))'
    BY <1>3, <2>1 DEF WayInv
  <2> QED BY <1>3, <2>1, <2>2, <2>3 DEF WayInv
<1> QED BY <1>1, <1>2, <1>4, <1>5, <1>6 DEF ForestNext

LEMMA WayInit ==
  ASSUME ForestInit
  PROVE  WayInv
<1>1. file = <<>> /\ stage = "mark"
  BY DEF ForestInit
<1>2. \A i \in 0..(Len(file) - 1) : FALSE
  BY <1>1
<1> QED BY <1>1, <1>2 DEF WayInv

LEMMA WaySuffices ==
  ASSUME FileInv, WayInv
  PROVE  PredictsAsTrained
<1> SUFFICES ASSUME stage = "leaf", Undisputed[0]
             PROVE  Node(it).feature = tree.class[Decision[0]]
  BY DEF PredictsAsTrained
<1>1. /\ tree \in Trees /\ it \in 0..(Len(file) - 1) /\ it \in Nodes
      /\ ~IsSplit(it) /\ Decision[it] = Decision[0]
  BY TreeShape DEF FileInv, ForestTypeOK, WayInv
<1>2. Node(it) = RecordOf(it)
  BY <1>1 DEF WayInv
<1>3. RecordOf(it).feature = tree.class[it]
  BY <1>1, RecordFields
<1>4. Decision[it] = it
  BY <1>1, DecisionIs
<1> QED BY <1>1, <1>2, <1>3, <1>4

(* The device predicts what the trained tree predicts, for every tree, every*)
(* row whose values lie in no gap on the way to its leaf, and every limit   *)
(* on the indices: marking, writing and the descent together lose nothing.  *)
THEOREM PredictsAsTrainedAlways == ForestSpec => []PredictsAsTrained
<1>1. ForestInit => WayInv
  BY WayInit
<1>2. FileInv /\ FileInv' /\ MarkInv /\ WayInv /\ [ForestNext]_forestVars => WayInv'
  BY WayStep
<1>3. FileInv /\ WayInv => PredictsAsTrained
  BY WaySuffices
<1> QED BY <1>1, <1>2, <1>3, MarkInvariance, PTL DEF ForestSpec
-----------------------------------------------------------------------------
(* The election: how the votes are counted and the ties resolved.           *)

(* The counters: a class has no more votes than trees have voted, so no     *)
(* count reaches 256, and from the first vote on ret is one of the leaders. *)
CountInv ==
  /\ \A c \in Class : results[c] <= voted
  /\ highest <= voted
  /\ voted = 0 => highest = 0
  /\ voted > 0 => highest > 0 /\ results[ret] = highest
  /\ loop # "vote" => voted = TreeCount
  /\ loop = "vote" => class = 0

Remaining == {c \in Leaders : c >= class}

(* The second loop: either fewer leaders are to be skipped than remain, or  *)
(* ret is the last leader visited.                                          *)
TieInv ==
  /\ loop = "tie" =>
       \/ cont < Cardinality(Remaining)
       \/ /\ cont = 0
          /\ ret < class
          /\ \A c \in Leaders : c < class => c <= ret
  /\ loop = "done" =>
       \/ tie_amount = 1
       \/ \A c \in Leaders : c <= ret

VoteInv == VoteTypeOK /\ CountInv /\ LeadersCounted /\ TieInv

LEMMA LeadersFinite ==
  /\ IsFiniteSet(Class) /\ Cardinality(Class) = Classes
  /\ \A S \in SUBSET Class :
       IsFiniteSet(S) /\ Cardinality(S) \in Nat /\ Cardinality(S) <= Classes
<1>1. IsFiniteSet(Class) /\ Cardinality(Class) = Classes
  BY FS_Interval, VoteAssumption DEF Class
<1>. QED  BY <1>1, FS_Subset, FS_CardinalityType

LEMMA VoteInitInv == VoteInit => VoteInv
<1>. SUFFICES ASSUME VoteInit PROVE VoteInv
  OBVIOUS
<1>1. VoteTypeOK
  BY VoteAssumption DEF VoteInit, VoteTypeOK, Class, Byte
<1>2. CountInv /\ LeadersCounted /\ TieInv
  BY VoteAssumption DEF VoteInit, CountInv, LeadersCounted, TieInv, Class
<1>. QED  BY <1>1, <1>2 DEF VoteInv

LEMMA CountVotePreserves ==
  ASSUME VoteInv, NEW c \in Class, CountVote(c)
  PROVE  VoteInv'
<1>. DEFINE votes == results[c] + 1
<1>1. /\ VoteTypeOK /\ CountInv /\ LeadersCounted
      /\ loop = "vote" /\ voted < TreeCount /\ voted \in 0..TreeCount /\ voted' = voted + 1
      /\ UNCHANGED <<loop, draw, cont, class>>
      /\ highest \in Byte /\ tie_amount \in Byte
  BY DEF VoteInv, CountVote, VoteTypeOK
<1>2. results[c] \in Byte /\ votes \in 1..255 /\ votes <= voted + 1 /\ votes % 256 = votes
  <2>1. results[c] \in Byte /\ results[c] <= voted
    BY <1>1 DEF VoteTypeOK, CountInv
  <2>. QED  BY <1>1, <2>1, VoteAssumption DEF Byte
<1>3. results' = [results EXCEPT ![c] = votes]
  BY <1>2 DEF CountVote
<1>4. /\ results' \in [Class -> Byte]
      /\ results'[c] = votes
      /\ \A d \in Class : d # c => results'[d] = results[d]
      /\ \A d \in Class : results[d] \in Byte /\ results[d] <= highest /\ results[d] <= voted
  BY <1>1, <1>2, <1>3 DEF VoteTypeOK, Byte, CountInv, LeadersCounted
<1>5. /\ Leaders \subseteq Class /\ IsFiniteSet(Leaders)
      /\ Leaders' \subseteq Class /\ IsFiniteSet(Leaders')
      /\ Cardinality(Leaders) \in Nat /\ Cardinality(Leaders') \in Nat
      /\ Cardinality(Leaders') <= Classes
  BY LeadersFinite DEF Leaders
<1>6. CASE votes > highest
  <2>1. highest' = votes /\ tie_amount' = 1 /\ ret' = c
    BY <1>2, <1>6 DEF CountVote
  <2>2. Leaders' = {c}
    BY <1>1, <1>2, <1>4, <1>6, <2>1 DEF Leaders, Byte
  <2>3. Cardinality(Leaders') = 1
    BY <2>2, FS_Singleton
  <2>4. VoteTypeOK'
    BY <1>1, <1>2, <1>4, <2>1, VoteAssumption DEF VoteTypeOK, Byte
  <2>5. CountInv'
    BY <1>1, <1>2, <1>4, <2>1 DEF CountInv, Byte
  <2>6. LeadersCounted'
    BY <1>1, <1>2, <1>4, <1>6, <2>1, <2>3 DEF LeadersCounted, Byte
  <2>. QED  BY <1>1, <2>4, <2>5, <2>6 DEF VoteInv, TieInv
<1>7. CASE votes = highest
  <2>1. highest' = highest /\ ret' = ret /\ tie_amount' = (tie_amount + 1) % 256
    BY <1>2, <1>7 DEF CountVote, Byte
  <2>2. voted > 0
    BY <1>1, <1>2, <1>7 DEF CountInv
  <2>3. Leaders' = Leaders \cup {c} /\ c \notin Leaders
    BY <1>2, <1>4, <1>7, <2>1 DEF Leaders, Byte
  <2>4. Cardinality(Leaders') = Cardinality(Leaders) + 1
    BY <1>5, <2>3, FS_AddElement
  <2>5. tie_amount' = Cardinality(Leaders')
    <3>1. tie_amount = Cardinality(Leaders)
      BY <1>1, <2>2 DEF LeadersCounted
    <3>. QED  BY <1>5, <2>1, <2>4, <3>1, VoteAssumption
  <2>6. VoteTypeOK'
    <3>1. tie_amount' \in Byte
      BY <1>1, <2>1 DEF Byte
    <3>. QED  BY <1>1, <1>4, <2>1, <3>1, VoteAssumption DEF VoteTypeOK
  <2>7. CountInv'
    <3>1. ret \in Class /\ results[ret] = highest
      BY <1>1, <2>2 DEF CountInv, VoteTypeOK
    <3>2. ret # c
      BY <1>2, <1>7, <3>1 DEF Byte
    <3>. QED  BY <1>1, <1>2, <1>4, <2>1, <2>2, <3>1, <3>2 DEF CountInv, Byte
  <2>8. LeadersCounted'
    BY <1>1, <1>2, <1>4, <1>7, <2>1, <2>5 DEF LeadersCounted, Byte
  <2>. QED  BY <1>1, <2>6, <2>7, <2>8 DEF VoteInv, TieInv
<1>8. CASE votes < highest
  <2>1. highest' = highest /\ ret' = ret /\ tie_amount' = tie_amount
    BY <1>2, <1>8, <1>1 DEF CountVote, Byte
  <2>2. voted > 0
    BY <1>1, <1>2, <1>8 DEF CountInv
  <2>3. Leaders' = Leaders
    BY <1>2, <1>4, <1>8, <2>1 DEF Leaders, Byte
  <2>4. VoteTypeOK'
    BY <1>1, <1>4, <2>1, VoteAssumption DEF VoteTypeOK
  <2>5. CountInv'
    <3>1. ret \in Class /\ results[ret] = highest
      BY <1>1, <2>2 DEF CountInv, VoteTypeOK
    <3>2. ret # c
      BY <1>2, <1>8, <3>1 DEF Byte
    <3>. QED  BY <1>1, <1>2, <1>4, <2>1, <2>2, <3>1, <3>2 DEF CountInv, Byte
  <2>6. LeadersCounted'
    BY <1>1, <1>2, <1>4, <1>8, <2>1, <2>2, <2>3 DEF LeadersCounted, Byte
  <2>. QED  BY <1>1, <2>4, <2>5, <2>6 DEF VoteInv, TieInv
<1>. QED  BY <1>1, <1>2, <1>6, <1>7, <1>8 DEF Byte

LEMMA EndOfVotePreserves ==
  ASSUME VoteInv, ClearWinner \/ DrawLots
  PROVE  VoteInv'
<1>1. VoteTypeOK /\ CountInv /\ LeadersCounted /\ voted = TreeCount /\ voted > 0
  BY VoteAssumption DEF VoteInv, ClearWinner, DrawLots
<1>2. /\ Leaders' = Leaders
      /\ UNCHANGED <<voted, results, highest, tie_amount, ret, class>>
  BY DEF ClearWinner, DrawLots, Leaders
<1>3. tie_amount = Cardinality(Leaders) /\ tie_amount \in Byte
  BY <1>1 DEF LeadersCounted, VoteTypeOK
<1>4. ret \in Leaders
  BY <1>1 DEF CountInv, VoteTypeOK, Leaders
<1>5. LeadersCounted'
  BY <1>1, <1>2 DEF LeadersCounted
<1>6. CASE ClearWinner
  <2>1. tie_amount # 0
    BY <1>3, <1>4, FS_EmptySet, LeadersFinite DEF Leaders
  <2>2. tie_amount' = 1
    BY <1>2, <1>3, <1>6, <2>1 DEF ClearWinner, Byte
  <2>3. VoteTypeOK' /\ CountInv'
    BY <1>1, <1>6 DEF ClearWinner, VoteTypeOK, CountInv
  <2>. QED  BY <1>5, <1>6, <2>2, <2>3 DEF ClearWinner, VoteInv, TieInv
<1>7. CASE DrawLots
  <2>1. draw' \in Byte /\ cont' \in Byte /\ cont' < tie_amount
    BY <1>3, <1>7 DEF DrawLots, Byte
  <2>2. VoteTypeOK' /\ CountInv'
    BY <1>1, <1>7, <2>1 DEF DrawLots, VoteTypeOK, CountInv
  <2>3. class = 0 /\ class' = 0
    BY <1>1, <1>2, <1>7 DEF DrawLots, CountInv
  <2>4. Remaining' = Leaders
    BY <1>2, <2>3 DEF Remaining, Leaders, Class
  <2>. QED  BY <1>3, <1>5, <1>7, <2>1, <2>2, <2>4 DEF DrawLots, VoteInv, TieInv
<1>. QED  BY <1>6, <1>7

LEMMA VisitClassPreserves ==
  ASSUME VoteInv, VisitClass
  PROVE  VoteInv'
<1>1. /\ VoteTypeOK /\ CountInv /\ LeadersCounted /\ TieInv
      /\ loop = "tie" /\ loop' = "tie" /\ voted = TreeCount /\ voted > 0
      /\ class \in 0..Classes /\ class < Classes /\ class' = class + 1
      /\ cont \in Byte /\ ret \in Class /\ highest > 0 /\ results[ret] = highest
  BY VoteAssumption DEF VoteInv, VisitClass, VoteTypeOK, CountInv
<1>2. class \in Class
  BY <1>1, VoteAssumption DEF Class
<1>3. UNCHANGED <<loop, voted, results, highest, tie_amount, draw>> /\ Leaders' = Leaders
  BY DEF VisitClass, Leaders
<1>4. /\ cont' \in Byte /\ ret' \in Class /\ results'[ret'] = highest'
  BY <1>1, <1>2, <1>3 DEF VisitClass, Byte
<1>5. VoteTypeOK' /\ CountInv' /\ LeadersCounted'
  <2>1. VoteTypeOK'
    BY <1>1, <1>3, <1>4, VoteAssumption DEF VoteTypeOK
  <2>2. CountInv'
    BY <1>1, <1>3, <1>4 DEF CountInv
  <2>3. LeadersCounted'
    BY <1>1, <1>3 DEF LeadersCounted
  <2>. QED  BY <2>1, <2>2, <2>3
<1>6. \A c \in Leaders : c \in Int
  BY DEF Leaders, Class
<1>7. CASE results[class] # highest
  <2>1. class \notin Leaders
    BY <1>7 DEF Leaders
  <2>2. Remaining' = Remaining
    BY <1>1, <1>3, <1>6, <2>1 DEF Remaining
  <2>3. cont' = cont /\ ret' = ret
    BY <1>7 DEF VisitClass
  <2>4. TieInv'
    BY <1>1, <1>2, <1>3, <1>6, <2>1, <2>2, <2>3 DEF TieInv, Class
  <2>. QED  BY <1>5, <2>4 DEF VoteInv
<1>8. CASE results[class] = highest /\ cont = 0
  <2>1. cont' = 0 /\ ret' = class
    BY <1>8 DEF VisitClass
  <2>2. TieInv'
    BY <1>1, <1>3, <1>6, <2>1 DEF TieInv
  <2>. QED  BY <1>5, <2>2 DEF VoteInv
<1>9. CASE results[class] = highest /\ cont # 0
  <2>1. cont' = cont - 1 /\ cont < Cardinality(Remaining)
    BY <1>1, <1>9 DEF VisitClass, TieInv
  <2>2. class \in Remaining /\ Remaining' = Remaining \ {class}
    BY <1>1, <1>2, <1>3, <1>6, <1>9, VoteAssumption DEF Remaining, Leaders, Class
  <2>3. IsFiniteSet(Remaining) /\ Cardinality(Remaining) \in Nat
    BY LeadersFinite DEF Remaining, Leaders
  <2>4. Cardinality(Remaining') = Cardinality(Remaining) - 1
    BY <2>2, <2>3, FS_RemoveElement
  <2>5. TieInv'
    BY <1>1, <2>1, <2>3, <2>4 DEF TieInv, Byte
  <2>. QED  BY <1>5, <2>5 DEF VoteInv
<1>. QED  BY <1>7, <1>8, <1>9

LEMMA EndOfClassesPreserves ==
  ASSUME VoteInv, EndOfClasses
  PROVE  VoteInv'
<1>1. /\ VoteTypeOK /\ CountInv /\ LeadersCounted /\ TieInv
      /\ loop = "tie" /\ class = Classes /\ loop' = "done" /\ cont \in Byte
      /\ UNCHANGED <<voted, results, highest, tie_amount, ret, draw, cont, class>>
  BY DEF VoteInv, EndOfClasses, VoteTypeOK
<1>2. Remaining = {} /\ \A c \in Leaders : c < class
  BY <1>1, VoteAssumption DEF Remaining, Leaders, Class
<1>3. Cardinality(Remaining) = 0
  BY <1>2, FS_EmptySet
<1>4. \A c \in Leaders : c <= ret
  BY <1>1, <1>2, <1>3 DEF TieInv, Byte
<1>5. TieInv'
  BY <1>1, <1>4 DEF TieInv, Leaders
<1>6. VoteTypeOK' /\ CountInv' /\ LeadersCounted'
  BY <1>1 DEF VoteTypeOK, CountInv, LeadersCounted, Leaders
<1>. QED  BY <1>5, <1>6 DEF VoteInv

THEOREM VoteInvariance == VoteSpec => []VoteInv
<1>1. VoteInv /\ [VoteNext]_voteVars => VoteInv'
  <2>. SUFFICES ASSUME VoteInv, [VoteNext]_voteVars PROVE VoteInv'
    OBVIOUS
  <2>1. CASE UNCHANGED voteVars
    BY <2>1 DEF voteVars, VoteInv, VoteTypeOK, CountInv, LeadersCounted, TieInv,
                Leaders, Remaining
  <2>. QED  BY <2>1, CountVotePreserves, EndOfVotePreserves, VisitClassPreserves,
               EndOfClassesPreserves DEF VoteNext
<1>. QED  BY <1>1, VoteInitInv, PTL DEF VoteSpec

(* No counter of eight bits wraps, and the running count of the leaders is  *)
(* right after every vote.                                                  *)
THEOREM LeadersAreCounted == VoteSpec => []LeadersCounted
<1>1. VoteInv => LeadersCounted
  BY DEF VoteInv
<1>. QED  BY <1>1, VoteInvariance, PTL

(* predict() returns a class with the most votes.                           *)
THEOREM PluralityIsElected == VoteSpec => []ElectsPlurality
<1>1. VoteInv => ElectsPlurality
  BY VoteAssumption
     DEF VoteInv, VoteTypeOK, CountInv, LeadersCounted, ElectsPlurality, Class, Byte
<1>. QED  BY <1>1, VoteInvariance, PTL

(* predict() and fit() of RF.cpp return the same class exactly when there   *)
(* is no tie.                                                               *)
THEOREM AgreementWithHost == VoteSpec => []AgreesWithHostUnlessTied
<1>1. VoteInv => AgreesWithHostUnlessTied
  <2>. SUFFICES ASSUME VoteInv, loop = "done"
                PROVE  FitReturns(ret) <=> tie_amount = 1
    BY DEF AgreesWithHostUnlessTied
  <2>1. /\ VoteTypeOK /\ ret \in Class /\ results[ret] = highest
        /\ tie_amount = Cardinality(Leaders)
        /\ tie_amount = 1 \/ \A c \in Leaders : c <= ret
        /\ \A c \in Class : results[c] \in Byte /\ results[c] <= highest /\ c \in Int
    BY VoteAssumption
       DEF VoteInv, VoteTypeOK, CountInv, LeadersCounted, TieInv, Class
  <2>2. ret \in Leaders /\ Leaders \subseteq Class /\ IsFiniteSet(Leaders)
    BY <2>1, LeadersFinite DEF Leaders
  <2>3. ASSUME tie_amount = 1 PROVE FitReturns(ret)
    <3>1. PICK x : Leaders = {x}
      BY <2>1, <2>2, <2>3, FS_Singleton
    <3>2. \A d \in Class : results[d] = highest => d = ret
      BY <2>2, <3>1 DEF Leaders
    <3>. QED  BY <2>1, <3>2 DEF FitReturns
  <2>4. ASSUME FitReturns(ret) PROVE tie_amount = 1
    <3>. SUFFICES ASSUME \A c \in Leaders : c <= ret PROVE tie_amount = 1
      BY <2>1
    <3>1. \A c \in Leaders : c = ret
      BY <2>1, <2>4 DEF FitReturns, Leaders
    <3>2. Leaders = {ret}
      BY <2>2, <3>1
    <3>. QED  BY <2>1, <3>2, FS_Singleton
  <2>. QED  BY <2>3, <2>4
<1>. QED  BY <1>1, VoteInvariance, PTL
=============================================================================
