------------------------------- MODULE Forest -------------------------------
(* A decision tree on its way from the PC to the device: iTreeFile.py marks *)
(* the leaves of a tree scikit-learn has trained and writes its nodes as    *)
(* packed records of nine bytes; the file is embedded in the firmware, and  *)
(* predict() of app_main.c descends through the records.                    *)
(*                                                                          *)
(* The numbers are those of a stretch of the float axis in which a feature  *)
(* value v is a float of 32 bits and so is v + 1, its successor.  Thresholds*)
(* are counted in halves of that spacing: scikit-learn puts them, in 64     *)
(* bits, in the middle between two values of the training data.             *)
EXTENDS Integers, Sequences, SequencesExt

CONSTANTS
  Trees,       \* trees the training may end with
  Instances,   \* rows to classify, functions from a feature to its value
  MaxIndex     \* 65535, the largest child index struct.pack takes as "H"

(* What scikit-learn guarantees: the nodes are 0..node_count-1, a leaf has  *)
(* TREE_LEAF (-1) for both children, and the children of a split are later  *)
(* nodes, each node but the root being the child of one.                    *)
NodesOf(t) == 0..(t.node_count - 1)

WellFormed(t) ==
  /\ t.node_count \in Nat \ {0}
  /\ t.left \in [NodesOf(t) -> -1..(t.node_count - 1)]
  /\ t.right \in [NodesOf(t) -> -1..(t.node_count - 1)]
  /\ t.feature \in [NodesOf(t) -> Int]
  /\ t.threshold \in [NodesOf(t) -> Int]
  /\ t.class \in [NodesOf(t) -> Nat]
  /\ \A i \in NodesOf(t) :
       \/ t.left[i] = -1 /\ t.right[i] = -1
       \/ /\ i < t.left[i] /\ i < t.right[i] /\ t.left[i] # t.right[i]
          /\ t.feature[i] \in Nat
  /\ \A k \in NodesOf(t) \ {0} : \E p \in 0..(k - 1) : k \in {t.left[p], t.right[p]}
  /\ \A i, j \in NodesOf(t) :
       i # j => {t.left[i], t.right[i]} \cap {t.left[j], t.right[j]} \subseteq {-1}

ASSUME ForestAssumption ==
  /\ \A t \in Trees : WellFormed(t)
  /\ \A x \in Instances : DOMAIN x \subseteq Nat /\ \A f \in DOMAIN x : x[f] \in Int
  /\ MaxIndex \in Nat

VARIABLES
  tree,      \* clf.tree_ of one estimator
  row,       \* the row predict() gets
  stage,     \* "mark", "write", "failed", "descend", "leaf"
  stack,     \* nodes to visit; their depths are computed and never used
  is_leaves,
  file,      \* the records written so far; later the array the device holds
  it         \* index of the record the descent is at

forestVars == <<tree, row, stage, stack, is_leaves, file, it>>

Nodes == NodesOf(tree)

Record == [feature : Nat, threshold : Int, left : 0..MaxIndex, right : 0..MaxIndex]

ForestTypeOK ==
  /\ tree \in Trees
  /\ row \in Instances
  /\ stage \in {"mark", "write", "failed", "descend", "leaf"}
  /\ stack \in Seq(Nodes)
  /\ is_leaves \in [Nodes -> BOOLEAN]
  /\ file \in Seq(Record)
  /\ it \in Nat

ForestInit ==
  /\ tree \in Trees
  /\ row \in Instances
  /\ stage = "mark"
  /\ stack = <<0>>
  /\ is_leaves = [i \in Nodes |-> FALSE]
  /\ file = <<>>
  /\ it = 0

-----------------------------------------------------------------------------
(* exportClassifierTreeToFile: marking the leaves.                          *)

IsSplit(i) == tree.left[i] # tree.right[i]

(* Mutant: the node is read with stack[-1] and stays on the stack.          *)
VisitSplitWithoutPop ==
  /\ stage = "mark"
  /\ stack # <<>>
  /\ LET node == Last(stack) IN
       /\ IsSplit(node)
       /\ stack' = stack \o <<tree.left[node], tree.right[node]>>
  /\ UNCHANGED <<tree, row, stage, is_leaves, file, it>>

VisitSplit ==
  /\ stage = "mark"
  /\ stack # <<>>
  /\ LET node == Last(stack) IN
       /\ IsSplit(node)
       /\ stack' = Front(stack) \o <<tree.left[node], tree.right[node]>>
  /\ UNCHANGED <<tree, row, stage, is_leaves, file, it>>

VisitLeaf ==
  /\ stage = "mark"
  /\ stack # <<>>
  /\ ~IsSplit(Last(stack))
  /\ stack' = Front(stack)
  /\ is_leaves' = [is_leaves EXCEPT ![Last(stack)] = TRUE]
  /\ UNCHANGED <<tree, row, stage, file, it>>

AllMarked ==
  /\ stage = "mark"
  /\ stack = <<>>
  /\ stage' = "write"
  /\ UNCHANGED <<tree, row, stack, is_leaves, file, it>>

-----------------------------------------------------------------------------
(* exportClassifierTreeToFile: writing the records, in the order of nodes.  *)

(* The middle of two floats that are neighbours is no float: struct.pack    *)
(* takes the one whose last bit is 0.                                       *)
ToFloat32(t) ==
  IF t % 2 = 0 THEN t ELSE IF ((t - 1) \div 2) % 2 = 0 THEN t - 1 ELSE t + 1

Writing(i) ==
  /\ stage = "write"
  /\ i = Len(file)
  /\ i \in Nodes

(* A leaf's record holds its class in place of a feature.                   *)
WriteLeaf ==
  /\ Writing(Len(file))
  /\ is_leaves[Len(file)]
  /\ file' = Append(file, [feature |-> tree.class[Len(file)], threshold |-> 0,
                           left |-> 0, right |-> 0])
  /\ UNCHANGED <<tree, row, stage, stack, is_leaves, it>>

Packable(i) == tree.left[i] \in 0..MaxIndex /\ tree.right[i] \in 0..MaxIndex

(* Mutant: the index is cut to its low bits, as numpy's astype would.       *)
WriteSplitWrapped ==
  /\ Writing(Len(file))
  /\ ~is_leaves[Len(file)]
  /\ LET i == Len(file) IN
       file' = Append(file, [feature |-> tree.feature[i],
                             threshold |-> ToFloat32(tree.threshold[i]),
                             left |-> tree.left[i] % (MaxIndex + 1),
                             right |-> tree.right[i] % (MaxIndex + 1)])
  /\ UNCHANGED <<tree, row, stage, stack, is_leaves, it>>

(* Mutant: the records are counted from 1.                                  *)
WriteSplitFromOne ==
  /\ Writing(Len(file))
  /\ ~is_leaves[Len(file)]
  /\ Packable(Len(file))
  /\ LET i == Len(file) IN
       file' = Append(file, [feature |-> tree.feature[i],
                             threshold |-> ToFloat32(tree.threshold[i]),
                             left |-> tree.left[i] + 1,
                             right |-> tree.right[i] + 1])
  /\ UNCHANGED <<tree, row, stage, stack, is_leaves, it>>

WriteSplit ==
  /\ Writing(Len(file))
  /\ ~is_leaves[Len(file)]
  /\ Packable(Len(file))
  /\ LET i == Len(file) IN
       file' = Append(file, [feature |-> tree.feature[i],
                             threshold |-> ToFloat32(tree.threshold[i]),
                             left |-> tree.left[i], right |-> tree.right[i]])
  /\ UNCHANGED <<tree, row, stage, stack, is_leaves, it>>

(* struct.error: the export ends and the file stays as short as it is.      *)
WriteFails ==
  /\ Writing(Len(file))
  /\ ~is_leaves[Len(file)]
  /\ ~Packable(Len(file))
  /\ stage' = "failed"
  /\ UNCHANGED <<tree, row, stack, is_leaves, file, it>>

(* The file is complete, is embedded, and predict() starts at its first     *)
(* record.                                                                  *)
Embed ==
  /\ stage = "write"
  /\ Len(file) \notin Nodes
  /\ stage' = "descend"
  /\ it' = 0
  /\ UNCHANGED <<tree, row, stack, is_leaves, file>>

-----------------------------------------------------------------------------
(* predict(), the descent through one tree.                                 *)

(* getAttribute, twice a feature's value; other indices give 0.             *)
Attribute(f) == IF f \in DOMAIN row THEN 2 * row[f] ELSE 0

Node(i) == file[i + 1]

(* Mutant: < for <=.                                                        *)
ChildStrict ==
  IF Attribute(Node(it).feature) < Node(it).threshold
    THEN Node(it).left ELSE Node(it).right

Child ==
  IF Attribute(Node(it).feature) <= Node(it).threshold
    THEN Node(it).left ELSE Node(it).right

IsLeaf(i) == Node(i).left = Node(i).right

(* One iteration: the first step is taken before any test, so that a tree   *)
(* of a single leaf steps from its record to itself.                        *)
Descend ==
  /\ stage = "descend"
  /\ it' = Child
  /\ stage' = IF IsLeaf(Child) THEN "leaf" ELSE "descend"
  /\ UNCHANGED <<tree, row, stack, is_leaves, file>>

ForestNext ==
  \/ VisitSplit \/ VisitLeaf \/ AllMarked
  \/ WriteLeaf \/ WriteSplit \/ WriteFails \/ Embed
  \/ Descend

ForestSpec == ForestInit /\ [][ForestNext]_forestVars

(* Both programs are sequential and run on.                                 *)
FairForestSpec == ForestSpec /\ WF_forestVars(ForestNext)

-----------------------------------------------------------------------------
(* Properties.                                                              *)

(* The nodes of the subtree at i.                                           *)
Subtree ==
  LET below[i \in Nodes] ==
        IF IsSplit(i) THEN {i} \cup below[tree.left[i]] \cup below[tree.right[i]] ELSE {i}
  IN  below

(* The comment "pop ensures each node is only visited once": what waits on  *)
(* the stack leads to different nodes, and to none visited already.  When   *)
(* the stack is empty exactly the leaves are marked.                        *)
VisitedOnce ==
  stage = "mark" =>
    \A j \in DOMAIN stack :
      /\ \A i \in Subtree[stack[j]] : ~is_leaves[i]
      /\ \A k \in DOMAIN stack : j # k => Subtree[stack[j]] \cap Subtree[stack[k]] = {}

LeavesMarked ==
  stage # "mark" => \A i \in Nodes : is_leaves[i] <=> ~IsSplit(i)

(* Both: what is written as a leaf is one, and every node is looked at once.*)
MarksLeaves == VisitedOnce /\ LeavesMarked

(* The leaf scikit-learn decides for from node i on.                        *)
Decision ==
  LET from[i \in Nodes] ==
        IF ~IsSplit(i) THEN i
        ELSE from[IF Attribute(tree.feature[i]) <= tree.threshold[i]
                    THEN tree.left[i] ELSE tree.right[i]]
  IN  from

(* The value at a split lies above the threshold, and not above what        *)
(* struct.pack has made of it: the two values are neighbours among the      *)
(* floats of 32 bits.                                                       *)
InGap(i) ==
  /\ IsSplit(i)
  /\ Attribute(tree.feature[i]) > tree.threshold[i]
  /\ Attribute(tree.feature[i]) <= ToFloat32(tree.threshold[i])

(* No split on the way from node i to the leaf has its value in the gap.    *)
Undisputed ==
  LET from[i \in Nodes] ==
        IsSplit(i) =>
          /\ ~InGap(i)
          /\ from[IF Attribute(tree.feature[i]) <= tree.threshold[i]
                    THEN tree.left[i] ELSE tree.right[i]]
  IN  from

(* The device predicts what the trained tree predicts, except for a value   *)
(* in the gap that the narrower threshold leaves.                           *)
PredictsAsTrained ==
  stage = "leaf" /\ Undisputed[0] => Node(it).feature = tree.class[Decision[0]]

(* The descent has no test of an index against the size of the array: every *)
(* record it can reach is in the file.                                      *)
DescentInFile ==
  stage \in {"descend", "leaf"} =>
    /\ it < Len(file)
    /\ \A k \in DOMAIN file : file[k].left < Len(file) /\ file[k].right < Len(file)

(* The while loop of predict() ends, for every row, unless the export has   *)
(* failed.                                                                  *)
Decides == <>(stage \in {"leaf", "failed"})
=============================================================================
