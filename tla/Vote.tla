-------------------------------- MODULE Vote --------------------------------
(* predict() of RandomForest/mqtt/main/app_main.c: every tree of the forest *)
(* votes for the class of the leaf it reaches, the leaders are counted on   *)
(* the way, and a draw is to decide between several.  Which leaf a tree     *)
(* reaches is left open here.  RandomForest/RF.cpp and RF-arena.cpp, the    *)
(* same forest on a PC, elect the first maximum of the same votes.          *)
EXTENDS Integers, FiniteSets

CONSTANTS
  TreeCount,   \* TREE_COUNT, 26
  Classes      \* FEATURE_COUNT, 24: the length of results

(* Both are uint8_t.                                                        *)
ASSUME VoteAssumption == TreeCount \in 1..255 /\ Classes \in 1..255

VARIABLES
  loop,        \* "vote": the first loop; "tie": the second one; "done"
  voted,       \* i of the first loop
  results,     \* votes for each class
  highest, tie_amount, ret,
  draw,        \* the value cont starts with
  cont,
  class        \* i of the second loop

voteVars == <<loop, voted, results, highest, tie_amount, ret, draw, cont, class>>

Class == 0..(Classes - 1)

Byte == 0..255

VoteTypeOK ==
  /\ loop \in {"vote", "tie", "done"}
  /\ voted \in 0..TreeCount
  /\ results \in [Class -> Byte]
  /\ highest \in Byte
  /\ tie_amount \in Byte
  /\ ret \in Class
  /\ draw \in Byte
  /\ cont \in Byte
  /\ class \in 0..Classes

VoteInit ==
  /\ loop = "vote"
  /\ voted = 0
  /\ results = [c \in Class |-> 0]
  /\ highest = 0
  /\ tie_amount = 1
  /\ ret = 0
  /\ draw = 0
  /\ cont = 0
  /\ class = 0

(* Mutant: the count of the leaders is not reset for a new leader.          *)
CountVoteKeepTies(c) ==
  LET votes == (results[c] + 1) % 256 IN
  /\ loop = "vote"
  /\ voted < TreeCount
  /\ results' = [results EXCEPT ![c] = votes]
  /\ voted' = voted + 1
  /\ IF votes > highest
       THEN highest' = votes /\ ret' = c /\ UNCHANGED tie_amount
       ELSE /\ tie_amount' = IF votes = highest THEN (tie_amount + 1) % 256 ELSE tie_amount
            /\ UNCHANGED <<highest, ret>>
  /\ UNCHANGED <<loop, draw, cont, class>>

(* Mutant: a class that draws level takes the lead and is not counted.      *)
CountVoteLatest(c) ==
  LET votes == (results[c] + 1) % 256 IN
  /\ loop = "vote"
  /\ voted < TreeCount
  /\ results' = [results EXCEPT ![c] = votes]
  /\ voted' = voted + 1
  /\ IF votes >= highest
       THEN highest' = votes /\ tie_amount' = 1 /\ ret' = c
       ELSE UNCHANGED <<highest, tie_amount, ret>>
  /\ UNCHANGED <<loop, draw, cont, class>>

(* One tree votes for c.                                                    *)
CountVote(c) ==
  LET votes == (results[c] + 1) % 256 IN
  /\ loop = "vote"
  /\ voted < TreeCount
  /\ results' = [results EXCEPT ![c] = votes]
  /\ voted' = voted + 1
  /\ IF votes > highest
       THEN highest' = votes /\ tie_amount' = 1 /\ ret' = c
       ELSE /\ tie_amount' = IF votes = highest THEN (tie_amount + 1) % 256 ELSE tie_amount
            /\ UNCHANGED <<highest, ret>>
  /\ UNCHANGED <<loop, draw, cont, class>>

ClearWinner ==
  /\ loop = "vote"
  /\ voted = TreeCount
  /\ tie_amount <= 1
  /\ loop' = "done"
  /\ UNCHANGED <<voted, results, highest, tie_amount, ret, draw, cont, class>>

(* rand() % tie_amount                                                      *)
DrawLots ==
  /\ loop = "vote"
  /\ voted = TreeCount
  /\ tie_amount > 1
  /\ draw' \in 0..(tie_amount - 1)
  /\ cont' = draw'
  /\ loop' = "tie"
  /\ UNCHANGED <<voted, results, highest, tie_amount, ret, class>>

(* Mutant: the test of the class against highest is gone.                   *)
SkipAnyClass ==
  /\ loop = "tie"
  /\ class < Classes
  /\ IF cont = 0 THEN ret' = class /\ UNCHANGED cont
                 ELSE cont' = cont - 1 /\ UNCHANGED ret
  /\ class' = class + 1
  /\ UNCHANGED <<loop, voted, results, highest, tie_amount, draw>>

(* One iteration of the second loop, which does not stop at the class that  *)
(* was drawn.                                                               *)
VisitClass ==
  /\ loop = "tie"
  /\ class < Classes
  /\ IF results[class] # highest
       THEN UNCHANGED <<cont, ret>>
       ELSE IF cont = 0 THEN ret' = class /\ UNCHANGED cont
                        ELSE cont' = cont - 1 /\ UNCHANGED ret
  /\ class' = class + 1
  /\ UNCHANGED <<loop, voted, results, highest, tie_amount, draw>>

EndOfClasses ==
  /\ loop = "tie"
  /\ class = Classes
  /\ loop' = "done"
  /\ UNCHANGED <<voted, results, highest, tie_amount, ret, draw, cont, class>>

VoteNext ==
  \/ \E c \in Class : CountVote(c)
  \/ ClearWinner \/ DrawLots \/ VisitClass \/ EndOfClasses

VoteSpec == VoteInit /\ [][VoteNext]_voteVars

-----------------------------------------------------------------------------
(* Properties.                                                              *)

Leaders == {c \in Class : results[c] = highest}

(* The running count of the leaders is their number, also after the lead    *)
(* has changed hands several times, and no counter of eight bits wraps.     *)
LeadersCounted ==
  /\ \A c \in Class : results[c] <= highest
  /\ voted > 0 => tie_amount = Cardinality(Leaders)

(* The class predict() returns has the most votes, and at least one.        *)
ElectsPlurality ==
  loop = "done" =>
    /\ results[ret] > 0
    /\ \A c \in Class : results[c] <= results[ret]

(* What fit() of RF.cpp returns for these results: the first maximum, as    *)
(* std::max_element finds it.                                               *)
FitReturns(c) ==
  \A d \in Class : results[d] <= results[c] /\ (results[d] = results[c] => c <= d)

(* The device and the program on the PC agree exactly on the instances      *)
(* without a tie: the second loop always ends with the last of the leaders. *)
AgreesWithHostUnlessTied ==
  loop = "done" => (FitReturns(ret) <=> tie_amount = 1)

(* What the comment of the second loop says it is for: the tie is broken by *)
(* the draw, so the class returned has as many leaders before it as was     *)
(* drawn.                                                                   *)
TieBrokenByDraw ==
  loop = "done" /\ tie_amount > 1 =>
    Cardinality({c \in Leaders : c < ret}) = draw
=============================================================================
