------------------------------ MODULE HashJoin ------------------------------
(***************************************************************************)
(* What the non-partitioned join of npj_join_runner.cpp promises, without  *)
(* threads, buckets or latches: every tuple of R is put into the index     *)
(* once, in any order; only then are the tuples of S looked up, once each  *)
(* in every one of RUN_NUMS repetitions; and each repetition ends with the *)
(* number of pairs of R x S whose keys agree.                              *)
(***************************************************************************)
EXTENDS Integers, FiniteSets

CONSTANTS
  Key,        \* the keys of the two relations
  NumR,       \* original_relR->num_tuples
  NumS,       \* original_relS->num_tuples
  RUN_NUMS    \* repetitions of the probe phase

VARIABLES
  relR, relS, \* the relations, as functions from position to key
  stored,     \* positions of R that are in the index
  probed,     \* positions of S counted in the current repetition
  matches,    \* pairs counted in the current repetition
  run,        \* repetitions completed
  result      \* what the last completed repetition counted, NotYet before

vars == <<relR, relS, stored, probed, matches, run, result>>

NotYet == -1
RPos == 0 .. NumR - 1
SPos == 0 .. NumS - 1

Matching(j) == {p \in RPos : relR[p] = relS[j]}
JoinPairs == {q \in RPos \X SPos : relR[q[1]] = relS[q[2]]}

Init ==
  /\ relR \in [RPos -> Key]
  /\ relS \in [SPos -> Key]
  /\ stored = {}
  /\ probed = {}
  /\ matches = 0
  /\ run = 0
  /\ result = NotYet

Insert(p) ==
  /\ p \notin stored
  /\ stored' = stored \union {p}
  /\ UNCHANGED <<relR, relS, probed, matches, run, result>>

Lookup(j) ==
  /\ stored = RPos
  /\ run < RUN_NUMS
  /\ j \notin probed
  /\ probed' = probed \union {j}
  /\ matches' = matches + Cardinality(Matching(j))
  /\ UNCHANGED <<relR, relS, stored, run, result>>

\* A repetition ends: its count is the answer, whatever the previous one left.
EndRun ==
  /\ stored = RPos
  /\ run < RUN_NUMS
  /\ probed = SPos
  /\ result' = matches
  /\ run' = run + 1
  /\ probed' = {}
  /\ matches' = 0
  /\ UNCHANGED <<relR, relS, stored>>

Next ==
  \/ \E p \in RPos : Insert(p)
  \/ \E j \in SPos : Lookup(j)
  \/ EndRun

Spec == Init /\ [][Next]_vars
=============================================================================
