------------------------------ MODULE MCHarness -----------------------------
(***************************************************************************)
(* Small plans for the benchmarked functions: two data sets, one of them   *)
(* in a file that may be missing, and two tables.                          *)
(***************************************************************************)
EXTENDS HarnessProperties

MCFile == [id \in {"wiki"} |-> {2, 3, 5}]
MCInRange(id, v) == v # 3
MCOffset(id) == 1

\* BM of the first table, then KAPILBM of both.
PlanAll ==
  ArgsProduct("Construction", "chained", <<"wiki", "uniform">>, <<0>>, <<100>>)
  \o ArgsProduct("TableProbe", "chained", <<"wiki", "uniform">>, <<0, 1>>, <<100>>)
  \o ArgsProduct("PointProbe", "chained", <<"uniform", "wiki">>, <<0>>, <<100>>)
  \o ArgsProduct("PointProbe", "linear", <<"uniform", "wiki">>, <<0>>, <<100>>)
  \o ArgsProduct("CollisionStats", "linear", <<"wiki">>, <<0>>, <<100>>)

\* The plan meets the premises of the theorems in HarnessProofs.
ASSUME PremisesHold == OneProbability /\ GeneratedBetween

\* One data set, two success probabilities (kapil_benchmark.cpp:67 has three).
PlanTwoProbabilities ==
  ArgsProduct("PointProbe", "chained", <<"uniform">>, <<0>>, <<50, 100>>)
=============================================================================
