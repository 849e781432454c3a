----------------------------- MODULE MCLearned -----------------------------
(***************************************************************************)
(* Calls of the learned sort: registers of 3 lanes, 2 in flight, minor     *)
(* buckets of 2 keys, batches of 2, 2 major buckets of 2 minor ones, and   *)
(* keys sampled three times are repeated ones.  Inputs of up to 11 keys    *)
(* overfill buckets, spill, and leave conflicts that fill the residue; the *)
(* inputs of more than 8 keys are sampled.                                 *)
(***************************************************************************)
EXTENDS LearnedSort

Call(R, fn, threads, option) ==
    [R |-> R, S |-> <<7, 3, 12>>, two |-> FALSE, is_R |-> TRUE, beyond |-> 1,
     threads |-> threads, fn |-> fn, fanout |-> 2, minors |-> 2,
     params |-> [batch |-> 2, fanout |-> 1, sampling_rate |-> 50, threshold |-> 2, arch |-> 3],
     imv |-> option # "batches", prefetch |-> option = "prefetch",
     avxsort |-> TRUE, total |-> "counted"]
Scalar == "batches"
Vector == {"vector", "prefetch"}

(* Long strides, ties and runs, without a key three times in the sample. *)
Stride(a, m, n) == [i \in 1..n |-> 1 + ((i * a) % m)]
Inputs == {Stride(a, m, n) : a \in {1, 3, 5}, m \in {7, 8}, n \in {6, 9, 11}}
          \cup {[i \in 1..n |-> n + 1 - i] : n \in 4..8}
          \cup {<<1, 2, 3, 100>>, <<10, 20, 30, 11, 12, 13, 14, 15>>, <<4, 4>>,
                <<20, 20, 21, 21, 90, 95, 99, 1>>}

(* With repeated keys: parts of whole batches and parts which the last     *)
(* batch reads beyond; one repeated key, and two in one bucket; in parts   *)
(* of a relation no copy, one and several of a key.                        *)
Repeated == {<<5, 5, 5, 5>>, <<5, 1, 5, 2, 5, 9>>, <<2, 9, 9, 2, 9, 2, 1, 9>>,
             <<5, 1, 5, 2, 5>>, <<9, 2, 9, 9, 2, 2, 3>>, <<1, 3, 3, 3, 40>>,
             <<30, 1, 2, 3, 30, 30, 4, 31, 30, 29>>}
RepeatedInParts == {<<5, 1, 2, 5, 5, 9>>, <<5, 8, 5, 7, 9, 5>>, <<1, 5, 2, 5, 5, 3>>,
                    <<5, 5, 1, 5, 9, 2, 7>>, <<2, 9, 9, 2, 9, 2, 1, 9>>}

(* Every sequence of four of these keys. *)
Small == [1..4 -> {1, 2, 5, 9}]

MCJobs ==
    {Call(R, "sort_avx", 1, o) : R \in Inputs, o \in Vector \cup {Scalar}}
    \cup {[Call(R, "sort_avx", 1, o) EXCEPT !.total = total] :
              R \in Repeated, o \in {"vector", Scalar}, total \in {"reported", "counted"}}
    \cup {Call(R, "sort_avx_from_seperate_partitions", 2, o) :
              R \in Inputs, o \in Vector \cup {Scalar}}
    \cup {Call(R, "sort_avx_from_seperate_partitions", n, o) :
              R \in RepeatedInParts, n \in {2, 3}, o \in {"vector", Scalar}}
    \cup {[Call(R, "sort_avx", 1, Scalar) EXCEPT !.avxsort = FALSE] : R \in Small \cup Inputs}
    \cup {[Call(R, "sort_avx_from_seperate_partitions", 2, Scalar) EXCEPT
              !.avxsort = FALSE, !.two = TRUE] : R \in Inputs}
    \cup {[Call(R, "sort_avx", 1, "vector") EXCEPT !.two = TRUE, !.is_R = FALSE, !.S = S,
                                                   !.params.threshold = 0] :
              R \in {<<1, 5, 9>>, <<4, 4>>}, S \in Inputs}

(* One relation whose sort goes wrong in three ways: five leaves, batches  *)
(* that leave one key over, and the total that the partition reports.      *)
MCUnsorted == {[Call(<<2, 2, 2, 5, 5, 5, 9>>, "sort_avx", 1, Scalar) EXCEPT
                   !.avxsort = FALSE, !.params.arch = 5, !.params.sampling_rate = 100,
                   !.total = "reported", !.beyond = 20]}
=============================================================================
