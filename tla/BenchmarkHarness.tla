-------------------------- MODULE BenchmarkHarness --------------------------
(***************************************************************************)
(* The benchmarked functions of template_tables.hpp (tables.hpp repeats    *)
(* them): TableProbe, TableMixedLookup, PointProbe, PointProbeCuckoo and   *)
(* CollisionStats.  They share a table and a probing set, kept in globals  *)
(* between calls and set up anew when the signature of the call differs    *)
(* from the previous one; Construction uses the data set only.             *)
(*                                                                         *)
(* The benchmark library (external) calls the registered instances in      *)
(* order, each of them several times in a row.                             *)
(***************************************************************************)
EXTENDS DatasetCache

CONSTANTS
  Plan,          \* the registered instances, in order
  dataset_size,
  MaxCalls,      \* calls of one instance
  Iterations,    \* iterations of the benchmark loop in one call
  Margin,        \* 10000: ranks the probing set leaves out at both ends
  AddMax,        \* 331776, the largest distance of a miss from a key
  Null

\* range stands for RangeSize or the percentage of point queries.
ASSUME HarnessAssumption ==
  /\ Len(Plan) \in Nat \ {0} /\ DOMAIN Plan = 1 .. Len(Plan)
  /\ \A n \in DOMAIN Plan :
       /\ DOMAIN Plan[n] = {"fn", "table", "range", "did", "prob"}
       /\ Plan[n].did \in Id
       /\ Plan[n].prob \in 0 .. 100
  /\ dataset_size \in Sizes
  /\ MaxCalls \in Nat \ {0} /\ Iterations \in Nat /\ AddMax \in Nat
  /\ Margin \in Nat \ {0}

VARIABLES
  at,                  \* instance of Plan the library is at
  calls,               \* calls of this instance so far, this one included
  pc,                  \* "call", "loop", "done", "terminated" or "crashed"
  previous_signature,
  probing_set,
  prev_table,          \* NoTable or the table: its type and its keys
  free_lambda,         \* type of the table it deletes, or Null: nothing
  live,                \* tables that are allocated
  i,                   \* position in probing_set
  left                 \* iterations left in this call

globals == <<previous_signature, probing_set, prev_table, free_lambda, live>>
vars == <<cache, globals, at, calls, pc, i, left>>

-----------------------------------------------------------------------------
(* Registration (external): BENCHMARK_TEMPLATE(...)->ArgsProduct.          *)

\* The instances of one template for every data set and every value of a
\* second parameter; the data set varies fastest.
ArgsProduct(fn, table, dids, ranges, probs) ==
  LET N == Len(dids)
      second(n) == ((n - 1) \div N) % Len(ranges)
  IN  [n \in 1 .. N * Len(ranges) * Len(probs) |->
         [fn    |-> fn,
          table |-> table,
          did   |-> dids[((n - 1) % N) + 1],
          range |-> ranges[second(n) + 1],
          prob  |-> probs[((n - 1) \div (N * Len(ranges))) + 1]]]

cur == Plan[at]

\* prev_table is nullptr.
NoTable == [type |-> Null, keys |-> {}]

Init ==
  /\ InitCache
  /\ at = 1 /\ calls = 1 /\ pc = "call"
  /\ previous_signature = Null
  /\ probing_set = << >>
  /\ prev_table = NoTable
  /\ free_lambda = Null
  /\ live = 0
  /\ i = 0 /\ left = 0

\* A call returns: the library repeats the instance or goes on to the next.
Returns ==
  \/ /\ calls < MaxCalls
     /\ calls' = calls + 1
     /\ pc' = "call"
     /\ UNCHANGED at
  \/ /\ at < Len(Plan)
     /\ at' = at + 1
     /\ calls' = 1
     /\ pc' = "call"
  \/ /\ at = Len(Plan)
     /\ pc' = "done"
     /\ UNCHANGED <<at, calls>>

-----------------------------------------------------------------------------
(* Setup.                                                                  *)

\* (Mutant of Signature: the data set is left out.)
Mutant_NoDataset(b) == <<b.table, b.range, dataset_size>>

\* The signature names everything but succ_probability.
Signature(b) == <<b.table, b.range, dataset_size, b.did>>

ASSUME NullAssumption ==
  \A n \in DOMAIN Plan : Plan[n].table # Null /\ Signature(Plan[n]) # Null

\* The keys of the middle ranks.
Middle(keys) ==
  LET Rank(k) == Cardinality({l \in keys : l < k})
  IN  {k \in keys : Rank(k) \in Margin .. Cardinality(keys) - Margin}

\* generate_probing_set: as many probes as keys, of keys of the middle ranks,
\* some of them moved by a random distance when prob leaves room for misses.
ProbingSets(keys, prob) ==
  LET moved == IF prob < 99 THEN {k + a : k \in Middle(keys), a \in 0 .. AddMax} ELSE {}
  IN  [1 .. Cardinality(keys) -> Middle(keys) \union moved]

Enter(b) ==
  /\ pc = "call"
  /\ b.fn # "Construction"

StartLoop(b) ==
  /\ pc' = "loop"
  /\ previous_signature' = Signature(b)
  /\ i' = 0
  /\ left' = Iterations
  /\ UNCHANGED <<at, calls>>

\* The signature is the previous one: table and probing set are used again.
Reuse ==
  /\ Enter(cur)
  /\ previous_signature = Signature(cur)
  /\ StartLoop(cur)
  /\ UNCHANGED <<cache, probing_set, prev_table, free_lambda, live>>

\* A new signature: the data set is loaded.
NewSetup(b) ==
  /\ Enter(b)
  /\ previous_signature # Signature(b)
  /\ LoadCached(b.did, dataset_size)

\* The list the setup has loaded.
Keys == Result(cur.did, dataset_size, datasets')

\* (Mutant of EarlyReturn: the signature is set before the return.)
Mutant_SignedBeforeReturn == previous_signature' = Signature(cur) /\ Returns

EarlyReturn == UNCHANGED previous_signature /\ Returns

\* The data set is empty: the probing set is empty now, too, and the call
\* returns before it has set the signature.
SetupFails ==
  /\ NewSetup(cur)
  /\ Keys = {}
  /\ probing_set' = << >>
  /\ EarlyReturn
  /\ UNCHANGED <<prev_table, free_lambda, live, i, left>>

\* free_lambda() deletes the previous table, if there is one.
FreeOld == IF prev_table # NoTable THEN live - 1 ELSE live

Build ==
  /\ NewSetup(cur)
  /\ Keys # {}
  /\ probing_set' \in ProbingSets(Keys, cur.prob)
  /\ prev_table' = [type |-> cur.table, keys |-> Keys]
  /\ live' = FreeOld + 1
  /\ free_lambda' = cur.table
  /\ StartLoop(cur)

\* The constructor throws (a linear or cuckoo table that is too crowded):
\* nobody catches, the process is terminated.
BuildThrows ==
  /\ NewSetup(cur)
  /\ Keys # {}
  /\ probing_set' \in ProbingSets(Keys, cur.prob)
  /\ live' = FreeOld
  /\ pc' = "terminated"
  /\ UNCHANGED <<previous_signature, prev_table, free_lambda, at, calls, i, left>>

\* The range of ranks is empty: an undefined distribution.
TooFewKeys ==
  /\ NewSetup(cur)
  /\ Keys # {}
  /\ ProbingSets(Keys, cur.prob) = {}
  /\ pc' = "crashed"
  /\ UNCHANGED <<globals, at, calls, i, left>>

\* Construction builds and drops tables of its own in every iteration.
Construction ==
  /\ pc = "call"
  /\ cur.fn = "Construction"
  /\ LoadCached(cur.did, dataset_size)
  /\ Returns
  /\ UNCHANGED <<globals, i, left>>

-----------------------------------------------------------------------------
(* The benchmark loop.                                                     *)

\* while (i >= probing_set.size()) i -= probing_set.size(), which does not
\* end when the probing set is empty.
Wrapped == i % Len(probing_set)

Iterate ==
  /\ pc = "loop"
  /\ left > 0
  /\ cur.fn # "CollisionStats" => probing_set # << >>
  /\ i' = IF cur.fn = "CollisionStats" THEN i ELSE Wrapped + 1
  /\ left' = left - 1
  /\ UNCHANGED <<cache, globals, at, calls, pc>>

Leave ==
  /\ pc = "loop"
  /\ left = 0
  /\ Returns
  /\ UNCHANGED <<cache, globals, i, left>>

Ended == pc \in {"done", "terminated", "crashed"}
Spins == pc = "loop" /\ left > 0 /\ cur.fn # "CollisionStats" /\ probing_set = << >>

Next ==
  \/ Reuse \/ SetupFails \/ Build \/ BuildThrows \/ TooFewKeys \/ Construction
  \/ Iterate \/ Leave
  \/ (Ended \/ Spins) /\ UNCHANGED vars

Spec == Init /\ [][Next]_vars

\* One thread that goes on as long as it can.
FairSpec == Spec /\ WF_vars(Next)
=============================================================================
