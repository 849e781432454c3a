------------------------- MODULE HarnessProperties --------------------------
(***************************************************************************)
(* What a measurement relies on: the table and the probing set the loop    *)
(* uses are those the label of the call names.                             *)
(***************************************************************************)
EXTENDS BenchmarkHarness

TypeOK ==
  /\ disk \subseteq FileId
  /\ DOMAIN raw = FileId
  /\ \A id \in FileId : raw[id] = << >> \/ raw[id] \in SetToSeqs(File[id])
  /\ DOMAIN datasets \subseteq Id \X Sizes
  /\ at \in DOMAIN Plan /\ calls \in 1 .. MaxCalls
  /\ pc \in {"call", "loop", "done", "terminated", "crashed"}
  /\ i \in 0 .. dataset_size /\ left \in 0 .. Iterations
  /\ Len(probing_set) \in 0 .. dataset_size /\ DOMAIN probing_set = 1 .. Len(probing_set)

\* The table that is probed is of the type and holds the keys of the data
\* set that the label of the call names, although most calls find it in a
\* global that another call has left there.
TableMatchesCall ==
  pc = "loop" =>
    /\ prev_table = [type |-> cur.table, keys |-> datasets[<<cur.did, dataset_size>>]]
    /\ previous_signature = Signature(cur)

\* A call with a success probability of 100 looks only for keys that are in
\* the table: the probing set was made from the same keys as the table and
\* with the same probability.
ProbesSucceed ==
  (pc = "loop" /\ cur.prob = 100) =>
    \A n \in DOMAIN probing_set : probing_set[n] \in prev_table.keys

\* A call that finds its own signature finds all of its setup: a call whose
\* data set is missing overwrites the probing set and not the signature, but
\* in the order of registration no call with the old signature follows it.
\* The loop would subtract the size of an empty probing set for ever.
CachedSetupIsComplete ==
  pc = "loop" => Len(probing_set) > 0 /\ prev_table # NoTable

\* There is one table at most, the one prev_table points to, and free_lambda
\* deletes it as a table of its own type.
OneTableAllocated ==
  pc # "terminated" =>
    /\ live = IF prev_table = NoTable THEN 0 ELSE 1
    /\ prev_table # NoTable => free_lambda = prev_table.type

\* The largest value of the key type marks free slots, so that no data set
\* may hold it, generated or read.
NoSentinelInData == \A d \in DOMAIN datasets : MaxKey \notin datasets[d]

\* What one call leaves in the globals is what a later call may use: the
\* table and the probing set belong to each other, to the signature and to
\* the label of the call.  That depends on the order of the instances: it
\* holds for plans that meet OneProbability and GeneratedBetween, below, as
\* the order in which they are registered does.
SetupMatchesCall ==
  /\ TypeOK /\ NoSentinelInData
  /\ TableMatchesCall /\ ProbesSucceed /\ CachedSetupIsComplete
  /\ OneTableAllocated

-----------------------------------------------------------------------------
(* What the properties above rest on: two conditions on the order of the   *)
(* registered instances, and the strengthening that is inductive then.     *)

\* Instance n sets up a table and a probing set.
SetsUp(n) == Plan[n].fn # "Construction"

\* The signature cannot tell the two instances apart.
SameSetup(m, n) == Signature(Plan[m]) = Signature(Plan[n])

\* Instances with one signature ask for one probability of success.
OneProbability ==
  \A m, n \in DOMAIN Plan :
    SetsUp(m) /\ SetsUp(n) /\ SameSetup(m, n) => Plan[m].prob = Plan[n].prob

\* When an instance with another signature is between two with the same one,
\* then so is one whose data set is generated: it cannot be missing.
GeneratedBetween ==
  \A m, n \in DOMAIN Plan : \A f \in m .. n :
    SetsUp(m) /\ SetsUp(n) /\ SetsUp(f) /\ SameSetup(m, n) /\ ~SameSetup(m, f) =>
      \E g \in m .. n : SetsUp(g) /\ ~SameSetup(m, g) /\ Plan[g].did \notin FileId

\* A data set in the cache has a key, and no more of them than its size.
CacheInv ==
  \A d \in DOMAIN datasets :
    datasets[d] # {} /\ IsFiniteSet(datasets[d]) /\ Cardinality(datasets[d]) <= d[2]

\* Instance m is the last one whose setup is complete: the globals are what it
\* left there, but for the probing set if an instance without a data set came
\* after it.
LeftBy(m) ==
  /\ SetsUp(m)
  /\ previous_signature = Signature(Plan[m])
  /\ <<Plan[m].did, dataset_size>> \in DOMAIN datasets
  /\ prev_table = [type |-> Plan[m].table, keys |-> datasets[<<Plan[m].did, dataset_size>>]]
  /\ \A h \in m + 1 .. at - 1 : SetsUp(h) => ~SameSetup(m, h) /\ Plan[h].did \in FileId
  /\ Len(probing_set) = 0 => \E f \in m .. at : SetsUp(f) /\ ~SameSetup(m, f)
  /\ Plan[m].prob = 100 => \A n \in DOMAIN probing_set : probing_set[n] \in prev_table.keys

GlobalsInv ==
  pc # "terminated" =>
    \/ previous_signature = Null /\ prev_table = NoTable /\ pc # "loop"
    \/ \E m \in 1 .. at : LeftBy(m)

LoopIsSetUp ==
  pc = "loop" => SetsUp(at) /\ previous_signature = Signature(cur) /\ Len(probing_set) > 0

HarnessInv ==
  /\ TypeOK /\ NoSentinelInData /\ CacheInv
  /\ OneTableAllocated /\ GlobalsInv /\ LoopIsSetUp

-----------------------------------------------------------------------------
\* Every table is compared on the same keys: a data set, once it is in the
\* cache, stays what it is, although generators and shuffles are random.
DatasetsAreStable ==
  [][\A d \in DOMAIN datasets : d \in DOMAIN datasets' /\ datasets'[d] = datasets[d]]_vars

\* The benchmark program ends, or dies of a table it cannot build.
EveryCallReturns == <>Ended
=============================================================================
