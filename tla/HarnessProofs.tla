---------------------------- MODULE HarnessProofs ---------------------------
(***************************************************************************)
(* Proofs about BenchmarkHarness for every plan of instances, set of files *)
(* and outcome of the random choices.  What a plan has to observe for a    *)
(* call to find the setup its label names is a premise.                    *)
(***************************************************************************)
EXTENDS HarnessProperties, FiniteSetTheorems, FunctionTheorems, TLAPS

-----------------------------------------------------------------------------
(* The cache of data sets.                                                 *)

\* A vector of size > 0 elements has keys, never the largest value among them,
\* and at most size of them.
LEMMA KeysOfVector ==
  ASSUME NEW size \in Nat \ {0}, NEW ds, DOMAIN ds = 1 .. size
  PROVE  /\ KeysOf(ds) # {} /\ MaxKey \notin KeysOf(ds)
         /\ IsFiniteSet(KeysOf(ds)) /\ Cardinality(KeysOf(ds)) <= size
         /\ Cardinality(KeysOf(ds)) \in Nat
<1> DEFINE D == 1 .. size
           f == [n \in D |-> IF ds[n] = MaxKey THEN MaxKey - 1 ELSE ds[n]]
           K == KeysOf(ds)
<1>1. K = {f[n] : n \in D}
  BY DEF KeysOf
<1>2. MaxKey \notin K
  <2>1. MaxKey - 1 # MaxKey
    BY DatasetAssumption
  <2> QED  BY <2>1 DEF KeysOf
<1>3. K # {}
  <2>1. 1 \in D
    OBVIOUS
  <2> QED  BY <1>1, <2>1
<1>4. IsFiniteSet(D) /\ Cardinality(D) = size
  <2>1. 1 \in Int /\ size \in Int /\ ~(1 > size)
    OBVIOUS
  <2> QED  BY <2>1, FS_Interval
<1>5. f \in Surjection(D, K)
  <2>1. f \in [D -> K] /\ \A k \in K : \E n \in D : f[n] = k
    BY <1>1
  <2> HIDE DEF f, D, K
  <2> QED  BY <2>1, Fun_IsSurj
<1>6. IsFiniteSet(K) /\ Cardinality(K) <= size /\ Cardinality(K) \in Nat
  <2> HIDE DEF f, D, K
  <2> QED  BY <1>4, <1>5, FS_Surjection, FS_CardinalityType
<1> QED
  BY <1>2, <1>3, <1>6

\* What the invariants say of the cache.
CacheOK ==
  /\ disk \subseteq FileId /\ DOMAIN raw = FileId
  /\ \A id \in FileId : raw[id] = << >> \/ raw[id] \in SetToSeqs(File[id])
  /\ DOMAIN datasets \subseteq Id \X Sizes
  /\ CacheInv /\ NoSentinelInData

Stable == \A d \in DOMAIN datasets : d \in DOMAIN datasets' /\ datasets'[d] = datasets[d]

LEMMA StoreEffect ==
  ASSUME CacheOK, NEW id \in Id, NEW ds, DOMAIN ds = 1 .. dataset_size,
         ~Cached(id, dataset_size), Store(id, dataset_size, ds)
  PROVE  /\ DOMAIN datasets' \subseteq Id \X Sizes /\ CacheInv' /\ NoSentinelInData' /\ Stable
         /\ <<id, dataset_size>> \in DOMAIN datasets'
<1> DEFINE e == <<id, dataset_size>>
           K == KeysOf(ds)
<1>1. dataset_size \in Sizes /\ dataset_size \in Nat \ {0}
  BY HarnessAssumption, DatasetAssumption
<1>2. /\ K # {} /\ MaxKey \notin K
      /\ IsFiniteSet(K) /\ Cardinality(K) <= dataset_size
  BY <1>1, KeysOfVector
<1> HIDE DEF K
<1>3. /\ DOMAIN datasets' = DOMAIN datasets \union {e}
      /\ datasets'[e] = K
      /\ \A d \in DOMAIN datasets : d # e => datasets'[d] = datasets[d]
  BY DEF Store, K
<1>4. e \notin DOMAIN datasets
  BY DEF Cached
<1>5. e[2] = dataset_size /\ e \in Id \X Sizes
  BY <1>1
<1> HIDE DEF e
<1>6. CacheInv'
  BY <1>2, <1>3, <1>5 DEF CacheOK, CacheInv
<1>7. NoSentinelInData'
  BY <1>2, <1>3 DEF CacheOK, NoSentinelInData
<1>8. Stable
  BY <1>3, <1>4 DEF Stable
<1> QED
  BY <1>3, <1>5, <1>6, <1>7, <1>8 DEF CacheOK, e

LEMMA LoadEffect ==
  ASSUME CacheOK, NEW id \in Id, LoadCached(id, dataset_size)
  PROVE  /\ CacheOK' /\ Stable
         /\ Result(id, dataset_size, datasets') = {} => id \in FileId
         /\ Result(id, dataset_size, datasets') # {} =>
              /\ <<id, dataset_size>> \in DOMAIN datasets'
              /\ Result(id, dataset_size, datasets') = datasets'[<<id, dataset_size>>]
<1> DEFINE e == <<id, dataset_size>>
<1>1. CASE Hit(id, dataset_size)
  <2>1. UNCHANGED <<disk, raw, datasets>> /\ e \in DOMAIN datasets
    BY <1>1 DEF Hit, cache, Cached
  <2> QED  BY <2>1 DEF CacheOK, CacheInv, NoSentinelInData, Stable, Result
<1>2. CASE Generate(id, dataset_size)
  <2>1. PICK ds \in [1 .. dataset_size -> Value] : Store(id, dataset_size, ds)
    BY <1>2 DEF Generate
  <2>2. /\ DOMAIN datasets' \subseteq Id \X Sizes /\ CacheInv' /\ NoSentinelInData' /\ Stable
        /\ e \in DOMAIN datasets'
    BY <1>2, <2>1, StoreEffect DEF Generate
  <2>3. disk' = disk /\ raw' = raw
    BY <1>2 DEF Generate
  <2>4. datasets'[e] # {}
    BY <2>2 DEF CacheInv
  <2> QED  BY <2>2, <2>3, <2>4 DEF CacheOK, Result
<1>3. CASE SampleFile(id, dataset_size)
  <2>1. PICK file \in (IF raw[id] = << >> THEN Loaded(id) ELSE {raw[id]}) :
          /\ file # << >>
          /\ raw' = [raw EXCEPT ![id] = file]
          /\ Store(id, dataset_size, Sample(id, dataset_size, file))
    BY <1>3 DEF SampleFile
  <2>2. id \in FileId /\ disk' = disk /\ ~Cached(id, dataset_size)
    BY <1>3 DEF SampleFile
  <2>3. file \in SetToSeqs(File[id])
    BY <2>1, <2>2 DEF Loaded, CacheOK
  <2>4. DOMAIN Sample(id, dataset_size, file) = 1 .. dataset_size
    BY DEF Sample
  <2>5. /\ DOMAIN datasets' \subseteq Id \X Sizes /\ CacheInv' /\ NoSentinelInData' /\ Stable
        /\ e \in DOMAIN datasets'
    BY <2>1, <2>2, <2>4, StoreEffect
  <2>6. /\ DOMAIN raw' = FileId
        /\ \A f \in FileId : raw'[f] = << >> \/ raw'[f] \in SetToSeqs(File[f])
    BY <2>1, <2>2, <2>3 DEF CacheOK
  <2> QED  BY <2>2, <2>5, <2>6 DEF CacheOK, Result
<1>4. CASE NoFile(id, dataset_size)
  <2>1. UNCHANGED <<disk, raw, datasets>> /\ id \in FileId /\ e \notin DOMAIN datasets
    BY <1>4 DEF NoFile, cache, Cached
  <2> QED  BY <2>1 DEF CacheOK, CacheInv, NoSentinelInData, Stable, Result
<1> QED
  BY <1>1, <1>2, <1>3, <1>4 DEF LoadCached

\* Every data set a plan names is one there is.
LEMMA PlanType ==
  ASSUME at \in DOMAIN Plan
  PROVE  cur.did \in Id /\ cur.prob \in 0 .. 100 /\ cur.table # Null /\ Signature(cur) # Null
BY HarnessAssumption, NullAssumption DEF cur

\* A call that returns leaves everything but its place in the plan.
LEMMA ReturnsType ==
  ASSUME at \in DOMAIN Plan, calls \in 1 .. MaxCalls, Returns
  PROVE  /\ at' \in DOMAIN Plan /\ at' \in {at, at + 1} /\ calls' \in 1 .. MaxCalls
         /\ at \in Nat /\ pc' \in {"call", "done"}
BY HarnessAssumption DEF Returns

LEMMA ProbingType ==
  ASSUME NEW keys, IsFiniteSet(keys), keys # {}, Cardinality(keys) <= dataset_size,
         NEW prob \in 0 .. 100, NEW ps \in ProbingSets(keys, prob)
  PROVE  /\ Len(ps) \in 1 .. dataset_size /\ DOMAIN ps = 1 .. Len(ps)
         /\ prob = 100 => \A n \in DOMAIN ps : ps[n] \in keys
<1> DEFINE size == Cardinality(keys)
           S == Middle(keys) \union
                  (IF prob < 99 THEN {k + a : k \in Middle(keys), a \in 0 .. AddMax} ELSE {})
<1>1. ps \in [1 .. size -> S]
  BY DEF ProbingSets
<1>2. size \in Nat /\ size # 0 /\ size <= dataset_size /\ dataset_size \in Nat
  <2>1. size \in Nat
    BY FS_CardinalityType
  <2>2. size # 0
    BY FS_EmptySet
  <2>3. dataset_size \in Nat
    BY HarnessAssumption, DatasetAssumption
  <2> QED  BY <2>1, <2>2, <2>3
<1>3. prob = 100 => S \subseteq keys
  BY DEF Middle
<1> HIDE DEF size, S
<1>4. Len(ps) = size /\ DOMAIN ps = 1 .. size
  <2>1. ps \in Seq(S)
    BY <1>1, <1>2
  <2> QED  BY <1>1, <1>2, <2>1
<1> QED
  BY <1>1, <1>2, <1>3, <1>4

-----------------------------------------------------------------------------
(* The globals.                                                            *)

\* What an instance has left in the globals stays there while the calls that
\* return have changed nothing, or have had no data set.
LEMMA LeftStays ==
  ASSUME at \in Nat, NEW m \in 1 .. at, LeftBy(m), Stable,
         previous_signature' = previous_signature, prev_table' = prev_table,
         probing_set' = probing_set \/ probing_set' = << >>,
         at' \in {at, at + 1},
         at' = at + 1 /\ SetsUp(at) => ~SameSetup(m, at) /\ Plan[at].did \in FileId,
         Len(probing_set') = 0 => \E f \in m .. at : SetsUp(f) /\ ~SameSetup(m, f)
  PROVE  m \in 1 .. at' /\ LeftBy(m)'
<1>1. m \in 1 .. at' /\ \A f \in m .. at : f \in m .. at'
  OBVIOUS
<1>2. <<Plan[m].did, dataset_size>> \in DOMAIN datasets' /\ prev_table'
        = [type |-> Plan[m].table, keys |-> datasets'[<<Plan[m].did, dataset_size>>]]
  BY DEF LeftBy, Stable
<1>3. \A h \in m + 1 .. at' - 1 : SetsUp(h) => ~SameSetup(m, h) /\ Plan[h].did \in FileId
  <2>1. PICK b : b = at'
    OBVIOUS
  <2>2. m \in Int /\ at \in Int /\ (b = at \/ b = at + 1)
    BY <2>1
  <2>3. \A h \in m + 1 .. b - 1 : h \in m + 1 .. at - 1 \/ (h = at /\ b = at + 1)
    BY <2>2
  <2>4. \A h \in m + 1 .. at - 1 : SetsUp(h) => ~SameSetup(m, h) /\ Plan[h].did \in FileId
    BY DEF LeftBy
  <2>5. b = at + 1 /\ SetsUp(at) => ~SameSetup(m, at) /\ Plan[at].did \in FileId
    BY <2>1
  <2>6. \A h \in m + 1 .. b - 1 : SetsUp(h) => ~SameSetup(m, h) /\ Plan[h].did \in FileId
    BY <2>3, <2>4, <2>5
  <2> QED  BY <2>1, <2>6
<1>4. Plan[m].prob = 100 => \A n \in DOMAIN probing_set' : probing_set'[n] \in prev_table'.keys
  BY DEF LeftBy
<1> QED
  BY <1>1, <1>2, <1>3, <1>4 DEF LeftBy, SetsUp, SameSetup, Signature

\* The same of the invariant, for a call that goes on, returns or stops.  The
\* next instance finds what the loop that ends before it has used.
LEMMA GlobalsStay ==
  ASSUME HarnessInv, OneProbability, pc # "terminated", Stable,
         previous_signature' = previous_signature, prev_table' = prev_table,
         probing_set' = probing_set, at' \in {at, at + 1},
         pc' = "loop" => previous_signature # Null,
         at' = at + 1 /\ SetsUp(at) => pc = "loop"
  PROVE  GlobalsInv'
<1>1. at \in Nat /\ at \in DOMAIN Plan /\ DOMAIN Plan = 1 .. Len(Plan)
  BY HarnessAssumption DEF HarnessInv, TypeOK
<1>2. CASE previous_signature = Null /\ prev_table = NoTable /\ pc # "loop"
  BY <1>2 DEF GlobalsInv, NoTable
<1>3. CASE \E m \in 1 .. at : LeftBy(m)
  <2>1. PICK m \in 1 .. at : LeftBy(m)
    BY <1>3
  <2>2. CASE pc = "loop" /\ at' = at + 1
    <3>1. SetsUp(at) /\ previous_signature = Signature(Plan[at]) /\ Len(probing_set) > 0
      BY <2>2 DEF HarnessInv, LoopIsSetUp, cur
    <3>2. PICK a : a = at
      OBVIOUS
    <3>3. SetsUp(m) /\ SetsUp(a) /\ SameSetup(m, a)
      BY <2>1, <3>1, <3>2 DEF LeftBy, SameSetup
    <3>4. Plan[m].table = Plan[a].table /\ Plan[m].did = Plan[a].did
      BY <3>3 DEF SameSetup, Signature
    <3>5. Plan[m].prob = Plan[a].prob
      <4>1. m \in DOMAIN Plan /\ a \in DOMAIN Plan
        BY <1>1, <2>1, <3>2
      <4> QED  BY <3>3, <4>1 DEF OneProbability
    <3>6. a \in 1 .. at' /\ a + 1 .. at' - 1 = {}
      BY <1>1, <2>2, <3>2
    <3>7. <<Plan[a].did, dataset_size>> \in DOMAIN datasets' /\ prev_table'
            = [type |-> Plan[a].table, keys |-> datasets'[<<Plan[a].did, dataset_size>>]]
      BY <2>1, <3>4 DEF LeftBy, Stable
    <3>8. Plan[a].prob = 100 => \A n \in DOMAIN probing_set' : probing_set'[n] \in prev_table'.keys
      BY <2>1, <3>5 DEF LeftBy
    <3>9. previous_signature' = Signature(Plan[a]) /\ Len(probing_set') # 0
      BY <3>1, <3>2
    <3>10. LeftBy(a)'
      BY <3>3, <3>6, <3>7, <3>8, <3>9 DEF LeftBy, SetsUp, SameSetup, Signature
    <3> QED  BY <3>6, <3>10 DEF GlobalsInv
  <2>3. CASE ~(pc = "loop" /\ at' = at + 1)
    <3>1. at' = at + 1 /\ SetsUp(at) => ~SameSetup(m, at) /\ Plan[at].did \in FileId
      BY <2>3
    <3>2. Len(probing_set') = 0 => \E f \in m .. at : SetsUp(f) /\ ~SameSetup(m, f)
      BY <2>1 DEF LeftBy
    <3>3. m \in 1 .. at' /\ LeftBy(m)'
      BY <1>1, <2>1, <3>1, <3>2, LeftStays
    <3> QED  BY <3>3 DEF GlobalsInv
  <2> QED  BY <2>2, <2>3
<1> QED
  BY <1>2, <1>3 DEF HarnessInv, GlobalsInv

-----------------------------------------------------------------------------
(* The steps.                                                              *)

LEMMA LoadForCall ==
  ASSUME HarnessInv, LoadCached(cur.did, dataset_size)
  PROVE  /\ CacheOK' /\ Stable
         /\ Keys = {} => Plan[at].did \in FileId
         /\ Keys # {} => /\ <<Plan[at].did, dataset_size>> \in DOMAIN datasets'
                         /\ Keys = datasets'[<<Plan[at].did, dataset_size>>]
<1>1. PICK id : id = cur.did
  OBVIOUS
<1>2. CacheOK
  BY DEF HarnessInv, TypeOK, CacheOK
<1>3. id \in Id /\ LoadCached(id, dataset_size)
  BY <1>1, PlanType DEF HarnessInv, TypeOK
<1>4. Keys = Result(id, dataset_size, datasets') /\ id = Plan[at].did
  BY <1>1 DEF Keys, cur
<1> QED
  BY <1>2, <1>3, <1>4, LoadEffect

LEMMA ReuseStep ==
  ASSUME HarnessInv, OneProbability, GeneratedBetween, Reuse
  PROVE  HarnessInv'
<1>1. /\ pc = "call" /\ SetsUp(at) /\ previous_signature = Signature(cur)
      /\ UNCHANGED <<disk, raw, datasets, probing_set, prev_table, free_lambda, live, at, calls>>
      /\ previous_signature' = previous_signature /\ pc' = "loop"
      /\ i' = 0 /\ left' = Iterations
  BY DEF Reuse, Enter, StartLoop, SetsUp, cur, cache
<1>2. at \in DOMAIN Plan /\ DOMAIN Plan = 1 .. Len(Plan) /\ at \in Nat
  BY HarnessAssumption DEF HarnessInv, TypeOK
<1>3. previous_signature # Null
  BY <1>1, <1>2, PlanType
<1>4. PICK m \in 1 .. at : LeftBy(m)
  BY <1>1, <1>3 DEF HarnessInv, GlobalsInv
<1>5. Len(probing_set) > 0
  <2>1. PICK a : a = at
    OBVIOUS
  <2>2. m \in DOMAIN Plan /\ a \in DOMAIN Plan
    BY <1>2, <1>4, <2>1
  <2>3. SetsUp(m) /\ SetsUp(a) /\ SameSetup(m, a)
    BY <1>1, <1>4, <2>1 DEF LeftBy, SameSetup, cur
  <2>4. ASSUME NEW f \in m .. a, SetsUp(f), ~SameSetup(m, f)
        PROVE  FALSE
    <3>1. PICK g \in m .. a : SetsUp(g) /\ ~SameSetup(m, g) /\ Plan[g].did \notin FileId
      BY <2>2, <2>3, <2>4 DEF GeneratedBetween
    <3>2. g # m /\ g # a
      BY <2>3, <3>1 DEF SameSetup
    <3>3. g \in m + 1 .. a - 1
      BY <1>2, <2>1, <3>2
    <3> QED  BY <1>4, <2>1, <3>1, <3>3 DEF LeftBy
  <2>5. Len(probing_set) # 0
    BY <1>4, <2>1, <2>4 DEF LeftBy
  <2> QED  BY <2>5 DEF HarnessInv, TypeOK
<1>6. TypeOK'
  <2>1. i' \in 0 .. dataset_size /\ left' \in 0 .. Iterations
    BY <1>1, HarnessAssumption, DatasetAssumption
  <2> QED  BY <1>1, <2>1 DEF HarnessInv, TypeOK
<1>7. GlobalsInv'
  <2>1. Stable
    BY <1>1 DEF Stable
  <2> QED  BY <1>1, <1>2, <1>3, <2>1, GlobalsStay
<1>8. LoopIsSetUp'
  BY <1>1, <1>5 DEF LoopIsSetUp, cur, SetsUp, Signature
<1>9. NoSentinelInData' /\ CacheInv' /\ OneTableAllocated'
  BY <1>1 DEF HarnessInv, NoSentinelInData, CacheInv, OneTableAllocated, NoTable
<1> QED
  BY <1>6, <1>7, <1>8, <1>9 DEF HarnessInv

LEMMA SetupFailsStep ==
  ASSUME HarnessInv, SetupFails
  PROVE  HarnessInv'
<1>1. /\ pc = "call" /\ previous_signature # Signature(Plan[at])
      /\ LoadCached(cur.did, dataset_size) /\ Keys = {} /\ probing_set' = << >>
      /\ UNCHANGED <<previous_signature, prev_table, free_lambda, live, i, left>> /\ Returns
  BY DEF SetupFails, NewSetup, Enter, EarlyReturn, cur
<1>2. CacheOK' /\ Stable /\ Plan[at].did \in FileId
  BY <1>1, LoadForCall
<1>3. /\ at' \in DOMAIN Plan /\ at' \in {at, at + 1} /\ calls' \in 1 .. MaxCalls
      /\ at \in Nat /\ pc' \in {"call", "done"}
  BY <1>1, ReturnsType DEF HarnessInv, TypeOK
<1>4. TypeOK'
  <2>1. Len(probing_set') \in 0 .. dataset_size /\ DOMAIN probing_set' = 1 .. Len(probing_set')
    BY <1>1, HarnessAssumption, DatasetAssumption
  <2>2. i' \in 0 .. dataset_size /\ left' \in 0 .. Iterations
    BY <1>1 DEF HarnessInv, TypeOK
  <2> QED  BY <1>2, <1>3, <2>1, <2>2 DEF TypeOK, CacheOK
<1>5. GlobalsInv'
  <2>1. CASE previous_signature = Null /\ prev_table = NoTable
    BY <1>1, <1>3, <2>1 DEF GlobalsInv, NoTable
  <2>2. CASE \E m \in 1 .. at : LeftBy(m)
    <3>1. PICK m \in 1 .. at : LeftBy(m)
      BY <2>2
    <3>2. PICK a : a = at
      OBVIOUS
    <3>3. ~SameSetup(m, a)
      BY <1>1, <3>1, <3>2 DEF LeftBy, SameSetup
    <3>4. SetsUp(a)
      BY <3>2 DEF SetupFails, NewSetup, Enter, SetsUp, cur
    <3>5. \E f \in m .. at : SetsUp(f) /\ ~SameSetup(m, f)
      <4>1. a \in m .. at
        BY <1>3, <3>2
      <4> QED  BY <3>3, <3>4, <4>1
    <3>6. m \in 1 .. at' /\ LeftBy(m)'
      BY <1>1, <1>2, <1>3, <3>1, <3>2, <3>3, <3>5, LeftStays
    <3> QED  BY <3>6 DEF GlobalsInv
  <2> QED  BY <1>1, <2>1, <2>2 DEF HarnessInv, GlobalsInv
<1>6. LoopIsSetUp'
  BY <1>3 DEF LoopIsSetUp
<1>7. OneTableAllocated'
  BY <1>1 DEF HarnessInv, OneTableAllocated, NoTable
<1> QED
  BY <1>2, <1>4, <1>5, <1>6, <1>7 DEF HarnessInv, CacheOK

\* A new setup: the probing set has as many keys as the table has.
LEMMA SetupEffect ==
  ASSUME HarnessInv, NewSetup(cur), Keys # {}
  PROVE  /\ CacheOK' /\ Stable
         /\ pc = "call" /\ SetsUp(at)
         /\ <<Plan[at].did, dataset_size>> \in DOMAIN datasets'
         /\ Keys = datasets'[<<Plan[at].did, dataset_size>>]
         /\ probing_set' \in ProbingSets(Keys, cur.prob) =>
              /\ Len(probing_set') \in 1 .. dataset_size
              /\ DOMAIN probing_set' = 1 .. Len(probing_set')
              /\ cur.prob = 100 => \A n \in DOMAIN probing_set' : probing_set'[n] \in Keys
<1>1. /\ pc = "call" /\ SetsUp(at) /\ LoadCached(cur.did, dataset_size)
  BY DEF NewSetup, Enter, SetsUp, cur
<1>2. /\ CacheOK' /\ Stable
      /\ <<Plan[at].did, dataset_size>> \in DOMAIN datasets'
      /\ Keys = datasets'[<<Plan[at].did, dataset_size>>]
  BY <1>1, LoadForCall
<1>3. IsFiniteSet(Keys) /\ Cardinality(Keys) <= dataset_size
  <2>1. PICK e : e = <<Plan[at].did, dataset_size>>
    OBVIOUS
  <2>2. e \in DOMAIN datasets' /\ Keys = datasets'[e] /\ e[2] = dataset_size
    BY <1>2, <2>1
  <2> QED  BY <1>2, <2>2 DEF CacheOK, CacheInv
<1>4. cur.prob \in 0 .. 100
  BY PlanType DEF HarnessInv, TypeOK
<1>5. ASSUME probing_set' \in ProbingSets(Keys, cur.prob)
      PROVE  /\ Len(probing_set') \in 1 .. dataset_size
             /\ DOMAIN probing_set' = 1 .. Len(probing_set')
             /\ cur.prob = 100 => \A n \in DOMAIN probing_set' : probing_set'[n] \in Keys
  <2>1. PICK keys, prob, ps : keys = Keys /\ prob = cur.prob /\ ps = probing_set'
    OBVIOUS
  <2>2. /\ Len(ps) \in 1 .. dataset_size /\ DOMAIN ps = 1 .. Len(ps)
        /\ prob = 100 => \A n \in DOMAIN ps : ps[n] \in keys
    <3>1. IsFiniteSet(keys) /\ keys # {} /\ Cardinality(keys) <= dataset_size
      BY <1>3, <2>1
    <3>2. prob \in 0 .. 100 /\ ps \in ProbingSets(keys, prob)
      BY <1>4, <1>5, <2>1
    <3>3. Len(ps) \in 1 .. dataset_size /\ DOMAIN ps = 1 .. Len(ps)
      BY <3>1, <3>2, ProbingType
    <3>4. prob = 100 => \A n \in DOMAIN ps : ps[n] \in keys
      BY <3>1, <3>2, ProbingType
    <3> QED  BY <3>3, <3>4
  <2> QED  BY <2>1, <2>2
<1> QED
  BY <1>1, <1>2, <1>5

LEMMA BuildStep ==
  ASSUME HarnessInv, Build
  PROVE  HarnessInv'
<1>1. /\ NewSetup(cur) /\ Keys # {} /\ probing_set' \in ProbingSets(Keys, cur.prob)
      /\ prev_table' = [type |-> cur.table, keys |-> Keys]
      /\ live' = FreeOld + 1 /\ free_lambda' = cur.table
      /\ pc' = "loop" /\ previous_signature' = Signature(cur)
      /\ i' = 0 /\ left' = Iterations /\ UNCHANGED <<at, calls>>
  BY DEF Build, StartLoop
<1>2. /\ CacheOK' /\ Stable
      /\ pc = "call" /\ SetsUp(at)
      /\ <<Plan[at].did, dataset_size>> \in DOMAIN datasets'
      /\ Keys = datasets'[<<Plan[at].did, dataset_size>>]
      /\ Len(probing_set') \in 1 .. dataset_size
      /\ DOMAIN probing_set' = 1 .. Len(probing_set')
      /\ cur.prob = 100 => \A n \in DOMAIN probing_set' : probing_set'[n] \in Keys
  BY <1>1, SetupEffect
<1>3. at \in DOMAIN Plan /\ at \in Nat /\ at \in 1 .. at /\ at + 1 .. at - 1 = {}
  <2>1. at \in DOMAIN Plan /\ at \in 1 .. Len(Plan)
    BY HarnessAssumption DEF HarnessInv, TypeOK
  <2> QED  BY <2>1, HarnessAssumption
<1>4. TypeOK'
  <2>1. i' \in 0 .. dataset_size /\ left' \in 0 .. Iterations
    BY <1>1, HarnessAssumption, DatasetAssumption
  <2>2. Len(probing_set') \in 0 .. dataset_size
    BY <1>2, HarnessAssumption, DatasetAssumption
  <2> QED  BY <1>1, <1>2, <2>1, <2>2 DEF HarnessInv, TypeOK, CacheOK
<1>5. GlobalsInv'
  <2>1. PICK a : a = at
    OBVIOUS
  <2>2. /\ SetsUp(a) /\ previous_signature' = Signature(Plan[a])
        /\ <<Plan[a].did, dataset_size>> \in DOMAIN datasets'
        /\ prev_table' = [type |-> Plan[a].table,
                          keys |-> datasets'[<<Plan[a].did, dataset_size>>]]
    BY <1>1, <1>2, <2>1 DEF cur
  <2>3. a \in 1 .. at' /\ a + 1 .. at' - 1 = {} /\ Len(probing_set') # 0
    <3>1. Len(probing_set') # 0
      BY <1>2, HarnessAssumption, DatasetAssumption
    <3> QED  BY <1>1, <1>3, <2>1, <3>1
  <2>4. Plan[a].prob = 100 => \A n \in DOMAIN probing_set' : probing_set'[n] \in prev_table'.keys
    BY <1>1, <1>2, <2>1 DEF cur
  <2>5. LeftBy(a)'
    BY <2>2, <2>3, <2>4 DEF LeftBy, SetsUp, SameSetup, Signature
  <2> QED  BY <2>3, <2>5 DEF GlobalsInv
<1>6. LoopIsSetUp'
  <2>1. Len(probing_set') > 0
    BY <1>2, HarnessAssumption, DatasetAssumption
  <2> QED  BY <1>1, <1>2, <2>1 DEF LoopIsSetUp, cur, SetsUp, Signature
<1>7. OneTableAllocated'
  <2>1. cur.table # Null
    BY PlanType DEF HarnessInv, TypeOK
  <2>2. prev_table' # NoTable /\ prev_table'.type = cur.table
    BY <1>1, <2>1 DEF NoTable
  <2>3. live' = 1
    BY <1>1, <1>2 DEF HarnessInv, OneTableAllocated, FreeOld
  <2> QED  BY <1>1, <2>2, <2>3 DEF OneTableAllocated, NoTable
<1> QED
  BY <1>2, <1>4, <1>5, <1>6, <1>7 DEF HarnessInv, CacheOK

LEMMA BuildThrowsStep ==
  ASSUME HarnessInv, BuildThrows
  PROVE  HarnessInv'
<1>1. /\ NewSetup(cur) /\ Keys # {} /\ probing_set' \in ProbingSets(Keys, cur.prob)
      /\ pc' = "terminated" /\ UNCHANGED <<at, calls, i, left>>
  BY DEF BuildThrows
<1>2. /\ CacheOK' /\ Len(probing_set') \in 1 .. dataset_size
      /\ DOMAIN probing_set' = 1 .. Len(probing_set')
  BY <1>1, SetupEffect
<1>3. TypeOK'
  <2>1. Len(probing_set') \in 0 .. dataset_size
    BY <1>2, HarnessAssumption, DatasetAssumption
  <2> QED  BY <1>1, <1>2, <2>1 DEF HarnessInv, TypeOK, CacheOK
<1> QED
  BY <1>1, <1>2, <1>3
     DEF HarnessInv, CacheOK, GlobalsInv, LoopIsSetUp, OneTableAllocated

\* The steps that leave the globals as they are: the call goes on in the loop,
\* returns to the library or has crashed.
LEMMA OtherStep ==
  ASSUME HarnessInv, OneProbability, TooFewKeys \/ Construction \/ Iterate \/ Leave
  PROVE  HarnessInv'
<1>1. UNCHANGED globals
  BY DEF TooFewKeys, Construction, Iterate, Leave
<1>2. CacheOK' /\ Stable
  <2>1. CASE TooFewKeys \/ Construction
    <3>1. LoadCached(cur.did, dataset_size)
      BY <2>1 DEF TooFewKeys, Construction, NewSetup
    <3> QED  BY <3>1, LoadForCall
  <2>2. CASE Iterate \/ Leave
    <3>1. UNCHANGED <<disk, raw, datasets>>
      BY <2>2 DEF Iterate, Leave, cache
    <3> QED  BY <3>1 DEF HarnessInv, TypeOK, CacheOK, CacheInv, NoSentinelInData, Stable
  <2> QED  BY <2>1, <2>2
<1>3. /\ at \in Nat /\ at' \in DOMAIN Plan /\ at' \in {at, at + 1} /\ calls' \in 1 .. MaxCalls
      /\ pc' \in {"call", "loop", "done", "crashed"} /\ pc # "terminated"
      /\ at' = at + 1 /\ SetsUp(at) => pc = "loop"
  <2>1. at \in DOMAIN Plan /\ at \in Nat /\ calls \in 1 .. MaxCalls
    BY HarnessAssumption DEF HarnessInv, TypeOK
  <2>2. CASE TooFewKeys \/ Iterate
    BY <2>1, <2>2 DEF TooFewKeys, NewSetup, Enter, Iterate
  <2>3. CASE Construction \/ Leave
    BY <2>1, <2>3, ReturnsType DEF Construction, Leave, SetsUp, cur
  <2> QED  BY <2>2, <2>3
<1>4. pc' = "loop" => pc = "loop" /\ at' = at
  <2>1. CASE TooFewKeys \/ Iterate
    BY <2>1 DEF TooFewKeys, Iterate
  <2>2. CASE Construction \/ Leave
    BY <2>2, ReturnsType DEF Construction, Leave, HarnessInv, TypeOK
  <2> QED  BY <2>1, <2>2
<1>5. i' \in 0 .. dataset_size /\ left' \in 0 .. Iterations
  <2>1. CASE Iterate
    <3>1. /\ left > 0 /\ left' = left - 1
          /\ i' = i \/ i' = (i % Len(probing_set)) + 1
      BY <2>1 DEF Iterate, Wrapped
    <3>2. i \in 0 .. dataset_size /\ left \in 0 .. Iterations
      BY DEF HarnessInv, TypeOK
    <3>3. Len(probing_set) \in 0 .. dataset_size /\ Len(probing_set) > 0
      BY <2>1 DEF HarnessInv, TypeOK, LoopIsSetUp, Iterate
    <3>4. \A n \in Nat, l \in Nat \ {0} : n % l \in 0 .. l - 1
      OBVIOUS
    <3>5. dataset_size \in Nat /\ Iterations \in Nat
      BY HarnessAssumption, DatasetAssumption
    <3>6. PICK l : l = Len(probing_set)
      OBVIOUS
    <3>7. l \in Nat \ {0} /\ l \in 1 .. dataset_size /\ i \in Nat
      BY <3>2, <3>3, <3>5, <3>6
    <3>8. i % l \in 0 .. l - 1
      BY <3>4, <3>7
    <3> QED  BY <3>1, <3>2, <3>5, <3>6, <3>7, <3>8
  <2>2. CASE TooFewKeys \/ Construction \/ Leave
    BY <2>2 DEF TooFewKeys, Construction, Leave, HarnessInv, TypeOK
  <2> QED  BY <2>1, <2>2
<1>6. TypeOK'
  BY <1>1, <1>2, <1>3, <1>5 DEF HarnessInv, TypeOK, CacheOK, globals
<1>7. GlobalsInv'
  <2>1. pc' = "loop" => previous_signature # Null
    BY <1>4, PlanType DEF HarnessInv, TypeOK, LoopIsSetUp
  <2> QED  BY <1>1, <1>2, <1>3, <2>1, GlobalsStay DEF globals
<1>8. LoopIsSetUp'
  BY <1>1, <1>4 DEF HarnessInv, LoopIsSetUp, globals, cur, SetsUp, Signature
<1>9. OneTableAllocated'
  BY <1>1, <1>3 DEF HarnessInv, OneTableAllocated, globals, NoTable
<1> QED
  BY <1>2, <1>6, <1>7, <1>8, <1>9 DEF HarnessInv, CacheOK

-----------------------------------------------------------------------------
(* The theorems.                                                           *)

LEMMA InitHarness ==
  ASSUME Init
  PROVE  HarnessInv
<1>1. DOMAIN datasets = {} /\ datasets = << >> /\ pc = "call" /\ at = 1 /\ calls = 1
  BY DEF Init, InitCache
<1>2. TypeOK
  BY <1>1, HarnessAssumption, DatasetAssumption DEF Init, InitCache, TypeOK
<1> QED
  BY <1>1, <1>2 DEF Init, HarnessInv, NoSentinelInData, CacheInv, OneTableAllocated,
                    GlobalsInv, LoopIsSetUp

\* Every state of the benchmark program satisfies the invariant of its globals,
\* in whatever order its instances are registered: an instance with the
\* signature of an earlier one asks for the same probability of success, and
\* when others are between the two, one of them has a data set.
THEOREM HarnessInductive ==
  ASSUME OneProbability, GeneratedBetween
  PROVE  Spec => []HarnessInv
<1>1. Init => HarnessInv
  BY InitHarness
<1>2. HarnessInv /\ [Next]_vars => HarnessInv'
  <2> SUFFICES ASSUME HarnessInv, [Next]_vars PROVE HarnessInv'
    OBVIOUS
  <2>1. CASE Reuse
    BY <2>1, ReuseStep
  <2>2. CASE SetupFails
    BY <2>2, SetupFailsStep
  <2>3. CASE Build
    BY <2>3, BuildStep
  <2>4. CASE BuildThrows
    BY <2>4, BuildThrowsStep
  <2>5. CASE TooFewKeys \/ Construction \/ Iterate \/ Leave
    BY <2>5, OtherStep
  <2>6. CASE UNCHANGED vars
    <3>1. UNCHANGED <<disk, raw, datasets, previous_signature, probing_set, prev_table,
                      free_lambda, live, at, calls, pc, i, left>>
      BY <2>6 DEF vars, cache, globals
    <3>2. TypeOK'
      BY <3>1 DEF HarnessInv, TypeOK
    <3>3. NoSentinelInData' /\ CacheInv'
      BY <3>1 DEF HarnessInv, NoSentinelInData, CacheInv
    <3>4. OneTableAllocated'
      BY <3>1 DEF HarnessInv, OneTableAllocated, NoTable
    <3>5. GlobalsInv'
      BY <3>1 DEF HarnessInv, GlobalsInv, LeftBy, SetsUp, SameSetup, Signature, NoTable, cur
    <3>6. LoopIsSetUp'
      BY <3>1 DEF HarnessInv, LoopIsSetUp, SetsUp, SameSetup, Signature, cur
    <3> QED  BY <3>2, <3>3, <3>4, <3>5, <3>6 DEF HarnessInv
  <2> QED  BY <2>1, <2>2, <2>3, <2>4, <2>5, <2>6 DEF Next
<1> QED
  BY <1>1, <1>2, PTL DEF Spec

\* What a call finds in the globals is what its label names: a table of its
\* type over its data set, probes from the same keys, and one table allocated.
THEOREM SetupCorrect ==
  ASSUME OneProbability, GeneratedBetween
  PROVE  Spec => []SetupMatchesCall
<1>1. HarnessInv => SetupMatchesCall
  <2> SUFFICES ASSUME HarnessInv PROVE SetupMatchesCall
    OBVIOUS
  <2>1. ASSUME pc = "loop"
        PROVE  /\ Len(probing_set) > 0 /\ prev_table # NoTable
               /\ prev_table = [type |-> cur.table, keys |-> datasets[<<cur.did, dataset_size>>]]
               /\ previous_signature = Signature(cur)
               /\ cur.prob = 100 => \A n \in DOMAIN probing_set : probing_set[n] \in prev_table.keys
    <3>1. SetsUp(at) /\ previous_signature = Signature(cur) /\ Len(probing_set) > 0
      BY <2>1 DEF HarnessInv, LoopIsSetUp
    <3>2. at \in DOMAIN Plan /\ cur.table # Null /\ Signature(cur) # Null
      BY PlanType DEF HarnessInv, TypeOK
    <3>3. PICK m \in 1 .. at : LeftBy(m)
      BY <2>1, <3>1, <3>2 DEF HarnessInv, GlobalsInv
    <3>4. m \in DOMAIN Plan
      BY <3>2, HarnessAssumption
    <3>5. SetsUp(m) /\ SameSetup(m, at)
      BY <3>1, <3>3 DEF LeftBy, SameSetup, cur
    <3>6. Plan[m].table = cur.table /\ Plan[m].did = cur.did
      BY <3>5 DEF SameSetup, Signature, cur
    <3>7. Plan[m].prob = cur.prob
      BY <3>1, <3>2, <3>4, <3>5 DEF OneProbability, cur
    <3>8. prev_table = [type |-> cur.table, keys |-> datasets[<<cur.did, dataset_size>>]]
      BY <3>3, <3>6 DEF LeftBy
    <3>9. prev_table # NoTable
      BY <3>2, <3>8 DEF NoTable
    <3>10. cur.prob = 100 => \A n \in DOMAIN probing_set : probing_set[n] \in prev_table.keys
      BY <3>3, <3>7 DEF LeftBy
    <3> QED  BY <3>1, <3>8, <3>9, <3>10
  <2>2. TableMatchesCall
    BY <2>1 DEF TableMatchesCall
  <2>3. ProbesSucceed
    BY <2>1 DEF ProbesSucceed
  <2>4. CachedSetupIsComplete
    BY <2>1 DEF CachedSetupIsComplete
  <2> QED  BY <2>2, <2>3, <2>4 DEF HarnessInv, SetupMatchesCall
<1> QED
  BY <1>1, HarnessInductive, PTL

-----------------------------------------------------------------------------
(* The cache alone, for every plan.                                        *)

CacheSafe == CacheOK /\ at \in DOMAIN Plan /\ calls \in 1 .. MaxCalls

LEMMA CacheStep ==
  ASSUME CacheSafe, [Next]_vars
  PROVE  CacheSafe' /\ Stable
<1>1. at \in DOMAIN Plan /\ cur.did \in Id
  BY PlanType DEF CacheSafe
<1>2. LoadCached(cur.did, dataset_size) \/ UNCHANGED cache
  BY DEF Next, Reuse, NewSetup, SetupFails, Build, BuildThrows, TooFewKeys, Construction,
         Iterate, Leave, vars
<1>3. Returns \/ UNCHANGED <<at, calls>>
  BY DEF Next, Reuse, StartLoop, SetupFails, EarlyReturn, Build, BuildThrows, TooFewKeys,
         Construction, Iterate, Leave, vars
<1>4. at' \in DOMAIN Plan /\ calls' \in 1 .. MaxCalls
  BY <1>3, ReturnsType DEF CacheSafe
<1>5. CacheOK' /\ Stable
  <2>1. CASE LoadCached(cur.did, dataset_size)
    <3>1. PICK id : id = cur.did
      OBVIOUS
    <3>2. id \in Id /\ LoadCached(id, dataset_size)
      BY <1>1, <2>1, <3>1
    <3> QED  BY <3>2, LoadEffect DEF CacheSafe
  <2>2. CASE UNCHANGED cache
    BY <2>2 DEF cache, CacheSafe, CacheOK, CacheInv, NoSentinelInData, Stable
  <2> QED  BY <1>2, <2>1, <2>2
<1> QED
  BY <1>4, <1>5 DEF CacheSafe

\* A data set that is in the cache stays there as it is, whatever the plan:
\* every table is measured on the same keys.
THEOREM DatasetsCorrect == Spec => DatasetsAreStable
<1>1. Init => CacheSafe
  BY InitHarness DEF HarnessInv, TypeOK, CacheSafe, CacheOK
<1>2. CacheSafe /\ [Next]_vars => CacheSafe'
  BY CacheStep
<1>3. CacheSafe /\ [Next]_vars
        => [\A d \in DOMAIN datasets : d \in DOMAIN datasets' /\ datasets'[d] = datasets[d]]_vars
  BY CacheStep DEF Stable
<1> QED
  BY <1>1, <1>2, <1>3, PTL DEF Spec, DatasetsAreStable
=============================================================================
