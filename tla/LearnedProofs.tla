---------------------------- MODULE LearnedProofs ---------------------------
(***************************************************************************)
(* Proofs about LearnedSort: the bookkeeping of the registers, the space   *)
(* of the partitions, the merge of the repeated keys, and the distribution *)
(* as an implementation of BoundedBuckets.                                 *)
(***************************************************************************)
EXTENDS LearnedSort, FiniteSetTheorems, FunctionTheorems, SequenceTheorems, TLAPS

-----------------------------------------------------------------------------
(* Counting.                                                               *)

\* A bijection keeps the sizes of subsets.
LEMMA BijectionCount ==
  ASSUME NEW A, NEW B, NEW f \in Bijection(A, B), IsFiniteSet(A),
         NEW J, \A b \in J : b \in B,
         NEW K, \A a \in K : a \in A, \A a \in A : a \in K <=> f[a] \in J
  PROVE  /\ IsFiniteSet(J) /\ Cardinality(J) \in Nat /\ Cardinality(K) = Cardinality(J)
<1> DEFINE h == [a \in K |-> f[a]]
<1>1. h \in Bijection(K, J)
  <2>1. f \in [A -> B] /\ (\A a, b \in A : f[a] = f[b] => a = b) /\ \A b \in B : \E a \in A : f[a] = b
    BY DEF Bijection, Injection, Surjection, IsInjective
  <2>2. h \in [K -> J]
    OBVIOUS
  <2>3. \A a, b \in K : h[a] = h[b] => a = b
    BY <2>1
  <2>4. \A b \in J : \E a \in K : h[a] = b
    BY <2>1
  <2> HIDE DEF h
  <2> QED  BY <2>2, <2>3, <2>4 DEF Bijection, Injection, Surjection, IsInjective
<1>2. IsFiniteSet(K)
  <2>1. K \in SUBSET A
    OBVIOUS
  <2> QED  BY <2>1, FS_Subset
<1>3. ExistsBijection(K, J)
  BY <1>1 DEF ExistsBijection
<1>4. IsFiniteSet(J) /\ Cardinality(J) = Cardinality(K)
  BY <1>2, <1>3, FS_Bijection
<1> QED
  BY <1>4, FS_CardinalityType

\* Its rank numbers the elements of a finite set of integers.
LEMMA Ranks ==
  ASSUME NEW I, \A i \in I : i \in Int, IsFiniteSet(I)
  PROVE  /\ Cardinality(I) \in Nat
         /\ [i \in I |-> Cardinality({j \in I : j <= i})] \in Bijection(I, 1 .. Cardinality(I))
<1> DEFINE Upto(i) == {j \in I : j <= i}
           r == [i \in I |-> Cardinality(Upto(i))]
           n == Cardinality(I)
<1>1. n \in Nat
  BY FS_CardinalityType
<1>2. ASSUME NEW i \in I
      PROVE  /\ IsFiniteSet(Upto(i)) /\ Cardinality(Upto(i)) \in 1 .. n /\ i \in Upto(i)
  <2>1. IsFiniteSet(Upto(i)) /\ Cardinality(Upto(i)) <= n
    <3>1. Upto(i) \in SUBSET I
      OBVIOUS
    <3> QED  BY <3>1, FS_Subset
  <2>2. i \in Upto(i)
    OBVIOUS
  <2>3. Cardinality(Upto(i)) \in Nat /\ Cardinality(Upto(i)) # 0
    <3> HIDE DEF Upto
    <3> QED  BY <2>1, <2>2, FS_CardinalityType, FS_EmptySet
  <2> HIDE DEF Upto, n
  <2> QED  BY <1>1, <2>1, <2>2, <2>3
<1>3. ASSUME NEW i \in I, NEW j \in I, i < j PROVE Cardinality(Upto(i)) # Cardinality(Upto(j))
  <2>1. Upto(i) \in SUBSET Upto(j) /\ j \notin Upto(i)
    <3>1. i \in Int /\ j \in Int /\ \A x \in I : x \in Int
      OBVIOUS
    <3>2. \A x \in I : x <= i => x <= j
      BY <1>3, <3>1
    <3>3. ~(j <= i)
      BY <1>3, <3>1
    <3>4. j \notin Upto(i)
      BY <3>3
    <3>5. \A x \in Upto(i) : x \in Upto(j)
      BY <3>2
    <3> HIDE DEF Upto
    <3> QED  BY <3>4, <3>5
  <2>2. IsFiniteSet(Upto(j)) /\ j \in Upto(j)
    BY <1>2
  <2> HIDE DEF Upto
  <2> QED  BY <2>1, <2>2, FS_Subset
<1>4. \A i, j \in I : r[i] = r[j] => i = j
  <2> SUFFICES ASSUME NEW i \in I, NEW j \in I, r[i] = r[j] PROVE i = j
    OBVIOUS
  <2>1. ~(i < j) /\ ~(j < i)
    BY <1>3
  <2> QED  BY <2>1
<1>5. r \in Injection(I, 1 .. n)
  <2>1. r \in [I -> 1 .. n]
    <3> HIDE DEF Upto, n
    <3> QED  BY <1>2
  <2> HIDE DEF r
  <2> QED  BY <1>4, <2>1 DEF Injection, IsInjective
<1>6. IsFiniteSet(1 .. n) /\ Cardinality(1 .. n) = n
  BY <1>1, FS_Interval
<1>7. r \in Surjection(I, 1 .. n)
  <2> HIDE DEF r
  <2> QED  BY <1>5, <1>6, FS_Injection
<1> QED
  <2> HIDE DEF r
  <2>1. r \in Bijection(I, 1 .. n)
    BY <1>5, <1>7 DEF Bijection
  <2> QED  BY <1>1, <2>1 DEF r

LEMMA DisjointCount ==
  ASSUME NEW A, NEW B, IsFiniteSet(A), IsFiniteSet(B), \A a \in A : a \notin B
  PROVE  /\ IsFiniteSet(A \cup B) /\ Cardinality(A) \in Nat /\ Cardinality(B) \in Nat
         /\ Cardinality(A \cup B) = Cardinality(A) + Cardinality(B)
<1>1. A \cap B = {}
  OBVIOUS
<1>2. Cardinality(A \cap B) = 0
  BY <1>1, FS_EmptySet
<1>3. Cardinality(A) \in Nat /\ Cardinality(B) \in Nat
  BY FS_CardinalityType
<1>4. /\ IsFiniteSet(A \cup B)
      /\ Cardinality(A \cup B) = Cardinality(A) + Cardinality(B) - Cardinality(A \cap B)
  BY FS_Union
<1> QED  BY <1>2, <1>3, <1>4

\* A shift keeps the size.
LEMMA ShiftCount ==
  ASSUME NEW a \in Int, NEW A, IsFiniteSet(A), \A i \in A : i \in Int, NEW B,
         \A i \in Int : i \in B <=> i - a \in A, \A i \in B : i \in Int
  PROVE  IsFiniteSet(B) /\ Cardinality(B) = Cardinality(A) /\ Cardinality(A) \in Nat
<1> DEFINE f == [i \in A |-> i + a]
<1>1. f \in Bijection(A, B)
  <2>1. \A i \in A : i + a \in B
    <3> SUFFICES ASSUME NEW i \in A PROVE i + a \in B
      OBVIOUS
    <3>1. i \in Int /\ i + a \in Int /\ (i + a) - a = i
      OBVIOUS
    <3> QED  BY <3>1
  <2>2. \A i, j \in A : f[i] = f[j] => i = j
    OBVIOUS
  <2>3. \A j \in B : \E i \in A : f[i] = j
    <3> SUFFICES ASSUME NEW j \in B PROVE \E i \in A : f[i] = j
      OBVIOUS
    <3>1. j \in Int /\ j - a \in A /\ (j - a) + a = j
      OBVIOUS
    <3> QED  BY <3>1
  <2>4. f \in [A -> B]
    BY <2>1
  <2> HIDE DEF f
  <2> QED  BY <2>2, <2>3, <2>4 DEF Bijection, Injection, Surjection, IsInjective
<1>2. ExistsBijection(A, B)
  BY <1>1 DEF ExistsBijection
<1> QED  BY <1>2, FS_Bijection, FS_CardinalityType

\* Pick takes each element of I once.
LEMMA PickFacts ==
  ASSUME NEW s, NEW I, \A i \in I : i \in Int, IsFiniteSet(I)
  PROVE  /\ Cardinality(I) \in Nat /\ DOMAIN Pick(s, I) = 1 .. Cardinality(I)
         /\ \E g \in Bijection(1 .. Cardinality(I), I) :
              \A m \in 1 .. Cardinality(I) : Pick(s, I)[m] = s[g[m]]
<1> DEFINE n == Cardinality(I)
           At(m) == CHOOSE i \in I : Cardinality({j \in I : j <= i}) = m
           g == [m \in 1 .. n |-> At(m)]
<1>1. PICK r \in Bijection(I, 1 .. n) : r = [i \in I |-> Cardinality({j \in I : j <= i})]
  BY Ranks
<1>2. r \in [I -> 1 .. n] /\ (\A a, b \in I : r[a] = r[b] => a = b) /\ \A m \in 1 .. n : \E a \in I : r[a] = m
  BY <1>1 DEF Bijection, Injection, Surjection, IsInjective
<1>3. ASSUME NEW m \in 1 .. n PROVE At(m) \in I /\ r[At(m)] = m
  <2>1. \E i \in I : Cardinality({j \in I : j <= i}) = m
    BY <1>1, <1>2
  <2>2. At(m) \in I /\ Cardinality({j \in I : j <= At(m)}) = m
    BY <2>1
  <2> QED  BY <1>1, <2>2
<1>4. g \in [1 .. n -> I]
  BY <1>3
<1>5. \A l, m \in 1 .. n : g[l] = g[m] => l = m
  <2>1. \A m \in 1 .. n : g[m] = At(m)
    OBVIOUS
  <2> HIDE DEF At, g
  <2> QED  BY <1>3, <2>1
<1>6. ASSUME NEW i \in I PROVE \E m \in 1 .. n : g[m] = i
  <2>1. r[i] \in 1 .. n
    BY <1>2
  <2>2. At(r[i]) \in I /\ r[At(r[i])] = r[i]
    BY <1>3, <2>1
  <2>3. At(r[i]) = i
    <3> HIDE DEF At
    <3> QED  BY <1>2, <2>2
  <2> QED  BY <2>1, <2>3
<1>7. g \in Bijection(1 .. n, I)
  <2> HIDE DEF g
  <2> QED  BY <1>4, <1>5, <1>6 DEF Bijection, Injection, Surjection, IsInjective
<1>8. Pick(s, I) = [m \in 1 .. n |-> s[At(m)]]
  BY DEF Pick
<1>9. \A m \in 1 .. n : Pick(s, I)[m] = s[g[m]]
  BY <1>8
<1>10. n \in Nat /\ DOMAIN Pick(s, I) = 1 .. n
  BY <1>8, FS_CardinalityType
<1> QED
  <2> HIDE DEF g
  <2> QED  BY <1>7, <1>9, <1>10
-----------------------------------------------------------------------------
(* The invariants.                                                         *)

JobInv ==
  /\ job \in Jobs
  /\ hp \in [batch : Nat, fanout : Nat, sampling_rate : Nat, threshold : Nat, arch : Nat]
  /\ bucket \in Majors
  /\ pc \in {"validate", "train", "histogram", "partition", "open", "distribute",
             "sort", "spill", "repeated", "done"}

BeforeHistogram == pc \in {"validate", "train"}
BeforePartition == BeforeHistogram \/ pc = "histogram"
BeforeSort == BeforePartition \/ pc = "partition"

\* The histogram of a thread is that of its keys; its partition is no longer
\* but for the keys that are read beyond the part.
HistOf(t) == [i \in Majors |-> Len(Into(KeysOf(t), i))]
PartInv(part, t) ==
  \A i \in Majors :
    /\ part.bckt[i] \in Seq(AllKeys)
    /\ part.rep[i] \in Seq(AllKeys) /\ part.counts[i] \in Seq(Nat)
    /\ Len(part.counts[i]) = Len(part.rep[i])
    /\ Len(part.bckt[i]) <= Len(Into(KeysOf(t), i)) + Len(Into(KeysBeyond(t), i))

PartsInv ==
  /\ DOMAIN hist = Threads /\ DOMAIN parts = Threads
  /\ \A t \in Threads :
       /\ hist[t] # << >> => ~BeforeHistogram /\ hist[t] = HistOf(t)
       /\ hist[t] = << >> => BeforePartition
       /\ parts[t] # << >> => ~BeforePartition /\ PartInv(parts[t], t)
       /\ parts[t] = << >> => BeforeSort

\* What is sorted is a bucket of the relation's keys, of each thread.
SourceInv ==
  pc \in {"distribute", "sort", "spill"} =>
    source \in [Threads -> Seq(AllKeys)] /\ p \in Threads

\* A lane holds a key with its leaf, or with its bucket.
Home(x) == MinorOf(LeafOf(model, x), x)
Leafed == {[key |-> x, idx |-> LeafOf(model, x)] : x \in AllKeys}
Routed == {[key |-> x, idx |-> Home(x)] : x \in AllKeys}
Lane == {NoKey} \cup Leafed \cup Routed

GoodRegister(reg) ==
  /\ reg \in [stage : 0 .. 3, lanes : [1 .. Lanes -> Lane]]
  /\ reg.stage = 0 => reg.lanes \in [1 .. Lanes -> {NoKey} \cup Leafed]
  /\ reg.stage = 2 => reg.lanes \in [1 .. Lanes -> {NoKey} \cup Routed]
  /\ reg.stage \in {1, 3} <=> Held(reg.lanes) = {}

GoodResidue(reg) ==
  /\ reg \in [stage : 0 .. 3, lanes : [1 .. Lanes -> {NoKey} \cup Routed]]
  /\ Held(reg.lanes) = 1 .. Cardinality(Held(reg.lanes))
  /\ Cardinality(Held(reg.lanes)) < Lanes

\* The registers' keys are in the stage they should be, the residue is packed
\* and never full, and the finished registers are counted.
Registers == 0 .. SIMDStateSize - 1
RegistersInv ==
  Distributing =>
    /\ DOMAIN state = 0 .. SIMDStateSize
    /\ \A r \in Registers : GoodRegister(state[r])
    /\ GoodResidue(state[Residue])
    /\ done = Cardinality({r \in Registers : state[r].stage = 3})
    /\ cur \in Nat /\ k \in Registers
    /\ ~job.imv => \A r \in 0 .. SIMDStateSize : Held(state[r].lanes) = {}

\* The buckets hold their own keys and are not overfull.
Buckets == 0 .. job.minors - 1
GoodBuckets ==
  /\ minor \in [Buckets -> Seq(AllKeys)] /\ spill \in Seq(AllKeys)
  /\ \A b \in Buckets : /\ Len(minor[b]) <= hp.threshold
                        /\ \A n \in 1 .. Len(minor[b]) : Home(minor[b][n]) = b
BucketsInv == Distributing => GoodBuckets

\* The write index of the merge is behind the read index by the repeated keys
\* still to be written.
Units(counts, n) == UNION {{e} \X (1 .. counts[e]) : e \in 1 .. n - 1}
MergeInv ==
  pc = "repeated" /\ job.fn = "sort_avx" =>
    /\ DOMAIN exc = {"total", "input", "limit", "next", "ptr", "vals", "counts"}
    /\ exc.vals = parts[1].rep[bucket] /\ exc.counts = parts[1].counts[bucket]
    /\ exc.next \in 1 .. Len(exc.vals) + 1
    /\ exc.total \in Int /\ exc.input \in Int /\ exc.ptr \in Int
    /\ exc.ptr + exc.total = exc.input + Cardinality(Units(exc.counts, exc.next))

SortInv ==
  JobInv /\ PartsInv /\ SourceInv /\ RegistersInv /\ BucketsInv /\ MergeInv
-----------------------------------------------------------------------------
(* The steps.                                                              *)

LEMMA JobFacts ==
  ASSUME JobInv
  PROVE  /\ job.threads \in Nat /\ job.threads > 0 /\ job.fanout \in Nat /\ job.fanout > 0
         /\ job.minors \in Nat /\ job.minors > 0
         /\ job.imv \in BOOLEAN /\ job.prefetch \in BOOLEAN
         /\ hp.threshold \in Nat /\ hp.batch \in Nat
         /\ Lanes \in Nat /\ Lanes > 0 /\ SIMDStateSize \in Nat /\ SIMDStateSize > 0
         /\ Relation \in Seq(Nat) /\ job.beyond \in Nat
<1>1. job \in [R : Seq(Nat), S : Seq(Nat), two : BOOLEAN, is_R : BOOLEAN, beyond : Nat,
          threads : Nat \ {0}, fn : {"sort_avx", "sort_avx_from_seperate_partitions"},
          fanout : Nat \ {0}, minors : Nat \ {0},
          params : [batch : Nat, fanout : Nat, sampling_rate : Nat, threshold : Nat, arch : Nat],
          imv : BOOLEAN, prefetch : BOOLEAN, avxsort : BOOLEAN, total : {"reported", "counted"}]
  BY LearnedSortAssumption DEF JobInv
<1>2. Lanes \in Nat /\ Lanes > 0 /\ SIMDStateSize \in Nat /\ SIMDStateSize > 0
  BY LearnedDistributeAssumption
<1>3. hp.threshold \in Nat /\ hp.batch \in Nat
  BY DEF JobInv
<1>4. Relation \in Seq(Nat)
  BY <1>1 DEF Relation
<1>5. /\ job.threads \in Nat \ {0} /\ job.fanout \in Nat \ {0} /\ job.minors \in Nat \ {0}
      /\ job.imv \in BOOLEAN /\ job.prefetch \in BOOLEAN /\ job.beyond \in Nat
  BY <1>1
<1> QED  BY <1>2, <1>3, <1>4, <1>5

\* After the partitions, the steps leave what they have read alone.
LateNext ==
  \/ Open \/ DistributeKeys \/ NextPartition \/ AllDistributed \/ SortMinors
  \/ (\E total, vals, counts : MergeSpill(total, vals, counts))
  \/ MergeStep \/ EndBucket

LEMMA NextCases ==
  ASSUME Next
  PROVE  \/ Validate \/ TrainOnOne \/ TrainOnTwo \/ (\E t \in Threads : Histogram(t))
         \/ (\E t \in Threads : Partition(t)) \/ LateNext
<1>1. CASE MergeSpillBucket \/ MergeSpillOfPartitions
  <2>1. \E total, vals, counts : MergeSpill(total, vals, counts)
    BY <1>1 DEF MergeSpillBucket, MergeSpillOfPartitions
  <2> QED  BY <2>1 DEF LateNext
<1>2. CASE MergeRepeated \/ MergeRepeatedOfPartitions
  BY <1>2 DEF MergeRepeated, MergeRepeatedOfPartitions, LateNext
<1>3. CASE SortMinorBuckets \/ SortMinorBucketsOfPartitions
  BY <1>3 DEF SortMinorBuckets, SortMinorBucketsOfPartitions, LateNext
<1>4. CASE partition_major_buckets \/ partition_major_buckets_threaded
  BY <1>4 DEF partition_major_buckets, partition_major_buckets_threaded
<1> QED  BY <1>1, <1>2, <1>3, <1>4 DEF Next, Loops, LateNext

LEMMA LateKeeps ==
  ASSUME LateNext
  PROVE  /\ UNCHANGED <<job, hp, model, sample, hist, parts>>
         /\ pc \in {"open", "distribute", "sort", "spill", "repeated"}
         /\ pc' \in {"open", "distribute", "sort", "spill", "repeated", "done"}
         /\ bucket' = bucket \/ (bucket' = bucket + 1 /\ bucket + 1 < job.fanout /\ pc' = "open")
<1>1. CASE DistributeKeys
  <2>1. pc = "distribute"
    BY <1>1 DEF DistributeKeys, Distribute, OneBucket, Partitions, PlaceBatch, PlaceRest, EndRegister,
       FetchRegister, FetchLastRegister, PredictRegister, PredictSparse, ScatterRegister,
       ScatterAndFill, ScatterResidue, PlacePartitionBatch, PlacePartitionRest,
       EndPartitionRegister, FetchPartition, FetchPartitionLast, PredictPartition,
       PredictPartitionSparse, ScatterPartition, ScatterPartitionAndFill, ScatterPartitionResidue
  <2> QED  BY <1>1, <2>1 DEF DistributeKeys, pipeline
<1>2. CASE Open \/ NextPartition \/ AllDistributed
  BY <1>2 DEF Open, NextPartition, AllDistributed, Partitions, pipeline
<1>3. CASE SortMinors \/ (\E total, vals, counts : MergeSpill(total, vals, counts)) \/ MergeStep
  BY <1>3 DEF SortMinors, MergeSpill, MergeStep, Merging, pipeline
<1>4. CASE EndBucket
  BY <1>4 DEF EndBucket, Merging
<1> QED  BY <1>1, <1>2, <1>3, <1>4 DEF LateNext

LEMMA ParamsTyped ==
  ASSUME NEW q \in [batch : Nat, fanout : Nat, sampling_rate : Nat, threshold : Nat, arch : Nat],
         NEW n
  PROVE  validate_params(q, n) \in
           [batch : Nat, fanout : Nat, sampling_rate : Nat, threshold : Nat, arch : Nat]
  BY LearnedModelAssumption DEF validate_params

LEMMA JobStep ==
  ASSUME JobInv, [Next]_vars
  PROVE  JobInv'
<1>1. CASE Validate
  <2>1. hp' = validate_params(validate_params(hp, Len(job.R)), Len(job.S))
    BY <1>1 DEF Validate
  <2>2. hp' \in [batch : Nat, fanout : Nat, sampling_rate : Nat, threshold : Nat, arch : Nat]
    BY <2>1, ParamsTyped DEF JobInv
  <2> QED  BY <1>1, <2>2 DEF Validate, JobInv, Majors
<1>2. CASE TrainOnOne \/ TrainOnTwo
  BY <1>2 DEF TrainOnOne, TrainOnTwo, JobInv, Majors
<1>3. CASE (\E t \in Threads : Histogram(t)) \/ (\E t \in Threads : Partition(t))
  BY <1>3 DEF Histogram, Partition, JobInv, Majors
<1>4. CASE LateNext
  <2>1. job.fanout \in Nat /\ bucket \in 0 .. job.fanout - 1
    BY JobFacts DEF JobInv, Majors
  <2>2. bucket' \in 0 .. job.fanout - 1
    BY <1>4, <2>1, LateKeeps
  <2> QED  BY <1>4, <2>2, LateKeeps DEF JobInv, Majors
<1>5. CASE UNCHANGED vars
  BY <1>5 DEF vars, JobInv, Majors
<1> QED  BY <1>1, <1>2, <1>3, <1>4, <1>5, NextCases
-----------------------------------------------------------------------------
(* The partitions.                                                         *)

LEMMA PickSeq ==
  ASSUME NEW X, NEW s, NEW I, \A i \in I : i \in Int, IsFiniteSet(I), \A i \in I : s[i] \in X
  PROVE  /\ Pick(s, I) \in Seq(X) /\ Len(Pick(s, I)) = Cardinality(I)
         /\ Cardinality(I) \in Nat
<1> DEFINE n == Cardinality(I)
<1>1. PICK g \in Bijection(1 .. n, I) : \A m \in 1 .. n : Pick(s, I)[m] = s[g[m]]
  BY PickFacts, SMTT(60)
<1>2. g \in [1 .. n -> I]
  BY <1>1 DEF Bijection, Injection
<1>3. n \in Nat /\ DOMAIN Pick(s, I) = 1 .. n
  BY PickFacts
<1>4. \A m \in 1 .. n : Pick(s, I)[m] \in X
  BY <1>1, <1>2
<1>5. Pick(s, I) = [m \in 1 .. n |-> Pick(s, I)[m]]
  BY DEF Pick
<1> HIDE DEF n
<1>6. Pick(s, I) \in [1 .. n -> X]
  BY <1>4, <1>5
<1>7. Pick(s, I) \in Seq(X)
  BY <1>3, <1>6
<1> QED  BY <1>3, <1>7 DEF n

\* A place picked from a sequence.
LEMMA PickPlaces ==
  ASSUME NEW X, NEW s \in Seq(X), NEW I, \A i \in I : i \in DOMAIN s
  PROVE  /\ Pick(s, I) \in Seq(X) /\ Len(Pick(s, I)) = Cardinality(I)
         /\ Cardinality(I) \in Nat /\ IsFiniteSet(I)
<1>1. DOMAIN s = 1 .. Len(s) /\ Len(s) \in Nat
  OBVIOUS
<1>2. IsFiniteSet(I) /\ \A i \in I : i \in Int
  <2>1. IsFiniteSet(1 .. Len(s))
    BY <1>1, FS_Interval
  <2>2. I \in SUBSET (1 .. Len(s))
    BY <1>1
  <2>3. IsFiniteSet(I)
    BY <2>1, <2>2, FS_Subset, Zenon
  <2>4. \A i \in I : i \in Int
    BY <1>1
  <2> QED  BY <2>3, <2>4
<1>3. \A i \in I : s[i] \in X
  BY <1>1
<1> QED  BY <1>2, <1>3, PickSeq

LEMMA KeysTyped ==
  ASSUME JobInv
  PROVE  /\ AllKeys \subseteq Nat
         /\ \A i \in Nat : KeyAt(i) \in AllKeys
         /\ \A t \in Threads : /\ PartOf(t).begin \in Nat /\ PartOf(t).n \in Nat
                               /\ KeysOf(t) \in Seq(AllKeys) /\ Len(KeysOf(t)) = PartOf(t).n
<1>1. Relation \in Seq(Nat) /\ job.beyond \in Nat /\ job.threads \in Nat /\ job.threads > 0
  BY JobFacts
<1>2. ToSet(Relation) = {Relation[i] : i \in 1 .. Len(Relation)}
  BY <1>1 DEF ToSet
<1>3. AllKeys \subseteq Nat
  BY <1>1, <1>2 DEF AllKeys
<1>4. ASSUME NEW i \in Nat PROVE KeyAt(i) \in AllKeys
  <2>1. CASE i < Len(Relation)
    <3>1. i + 1 \in 1 .. Len(Relation)
      BY <1>1, <2>1
    <3> QED  BY <1>2, <2>1, <3>1 DEF KeyAt, AllKeys
  <2>2. CASE ~(i < Len(Relation))
    BY <2>2 DEF KeyAt, AllKeys
  <2> QED  BY <2>1, <2>2
<1>5. ASSUME NEW t \in Threads
      PROVE  PartOf(t).begin \in Nat /\ PartOf(t).n \in Nat
  <2>1. PICK n \in Nat : n = Len(Relation)
    BY <1>1
  <2>2. PICK m \in Nat : m = job.threads /\ m > 0
    BY <1>1
  <2>3. t \in Nat /\ t - 1 \in Nat /\ t <= m
    BY <2>2 DEF Threads
  <2>4. PICK l \in Nat : l = n \div m
    BY <2>1, <2>2
  <2>5. m * l <= n
    BY <2>2, <2>4
  <2>6. (t - 1) * l \in Nat /\ (t - 1) * l <= n
    <3>1. (t - 1) * l \in Nat
      BY <2>3
    <3>2. (t - 1) * l <= m * l
      BY <2>2, <2>3, Z3
    <3> QED  BY <2>5, <3>1, <3>2
  <2>7. PartOf(t) = [begin |-> (t - 1) * l, n |-> IF t = m THEN n - (t - 1) * l ELSE l]
    BY <2>1, <2>2, <2>4 DEF PartOf, PartLen
  <2> QED  BY <2>4, <2>6, <2>7
<1>6. ASSUME NEW t \in Threads
      PROVE  KeysOf(t) \in Seq(AllKeys) /\ Len(KeysOf(t)) = PartOf(t).n
  <2>1. \A i \in 1 .. PartOf(t).n : PartOf(t).begin + i - 1 \in Nat
    BY <1>5
  <2>2. \A i \in 1 .. PartOf(t).n : KeyAt(PartOf(t).begin + i - 1) \in AllKeys
    BY <1>4, <2>1
  <2>3. KeysOf(t) \in [1 .. PartOf(t).n -> AllKeys]
    BY <2>2 DEF KeysOf
  <2> QED  BY <1>5, <2>3
<1> QED  BY <1>3, <1>4, <1>5, <1>6

LEMMA IntoFacts ==
  ASSUME NEW X, NEW keys \in Seq(X), NEW i
  PROVE  /\ Into(keys, i) \in Seq(X)
         /\ Len(Into(keys, i)) = Cardinality({n \in DOMAIN keys : MajorOf(keys[n]) = i})
  BY PickPlaces DEF Into

LEMMA RepeatedTyped ==
  ASSUME JobInv
  PROVE  RepeatedKeys \in Seq(AllKeys)
<1> DEFINE repeated ==
             {key \in ToSet(Relation) :
                Cardinality({i \in DOMAIN sample : sample[i] = key}) > EXC_CNT_THRESHOLD}
           of == [i \in 1 .. Len(Relation) |-> Relation[i]]
<1>1. Relation \in Seq(Nat)
  BY JobFacts
<1>2. ToSet(Relation) = {Relation[i] : i \in 1 .. Len(Relation)}
  BY <1>1 DEF ToSet
<1>3. IsFiniteSet(ToSet(Relation))
  <2>1. of \in Surjection(1 .. Len(Relation), ToSet(Relation))
    BY <1>2 DEF Surjection
  <2>2. IsFiniteSet(1 .. Len(Relation))
    BY <1>1, FS_Interval
  <2> HIDE DEF of
  <2> QED  BY <2>1, <2>2, FS_Surjection
<1>4. repeated \subseteq ToSet(Relation) /\ IsFiniteSet(repeated)
  <2>1. repeated \in SUBSET ToSet(Relation)
    OBVIOUS
  <2> HIDE DEF repeated
  <2> QED  BY <1>3, <2>1, FS_Subset
<1>5. (\A x \in repeated : x \in Int) /\ \A x \in repeated : [key \in repeated |-> key][x] \in AllKeys
  BY <1>1, <1>2, <1>4 DEF AllKeys
<1>6. RepeatedKeys = Pick([key \in repeated |-> key], repeated)
  BY DEF RepeatedKeys
<1> HIDE DEF repeated
<1> QED  BY <1>4, <1>5, <1>6, PickSeq
LEMMA Steady ==
  ASSUME job' = job, model' = model, sample' = sample
  PROVE  /\ AllKeys' = AllKeys /\ RepeatedKeys' = RepeatedKeys
         /\ Threads' = Threads /\ Majors' = Majors
<1>1. AllKeys' = AllKeys /\ RepeatedKeys' = RepeatedKeys
  BY DEF AllKeys, RepeatedKeys, Relation
<1> QED  BY <1>1 DEF Threads, Majors

LEMMA SteadyHist ==
  ASSUME job' = job, model' = model, NEW CONSTANT t
  PROVE  /\ HistOf(t)' = HistOf(t)
         /\ \A i \in Majors : Len(Into(KeysOf(t), i))' = Len(Into(KeysOf(t), i))
  BY DEF HistOf, Into, MajorOf, KeysOf, KeyAt, PartOf, PartLen, Relation, Threads, Majors

LEMMA SteadyPart ==
  ASSUME job' = job, model' = model, sample' = sample, NEW CONSTANT t, NEW CONSTANT part,
         PartInv(part, t)
  PROVE  PartInv(part, t)'
<1>1. AllKeys' = AllKeys /\ Majors' = Majors /\ RepeatedKeys' = RepeatedKeys
  BY Steady
<1>2. /\ \A i \in Majors : Len(Into(KeysOf(t), i))' = Len(Into(KeysOf(t), i))
      /\ \A i \in Majors : Len(Into(KeysBeyond(t), i))' = Len(Into(KeysBeyond(t), i))
  <2>1. KeysBeyond(t)' = KeysBeyond(t)
    BY <1>1 DEF KeysBeyond, ReadBeyond, KeyAt, PartOf, PartLen, Relation, Threads
  <2>2. \A i \in Majors : Into(KeysBeyond(t), i)' = Into(KeysBeyond(t), i)
    BY <2>1 DEF Into, MajorOf
  <2> QED  BY <2>2, SteadyHist
<1> QED  BY <1>1, <1>2 DEF PartInv

\* The batches are those that the keys need: the last one is completed.
LEMMA BatchesRead ==
  ASSUME NEW n \in Nat
  PROVE  /\ Batches(n) * BATCH_SZ_EXP
              = n + ((BATCH_SZ_EXP - (n % BATCH_SZ_EXP)) % BATCH_SZ_EXP)
         /\ (BATCH_SZ_EXP - (n % BATCH_SZ_EXP)) % BATCH_SZ_EXP \in Nat
<1>1. PICK b \in Nat : b = BATCH_SZ_EXP /\ b > 0
  BY LearnedSortAssumption
<1>2. PICK q \in Nat, m \in 0 .. b - 1 : n = b * q + m /\ n % b = m
  <2>1. PICK q \in Nat, m \in Nat : q = n \div b /\ m = n % b
    BY <1>1
  <2>2. n = b * q + m /\ m < b
    BY <1>1, <2>1
  <2> QED  BY <1>1, <2>1, <2>2
<1>3. PICK r \in Nat : r = (n + b - 1) \div b
  BY <1>1
<1>4. b * r <= n + b - 1 /\ n + b - 1 < b * r + b
  BY <1>1, <1>3
<1>5. b * r < b * q + m + b /\ b * q + m < b * r + 1
  BY <1>1, <1>2, <1>4
<1>6. b * (q + 1) = b * q + b /\ b * (q + 2) = b * q + b + b
  BY <1>1
<1>7. ASSUME NEW j \in Nat, r >= j PROVE b * r >= b * j
  BY <1>1, <1>7, Z3
<1>8. ASSUME NEW j \in Nat, j >= r PROVE b * j >= b * r
  BY <1>1, <1>8, Z3
<1>11. Batches(n) = r
  BY <1>1, <1>3 DEF Batches
<1>9. CASE m = 0
  <2>1. ~(r >= q + 1) /\ ~(q >= r + 1)
    <3>1. ~(r >= q + 1)
      <4>1. r >= q + 1 => b * r >= b * (q + 1)
        BY <1>7
      <4>2. PICK x \in Int, y \in Int : x = b * r /\ y = b * q
        BY <1>1
      <4> QED  BY <1>1, <1>5, <1>6, <1>9, <4>1, <4>2
    <3>2. ~(q >= r + 1)
      <4>1. b * (r + 1) = b * r + b
        BY <1>1
      <4>2. q >= r + 1 => b * q >= b * (r + 1)
        BY <1>1, Z3
      <4>3. PICK x \in Int, y \in Int : x = b * r /\ y = b * q
        BY <1>1
      <4> QED  BY <1>1, <1>5, <1>9, <4>1, <4>2, <4>3
    <3> QED  BY <3>1, <3>2
  <2>2. r = q
    BY <2>1
  <2>3. (b - m) % b = 0
    BY <1>1, <1>9
  <2>4. r * b = b * q
    BY <1>1, <2>2
  <2>5. r * b = n + 0
    BY <1>2, <1>9, <2>4
  <2> QED  BY <1>1, <1>2, <1>11, <2>3, <2>5
<1>10. CASE m > 0
  <2>1. ~(r >= q + 2) /\ ~(q >= r)
    <3>1. PICK x \in Int, y \in Int : x = b * r /\ y = b * q
      BY <1>1
    <3>2. r >= q + 2 => b * r >= b * (q + 2)
      BY <1>7
    <3>3. ~(r >= q + 2)
      BY <1>1, <1>2, <1>5, <1>6, <3>1, <3>2
    <3>4. q >= r => b * q >= b * r
      BY <1>8
    <3>5. ~(q >= r)
      BY <1>1, <1>2, <1>5, <1>10, <3>1, <3>4
    <3> QED  BY <3>3, <3>5
  <2>2. r = q + 1
    BY <2>1
  <2>3. (b - m) % b = b - m
    BY <1>1, <1>2, <1>10
  <2>4. r * b = n + (b - m)
    <3>1. PICK y \in Int : y = b * q
      BY <1>1
    <3>2. r * b = b * (q + 1)
      BY <2>2
    <3> QED  BY <1>1, <1>2, <1>6, <3>1, <3>2
  <2> QED  BY <1>1, <1>2, <1>11, <2>3, <2>4
<1> QED  BY <1>2, <1>9, <1>10

\* A bucket's keys of two runs are its keys of each.
LEMMA IntoConcat ==
  ASSUME NEW X, NEW s \in Seq(X), NEW t \in Seq(X), NEW i
  PROVE  Len(Into(s \o t, i)) = Len(Into(s, i)) + Len(Into(t, i))
<1> DEFINE A == {n \in DOMAIN s : MajorOf(s[n]) = i}
           B == {n \in DOMAIN t : MajorOf(t[n]) = i}
           C == {n \in DOMAIN (s \o t) : n > Len(s) /\ MajorOf((s \o t)[n]) = i}
           D == {n \in DOMAIN (s \o t) : MajorOf((s \o t)[n]) = i}
<1>1. /\ DOMAIN s = 1 .. Len(s) /\ DOMAIN t = 1 .. Len(t) /\ DOMAIN (s \o t) = 1 .. Len(s) + Len(t)
      /\ Len(s) \in Nat /\ Len(t) \in Nat /\ s \o t \in Seq(X)
      /\ \A n \in 1 .. Len(s) + Len(t) : (s \o t)[n] = IF n <= Len(s) THEN s[n] ELSE t[n - Len(s)]
  OBVIOUS
<1>2. D = A \cup C /\ \A a \in A : a \notin C
  BY <1>1
<1>3. /\ \A j \in Int : j \in C <=> j - Len(s) \in B
      /\ \A j \in B : j \in Int
      /\ \A j \in C : j \in Int
  BY <1>1
<1>4. \A n \in A : n \in DOMAIN s
  OBVIOUS
<1>5. \A n \in B : n \in DOMAIN t
  OBVIOUS
<1>6. Len(Into(s, i)) = Cardinality(A) /\ Len(Into(t, i)) = Cardinality(B)
      /\ Len(Into(s \o t, i)) = Cardinality(D)
  <2>1. Len(Into(s, i)) = Cardinality(A)
    BY IntoFacts
  <2>2. Len(Into(t, i)) = Cardinality(B)
    BY IntoFacts
  <2>3. PICK u \in Seq(X) : u = s \o t
    BY <1>1
  <2>4. Len(Into(u, i)) = Cardinality({n \in DOMAIN u : MajorOf(u[n]) = i})
    <3>1. u \in Seq(X)
      BY <2>3
    <3> QED  BY <3>1, IntoFacts
  <2> QED  BY <2>1, <2>2, <2>3, <2>4
<1> HIDE DEF A, B, C, D
<1>7. IsFiniteSet(A) /\ IsFiniteSet(B)
  BY <1>4, <1>5, PickPlaces, Zenon
<1>8. IsFiniteSet(C) /\ Cardinality(C) = Cardinality(B)
  <2>1. Len(s) \in Int
    BY <1>1
  <2> QED  BY <2>1, <1>3, <1>7, ShiftCount, Zenon
<1>9. Cardinality(D) = Cardinality(A) + Cardinality(C)
  BY <1>2, <1>7, <1>8, DisjointCount
<1> QED  BY <1>6, <1>8, <1>9

\* What is read beyond the part.
LEMMA BeyondTyped ==
  ASSUME JobInv
  PROVE  \A t \in Threads :
           /\ ReadBeyond(t) \in Nat
           /\ KeysBeyond(t) \in Seq(AllKeys) /\ Len(KeysBeyond(t)) = ReadBeyond(t)
<1> SUFFICES ASSUME NEW t \in Threads
             PROVE  /\ ReadBeyond(t) \in Nat
                    /\ KeysBeyond(t) \in Seq(AllKeys) /\ Len(KeysBeyond(t)) = ReadBeyond(t)
  OBVIOUS
<1>1. PICK n \in Nat, from \in Nat : n = PartOf(t).n /\ from = PartOf(t).begin
  BY KeysTyped
<1>2. PICK m : m = ReadBeyond(t)
  OBVIOUS
<1>3. m \in Nat
  <2>1. (BATCH_SZ_EXP - (n % BATCH_SZ_EXP)) % BATCH_SZ_EXP \in Nat
    BY BatchesRead
  <2> QED  BY <1>1, <1>2, <2>1 DEF ReadBeyond
<1>4. KeysBeyond(t) = [i \in 1 .. m |-> KeyAt(from + n + i - 1)]
  BY <1>1, <1>2 DEF KeysBeyond
<1>5. KeysBeyond(t) \in [1 .. m -> AllKeys]
  <2>1. \A i \in 1 .. m : from + n + i - 1 \in Nat
    BY <1>1, <1>3
  <2> QED  BY KeysTyped, <1>4, <2>1
<1> QED  BY <1>2, <1>3, <1>5

\* The batches read the part and what lies beyond it.
LEMMA BeyondFacts ==
  ASSUME JobInv, NEW t \in Threads, RepeatedKeys # << >>
  PROVE  [i \in 1 .. Batches(PartOf(t).n) * BATCH_SZ_EXP |-> KeyAt(PartOf(t).begin + i - 1)]
           = KeysOf(t) \o KeysBeyond(t)
<1>1. PartOf(t).begin \in Nat /\ PartOf(t).n \in Nat /\ KeysOf(t) \in Seq(AllKeys)
      /\ Len(KeysOf(t)) = PartOf(t).n
  BY KeysTyped
<1>2. PICK n \in Nat, from \in Nat : n = PartOf(t).n /\ from = PartOf(t).begin
  BY <1>1
<1>3. PICK m \in Nat : m = ReadBeyond(t)
  BY BeyondTyped
<1>4. Batches(n) * BATCH_SZ_EXP = n + m
  <2>1. PICK r : r = (BATCH_SZ_EXP - (n % BATCH_SZ_EXP)) % BATCH_SZ_EXP
    OBVIOUS
  <2>2. Batches(n) * BATCH_SZ_EXP = n + r
    BY <2>1, BatchesRead
  <2>3. m = r
    BY <1>2, <1>3, <2>1 DEF ReadBeyond
  <2> QED  BY <2>2, <2>3
<1>5. KeysBeyond(t) = [i \in 1 .. m |-> KeyAt(from + n + i - 1)]
  BY <1>2, <1>3 DEF KeysBeyond
<1>7. KeysBeyond(t) \in Seq(AllKeys) /\ Len(KeysBeyond(t)) = m
  BY <1>3, BeyondTyped
<1>9. [i \in 1 .. n + m |-> KeyAt(from + i - 1)] = KeysOf(t) \o KeysBeyond(t)
  <2> DEFINE read == [i \in 1 .. n + m |-> KeyAt(from + i - 1)]
             both == KeysOf(t) \o KeysBeyond(t)
  <2>1. /\ both \in Seq(AllKeys) /\ Len(both) = n + m /\ DOMAIN both = 1 .. n + m
        /\ \A i \in 1 .. n + m : both[i] = IF i <= n THEN KeysOf(t)[i] ELSE KeysBeyond(t)[i - n]
    BY <1>1, <1>2, <1>3, <1>7
  <2>2. KeysOf(t) = [i \in 1 .. n |-> KeyAt(from + i - 1)]
    BY <1>2 DEF KeysOf
  <2>3. ASSUME NEW i \in 1 .. n + m PROVE both[i] = KeyAt(from + i - 1)
    <3>1. CASE i <= n
      BY <1>2, <1>3, <2>1, <2>2, <3>1
    <3>2. CASE ~(i <= n)
      <4>1. i - n \in 1 .. m /\ from + n + (i - n) - 1 = from + i - 1
        BY <3>2
      <4>2. KeysBeyond(t)[i - n] = KeyAt(from + n + (i - n) - 1)
        BY <1>5, <4>1
      <4> QED  BY <2>1, <3>2, <4>1, <4>2
    <3> QED  BY <3>1, <3>2
  <2> HIDE DEF both
  <2>4. both = [i \in 1 .. n + m |-> both[i]]
    BY <2>1
  <2>5. both = read
    BY <2>3, <2>4
  <2> QED  BY <2>5 DEF both
<1> QED  BY <1>2, <1>4, <1>9

LEMMA UniqueFits ==
  ASSUME JobInv, NEW t \in Threads
  PROVE  PartInv(UniquePartition(t), t)
<1>1. KeysOf(t) \in Seq(AllKeys)
  BY KeysTyped
<1>2. ASSUME NEW i \in Majors PROVE Into(KeysOf(t), i) \in Seq(AllKeys) /\ Len(Into(KeysOf(t), i)) \in Nat
  <2>1. Into(KeysOf(t), i) \in Seq(AllKeys)
    BY <1>1, IntoFacts
  <2> QED  BY <2>1
<1>3. ASSUME NEW i \in Majors
      PROVE  /\ UniquePartition(t).bckt[i] = Into(KeysOf(t), i)
             /\ UniquePartition(t).rep[i] = << >> /\ UniquePartition(t).counts[i] = << >>
  BY DEF UniquePartition
<1>4. << >> \in Seq(AllKeys) /\ << >> \in Seq(Nat) /\ Len(<< >>) = 0
  OBVIOUS
<1>5. ASSUME NEW i \in Majors
      PROVE  /\ UniquePartition(t).bckt[i] \in Seq(AllKeys)
             /\ UniquePartition(t).rep[i] \in Seq(AllKeys) /\ UniquePartition(t).counts[i] \in Seq(Nat)
             /\ Len(UniquePartition(t).counts[i]) = Len(UniquePartition(t).rep[i])
             /\ Len(UniquePartition(t).bckt[i])
                  <= Len(Into(KeysOf(t), i)) + Len(Into(KeysBeyond(t), i))
  <2>1. PICK n \in Nat, m \in Nat : n = Len(Into(KeysOf(t), i)) /\ m = Len(Into(KeysBeyond(t), i))
    <3>1. PICK beyond \in Seq(AllKeys) : beyond = KeysBeyond(t)
      BY BeyondTyped
    <3>2. Into(beyond, i) \in Seq(AllKeys)
      BY IntoFacts
    <3>3. Len(Into(beyond, i)) \in Nat
      BY <3>2
    <3> QED  BY <1>2, <3>1, <3>3
  <2>2. Len(UniquePartition(t).bckt[i]) <= Len(Into(KeysOf(t), i)) + Len(Into(KeysBeyond(t), i))
    BY <1>3, <2>1
  <2> QED  BY <1>2, <1>3, <1>4, <2>2
<1> QED  BY <1>5 DEF PartInv

LEMMA RepeatedFits ==
  ASSUME JobInv, NEW t \in Threads, RepeatedKeys # << >>
  PROVE  PartInv(RepeatedPartition(t), t)
<1> DEFINE read == [i \in 1 .. Batches(PartOf(t).n) * BATCH_SZ_EXP |-> KeyAt(PartOf(t).begin + i - 1)]
           rep == [i \in Majors |-> Into(RepeatedKeys, i)]
           rest == {n \in DOMAIN read : read[n] \notin ToSet(RepeatedKeys)}
           Count(key) == Cardinality({n \in DOMAIN read : read[n] = key})
           places(i) == {n \in rest : MajorOf(read[n]) = i}
           all(i) == {n \in DOMAIN read : MajorOf(read[n]) = i}
<1>1. PartOf(t).begin \in Nat /\ PartOf(t).n \in Nat /\ RepeatedKeys \in Seq(AllKeys)
  BY KeysTyped, RepeatedTyped
<1>2. read \in Seq(AllKeys)
  <2>1. PICK m \in Nat : m = Batches(PartOf(t).n) * BATCH_SZ_EXP
    <3>1. BATCH_SZ_EXP \in Nat /\ BATCH_SZ_EXP > 0
      BY LearnedSortAssumption
    <3>2. PICK b \in Nat : b = Batches(PartOf(t).n)
      BY <1>1, <3>1 DEF Batches
    <3> QED  BY <3>1, <3>2
  <2>2. \A i \in 1 .. m : PartOf(t).begin + i - 1 \in Nat
    BY <1>1
  <2>3. \A i \in 1 .. m : KeyAt(PartOf(t).begin + i - 1) \in AllKeys
    BY <2>2, KeysTyped
  <2>4. read \in [1 .. m -> AllKeys]
    BY <2>1, <2>3
  <2> HIDE DEF read
  <2> QED  BY <2>4
<1>3. RepeatedPartition(t) =
        [bckt |-> [i \in Majors |-> Pick(read, places(i))],
         rep |-> rep,
         counts |-> [i \in Majors |-> [e \in DOMAIN rep[i] |-> Count(rep[i][e])]]]
  BY DEF RepeatedPartition
<1>4. ASSUME NEW i \in Majors
      PROVE  /\ Pick(read, places(i)) \in Seq(AllKeys)
             /\ Len(Pick(read, places(i))) = Cardinality(places(i))
             /\ Cardinality(places(i)) \in Nat /\ Cardinality(all(i)) \in Nat
             /\ Cardinality(places(i)) <= Cardinality(all(i))
  <2>1. \A n \in places(i) : n \in DOMAIN read
    OBVIOUS
  <2>2. \A n \in all(i) : n \in DOMAIN read
    OBVIOUS
  <2>3. places(i) \in SUBSET all(i)
    OBVIOUS
  <2> HIDE DEF read, places, all
  <2>4. /\ Pick(read, places(i)) \in Seq(AllKeys)
        /\ Len(Pick(read, places(i))) = Cardinality(places(i))
        /\ Cardinality(places(i)) \in Nat
    BY <1>2, <2>1, PickPlaces, Zenon
  <2>5. IsFiniteSet(all(i)) /\ Cardinality(all(i)) \in Nat
    BY <1>2, <2>2, PickPlaces, Zenon
  <2> QED  BY <2>3, <2>4, <2>5, FS_Subset
<1>5. ASSUME NEW i \in Majors
      PROVE  /\ rep[i] \in Seq(AllKeys)
             /\ [e \in DOMAIN rep[i] |-> Count(rep[i][e])] \in Seq(Nat)
             /\ Len([e \in DOMAIN rep[i] |-> Count(rep[i][e])]) = Len(rep[i])
  <2>1. rep[i] \in Seq(AllKeys)
    BY <1>1, IntoFacts
  <2>2. \A x : Count(x) \in Nat
    <3> SUFFICES ASSUME NEW x PROVE Count(x) \in Nat
      OBVIOUS
    <3> DEFINE I == {n \in DOMAIN read : read[n] = x}
    <3>1. \A n \in I : n \in DOMAIN read
      OBVIOUS
    <3> HIDE DEF read, I
    <3>2. Cardinality(I) \in Nat
      BY <1>2, <3>1, PickPlaces, Zenon
    <3> QED  BY <3>2 DEF I
  <2> HIDE DEF Count, rep
  <2> QED  BY <2>1, <2>2
<1>6. ASSUME NEW i \in Majors
      PROVE  Cardinality(places(i)) <= Len(Into(KeysOf(t), i)) + Len(Into(KeysBeyond(t), i))
  <2>1. /\ KeysOf(t) \in Seq(AllKeys) /\ KeysBeyond(t) \in Seq(AllKeys)
        /\ read = KeysOf(t) \o KeysBeyond(t)
    <3>1. KeysOf(t) \in Seq(AllKeys)
      BY KeysTyped
    <3>2. KeysBeyond(t) \in Seq(AllKeys)
      BY BeyondTyped
    <3>3. read = KeysOf(t) \o KeysBeyond(t)
      BY BeyondFacts, Zenon
    <3> QED  BY <3>1, <3>2, <3>3
  <2>2. Len(Into(read, i)) = Cardinality(all(i))
    <3> HIDE DEF read
    <3> QED  BY <1>2, IntoFacts
  <2> HIDE DEF places, all, read
  <2>3. Len(Into(KeysOf(t), i)) + Len(Into(KeysBeyond(t), i)) = Cardinality(all(i))
    BY <2>1, <2>2, IntoConcat
  <2> QED  BY <1>4, <2>3
<1> HIDE DEF read, rep, Count, places
<1>7. ASSUME NEW i \in Majors
      PROVE  /\ RepeatedPartition(t).bckt[i] = Pick(read, places(i))
             /\ RepeatedPartition(t).rep[i] = rep[i]
             /\ RepeatedPartition(t).counts[i] = [e \in DOMAIN rep[i] |-> Count(rep[i][e])]
  BY <1>3
<1> QED  BY <1>4, <1>5, <1>6, <1>7 DEF PartInv

LEMMA PartsStep ==
  ASSUME JobInv, PartsInv, [Next]_vars
  PROVE  PartsInv'
<1> DEFINE Here(t) ==
             /\ hist[t] # << >> => ~BeforeHistogram /\ hist[t] = HistOf(t)
             /\ hist[t] = << >> => BeforePartition
             /\ parts[t] # << >> => ~BeforePartition /\ PartInv(parts[t], t)
             /\ parts[t] = << >> => BeforeSort
<1>1. DOMAIN hist = Threads /\ DOMAIN parts = Threads /\ \A t \in Threads : Here(t)
  BY DEF PartsInv
<1>2. CASE Validate \/ TrainOnOne \/ TrainOnTwo
  <2>1. /\ pc \in {"validate", "train"} /\ pc' \in {"train", "histogram"}
        /\ job' = job /\ hist' = hist /\ parts' = parts
    BY <1>2 DEF Validate, TrainOnOne, TrainOnTwo, pipeline
  <2>2. \A t \in Threads : hist[t] = << >> /\ parts[t] = << >>
    BY <1>1, <2>1 DEF BeforeHistogram, BeforePartition
  <2>3. BeforePartition' /\ BeforeSort' /\ Threads' = Threads
    BY <2>1 DEF BeforeHistogram, BeforePartition, BeforeSort, Threads
  <2> QED  BY <1>1, <2>1, <2>2, <2>3 DEF PartsInv
<1>3. ASSUME NEW t \in Threads, Histogram(t) PROVE PartsInv'
  <2>1. /\ pc = "histogram" /\ pc' \in {"histogram", "partition"} /\ UNCHANGED <<job, model, sample, parts>>
        /\ hist' = [hist EXCEPT ![t] = HistOf(t)]
        /\ pc' = IF \A u \in Threads \ {t} : hist[u] # << >> THEN "partition" ELSE pc
    BY <1>3 DEF Histogram, HistOf
  <2>2. HistOf(t) # << >>
    <3>1. DOMAIN << >> = {} /\ 0 \in DOMAIN HistOf(t)
      BY JobFacts DEF HistOf, Majors
    <3> QED  BY <3>1
  <2>3. ~BeforeHistogram' /\ BeforeSort' /\ (BeforePartition' <=> pc' = "histogram") /\ BeforePartition
    BY <2>1 DEF BeforeHistogram, BeforePartition, BeforeSort
  <2>4. Threads' = Threads
    BY <2>1 DEF Threads
  <2>5. ASSUME NEW u \in Threads PROVE Here(u)'
    <3>1. HistOf(u)' = HistOf(u)
      BY <2>1, SteadyHist
    <3>2. parts'[u] = parts[u] /\ parts[u] = << >>
      BY <1>1, <2>1, <2>3
    <3>3. hist'[u] = IF u = t THEN HistOf(t) ELSE hist[u]
      BY <1>1, <2>1
    <3>4. hist[u] # << >> => hist[u] = HistOf(u)
      BY <1>1
    <3>5. hist'[u] = << >> => pc' = "histogram"
      BY <2>1, <2>2, <3>3
    <3> QED  BY <2>2, <2>3, <3>1, <3>2, <3>3, <3>4, <3>5
  <2>6. DOMAIN hist' = Threads /\ DOMAIN parts' = Threads
    BY <1>1, <2>1
  <2> QED  BY <2>4, <2>5, <2>6 DEF PartsInv
<1>4. ASSUME NEW t \in Threads, Partition(t) PROVE PartsInv'
  <2> DEFINE part == IF RepeatedKeys = << >> THEN UniquePartition(t) ELSE RepeatedPartition(t)
  <2>1. /\ pc = "partition" /\ pc' \in {"partition", "open"} /\ UNCHANGED <<job, model, sample, hist>>
        /\ parts' = [parts EXCEPT ![t] = part]
        /\ pc' = IF \A u \in Threads \ {t} : parts[u] # << >> THEN "open" ELSE pc
    BY <1>4 DEF Partition
  <2>2. part # << >>
    <3>1. DOMAIN << >> = {}
      OBVIOUS
    <3>2. "bckt" \in DOMAIN UniquePartition(t) /\ "bckt" \in DOMAIN RepeatedPartition(t)
      BY DEF UniquePartition, RepeatedPartition
    <3> QED  BY <3>1, <3>2
  <2>3. PartInv(part, t)
    BY UniqueFits, RepeatedFits
  <2>4. ~BeforeHistogram' /\ ~BeforePartition' /\ (BeforeSort' <=> pc' = "partition") /\ ~BeforePartition
        /\ ~BeforeHistogram
    BY <2>1 DEF BeforeHistogram, BeforePartition, BeforeSort
  <2>5. Threads' = Threads
    BY <2>1 DEF Threads
  <2> HIDE DEF part
  <2>6. ASSUME NEW u \in Threads PROVE Here(u)'
    <3>1. HistOf(u)' = HistOf(u)
      BY <2>1, SteadyHist
    <3>2. hist'[u] = hist[u] /\ hist[u] # << >> /\ hist[u] = HistOf(u)
      BY <1>1, <2>1, <2>4
    <3>3. parts'[u] = IF u = t THEN part ELSE parts[u]
      BY <1>1, <2>1
    <3>4. parts'[u] # << >> => PartInv(parts'[u], u)
      BY <1>1, <2>3, <3>3
    <3>5. PICK new : new = parts'[u]
      OBVIOUS
    <3>6. PartInv(new, u) => PartInv(new, u)'
      BY <2>1, SteadyPart
    <3>7. parts'[u] # << >> => PartInv(parts[u], u)'
      BY <3>4, <3>5, <3>6 DEF PartInv
    <3>8. parts'[u] = << >> => pc' = "partition"
      BY <2>1, <2>2, <3>3
    <3> QED  BY <2>4, <3>1, <3>2, <3>7, <3>8
  <2>7. DOMAIN hist' = Threads /\ DOMAIN parts' = Threads
    BY <1>1, <2>1
  <2> QED  BY <2>5, <2>6, <2>7 DEF PartsInv
<1>5. ASSUME UNCHANGED <<job, model, sample, hist, parts>>,
             BeforeHistogram' <=> BeforeHistogram, BeforePartition' <=> BeforePartition,
             BeforeSort' <=> BeforeSort
      PROVE  PartsInv'
  <2>1. Threads' = Threads
    BY <1>5, Steady
  <2>2. ASSUME NEW u \in Threads PROVE Here(u)'
    <3>1. HistOf(u)' = HistOf(u)
      BY <1>5, SteadyHist
    <3>2. PICK old : old = parts[u]
      OBVIOUS
    <3>3. PartInv(old, u) => PartInv(old, u)'
      BY <1>5, SteadyPart
    <3>4. PartInv(parts[u], u) => PartInv(parts[u], u)'
      BY <1>5, <3>2, <3>3 DEF PartInv
    <3>5. Here(u)
      BY <1>1
    <3> QED  BY <1>5, <3>1, <3>4, <3>5
  <2> QED  BY <1>1, <1>5, <2>1, <2>2 DEF PartsInv
<1>6. CASE LateNext
  <2>1. /\ BeforeHistogram' <=> BeforeHistogram
        /\ BeforePartition' <=> BeforePartition
        /\ BeforeSort' <=> BeforeSort
    BY <1>6, LateKeeps DEF BeforeHistogram, BeforePartition, BeforeSort
  <2>2. UNCHANGED <<job, model, sample, hist, parts>>
    BY <1>6, LateKeeps
  <2> QED  BY <1>5, <2>1, <2>2
<1>7. CASE UNCHANGED vars
  <2>1. /\ BeforeHistogram' <=> BeforeHistogram
        /\ BeforePartition' <=> BeforePartition
        /\ BeforeSort' <=> BeforeSort
    BY <1>7 DEF vars, BeforeHistogram, BeforePartition, BeforeSort
  <2>2. UNCHANGED <<job, model, sample, hist, parts>>
    BY <1>7 DEF vars, pipeline
  <2> QED  BY <1>5, <2>1, <2>2
<1> QED  BY <1>2, <1>3, <1>4, <1>6, <1>7, NextCases
-----------------------------------------------------------------------------
(* The steps of the distribution.                                          *)

LEMMA DistributeCases ==
  ASSUME Distribute
  PROVE  /\ Distributing
         /\ \/ ~job.imv /\ (FullBatch \/ LastBatch)
            \/ job.imv /\ \/ Finish \/ PassBy \/ FetchFull \/ FetchPartial
                          \/ PredictFull \/ PredictPartial \/ ScatterAll
                          \/ ScatterAndPack \/ ScatterAndRefill \/ DrainResidue
<1>1. CASE \/ PlaceBatch \/ PlaceRest \/ EndRegister \/ FetchRegister \/ FetchLastRegister
           \/ PredictRegister \/ PredictSparse \/ ScatterRegister \/ ScatterAndFill \/ ScatterResidue
  BY <1>1 DEF OneBucket, Distributing, PlaceBatch, PlaceRest, EndRegister, FetchRegister,
     FetchLastRegister, PredictRegister, PredictSparse, ScatterRegister, ScatterAndFill, ScatterResidue
<1>2. CASE \/ PlacePartitionBatch \/ PlacePartitionRest \/ EndPartitionRegister \/ FetchPartition
           \/ FetchPartitionLast \/ PredictPartition \/ PredictPartitionSparse \/ ScatterPartition
           \/ ScatterPartitionAndFill \/ ScatterPartitionResidue
  BY <1>2 DEF Partitions, Distributing, PlacePartitionBatch, PlacePartitionRest,
     EndPartitionRegister, FetchPartition, FetchPartitionLast, PredictPartition,
     PredictPartitionSparse, ScatterPartition, ScatterPartitionAndFill, ScatterPartitionResidue
<1> QED  BY <1>1, <1>2 DEF Distribute

LEMMA DistributeKeepsP ==
  ASSUME Distribute
  PROVE  p' = p
  BY DistributeCases DEF FullBatch, LastBatch, PlaceKeys, Finish, PassBy, FetchFull, FetchPartial,
     Fetch, PredictFull, PredictPartial, Predict, ScatterAll, ScatterAndPack, ScatterAndRefill,
     DrainResidue

LEMMA SourceStep ==
  ASSUME JobInv, PartsInv, SourceInv, [Next]_vars
  PROVE  SourceInv'
<1> DEFINE Sorts == {"distribute", "sort", "spill"}
<1>1. ASSUME UNCHANGED <<job, source>>, p' = p, pc \in Sorts \/ pc' \notin Sorts
      PROVE  SourceInv'
  BY <1>1 DEF SourceInv, AllKeys, Relation, Threads
<1>2. CASE Validate \/ TrainOnOne \/ TrainOnTwo \/ (\E t \in Threads : Histogram(t))
           \/ (\E t \in Threads : Partition(t))
  <2>1. pc' \notin Sorts
    BY <1>2 DEF Validate, TrainOnOne, TrainOnTwo, Histogram, Partition
  <2> QED  BY <2>1 DEF SourceInv
<1>3. CASE Open
  <2>1. /\ source' = [t \in Threads |-> parts[t].bckt[bucket]] /\ p' = 1 /\ job' = job /\ pc = "open"
    BY <1>3 DEF Open, StartPartition
  <2>2. ASSUME NEW t \in Threads PROVE parts[t].bckt[bucket] \in Seq(AllKeys)
    <3>1. ~BeforeSort
      BY <2>1 DEF BeforeSort, BeforePartition, BeforeHistogram
    <3> QED  BY <3>1 DEF PartsInv, PartInv, JobInv
  <2>3. 1 \in Threads
    BY JobFacts DEF Threads
  <2>4. Threads' = Threads /\ AllKeys' = AllKeys
    BY <2>1 DEF Threads, AllKeys, Relation
  <2>5. source' \in [Threads -> Seq(AllKeys)]
    BY <2>1, <2>2
  <2> QED  BY <2>1, <2>3, <2>4, <2>5 DEF SourceInv
<1>4. CASE DistributeKeys
  <2>1. UNCHANGED <<job, source>> /\ pc = "distribute"
    BY <1>4, DistributeCases DEF DistributeKeys, Distributing
  <2>2. p' = p
    BY <1>4, DistributeKeepsP DEF DistributeKeys
  <2> QED  BY <1>1, <2>1, <2>2
<1>5. CASE NextPartition
  <2>1. /\ UNCHANGED <<job, source>> /\ p' = p + 1 /\ pc = "distribute" /\ p < Len(source)
    BY <1>5 DEF NextPartition, StartPartition, Partitions
  <2>2. source \in [Threads -> Seq(AllKeys)] /\ p \in Threads
    BY <2>1 DEF SourceInv
  <2>3. Len(source) = job.threads
    BY <2>2, JobFacts DEF Threads
  <2>4. p + 1 \in Threads
    BY <2>1, <2>2, <2>3, JobFacts DEF Threads
  <2>5. Threads' = Threads /\ AllKeys' = AllKeys
    BY <2>1 DEF Threads, AllKeys, Relation
  <2> QED  BY <2>1, <2>2, <2>4, <2>5 DEF SourceInv
<1>6. CASE AllDistributed \/ SortMinors
  BY <1>1, <1>6 DEF AllDistributed, SortMinors, distributing
<1>7. CASE (\E total, vals, counts : MergeSpill(total, vals, counts)) \/ MergeStep \/ EndBucket
  <2>1. pc' \notin Sorts
    BY <1>7 DEF MergeSpill, MergeStep, EndBucket, Merging
  <2> QED  BY <2>1 DEF SourceInv
<1>8. CASE UNCHANGED vars
  <2>1. UNCHANGED <<job, source, p, pc>>
    BY <1>8 DEF vars, distributing
  <2> QED  BY <2>1 DEF SourceInv, AllKeys, Relation, Threads
<1> QED  BY <1>2, <1>3, <1>4, <1>5, <1>6, <1>7, <1>8, NextCases DEF LateNext
-----------------------------------------------------------------------------
(* More counting.                                                          *)

Count(s, x) == Cardinality({n \in DOMAIN s : s[n] = x})

LEMMA CountType ==
  ASSUME NEW X, NEW s \in Seq(X), NEW x
  PROVE  Count(s, x) \in Nat /\ IsFiniteSet({n \in DOMAIN s : s[n] = x})
<1> DEFINE A == {n \in DOMAIN s : s[n] = x}
<1>1. A \in SUBSET (1 .. Len(s)) /\ Len(s) \in Nat
  OBVIOUS
<1> HIDE DEF A
<1>2. IsFiniteSet(1 .. Len(s))
  BY <1>1, FS_Interval
<1>3. IsFiniteSet(A) /\ Cardinality(A) \in Nat
  BY <1>1, <1>2, FS_Subset, FS_CardinalityType, Zenon
<1> QED  BY <1>3 DEF Count, A

LEMMA CountConcat ==
  ASSUME NEW X, NEW s \in Seq(X), NEW t \in Seq(X), NEW x
  PROVE  Count(s \o t, x) = Count(s, x) + Count(t, x)
<1> DEFINE A == {n \in DOMAIN s : s[n] = x}
           B == {n \in DOMAIN t : t[n] = x}
           C == {n \in DOMAIN (s \o t) : n > Len(s) /\ (s \o t)[n] = x}
           D == {n \in DOMAIN (s \o t) : (s \o t)[n] = x}
<1>1. /\ DOMAIN s = 1 .. Len(s) /\ DOMAIN t = 1 .. Len(t) /\ DOMAIN (s \o t) = 1 .. Len(s) + Len(t)
      /\ Len(s) \in Nat /\ Len(t) \in Nat
      /\ \A n \in 1 .. Len(s) + Len(t) : (s \o t)[n] = IF n <= Len(s) THEN s[n] ELSE t[n - Len(s)]
  OBVIOUS
<1>2. D = A \cup C /\ \A a \in A : a \notin C
  BY <1>1
<1>3. /\ \A i \in Int : i \in C <=> i - Len(s) \in B
      /\ \A i \in B : i \in Int
      /\ \A i \in C : i \in Int
  BY <1>1
<1>4. IsFiniteSet(A) /\ IsFiniteSet(B)
  BY CountType
<1> HIDE DEF A, B, C, D
<1>5. IsFiniteSet(C) /\ Cardinality(C) = Cardinality(B)
  <2>1. Len(s) \in Int
    BY <1>1
  <2> QED  BY <2>1, <1>3, <1>4, ShiftCount, Zenon
<1>6. Cardinality(D) = Cardinality(A) + Cardinality(C)
  BY <1>2, <1>4, <1>5, DisjointCount
<1> QED  BY <1>5, <1>6 DEF Count, A, B, D

LEMMA CountPick ==
  ASSUME NEW s, NEW I, \A i \in I : i \in Int, IsFiniteSet(I), NEW x
  PROVE  Count(Pick(s, I), x) = Cardinality({i \in I : s[i] = x})
<1> DEFINE n == Cardinality(I)
           J == {i \in I : s[i] = x}
           K == {m \in DOMAIN Pick(s, I) : Pick(s, I)[m] = x}
<1>1. PICK g \in Bijection(1 .. n, I) : \A m \in 1 .. n : Pick(s, I)[m] = s[g[m]]
  BY PickFacts
<1>2. n \in Nat /\ DOMAIN Pick(s, I) = 1 .. n
  BY PickFacts
<1>3. g \in [1 .. n -> I]
  BY <1>1 DEF Bijection, Injection
<1>4. K = {m \in 1 .. n : g[m] \in J}
  BY <1>1, <1>2, <1>3
<1>5. IsFiniteSet(1 .. n) /\ \A j \in J : j \in I
  BY <1>2, FS_Interval
<1>6. (\A m \in K : m \in 1 .. n) /\ \A m \in 1 .. n : m \in K <=> g[m] \in J
  BY <1>4
<1> HIDE DEF n, J, K
<1>7. Cardinality(K) = Cardinality(J)
  <2>1. PICK A : A = 1 .. n
    OBVIOUS
  <2>2. g \in Bijection(A, I) /\ IsFiniteSet(A)
    BY <1>1, <1>5, <2>1
  <2>3. (\A m \in K : m \in A) /\ \A m \in A : m \in K <=> g[m] \in J
    BY <1>6, <2>1
  <2> QED  BY <1>5, <2>2, <2>3, BijectionCount
<1> QED  BY <1>7 DEF Count, J, K

\* Of the places J, taken in order, as many fit as there is room.
LEMMA FitCount ==
  ASSUME NEW J, \A i \in J : i \in Int, IsFiniteSet(J), NEW room \in Nat, NEW F,
         \A i \in F : i \in J,
         \A i \in J : i \in F <=> Cardinality({j \in J : j <= i}) <= room
  PROVE  /\ IsFiniteSet(F) /\ Cardinality(F) \in Nat /\ Cardinality(F) <= room
         /\ F # J => Cardinality(F) = room
<1> DEFINE c == Cardinality(J)
           R == {r \in 1 .. c : r <= room}
<1>1. PICK f \in Bijection(J, 1 .. c) : f = [i \in J |-> Cardinality({j \in J : j <= i})]
  BY Ranks
<1>2. c \in Nat /\ f \in [J -> 1 .. c]
  BY <1>1, FS_CardinalityType DEF Bijection, Injection
<1>3. F = {i \in J : f[i] \in R}
  BY <1>1, <1>2
<1>4. R \subseteq 1 .. c
  OBVIOUS
<1>5. R = 1 .. (IF c <= room THEN c ELSE room)
  BY <1>2
<1>6. Cardinality(R) = (IF c <= room THEN c ELSE room) /\ Cardinality(R) \in Nat
  <2>1. PICK m \in Nat : m = (IF c <= room THEN c ELSE room)
    BY <1>2
  <2>2. Cardinality(1 .. m) = m
    BY <2>1, FS_Interval
  <2> QED  BY <1>5, <2>1, <2>2
<1>7. F \in SUBSET J
  BY <1>3
<1>8. F # J => ~(c <= room)
  <2> SUFFICES ASSUME F # J PROVE ~(c <= room)
    OBVIOUS
  <2>1. PICK i \in J : f[i] \notin R
    BY <1>3, <1>7
  <2> QED  BY <1>2, <2>1
<1> HIDE DEF c, R
<1>9. Cardinality(F) = Cardinality(R)
  <2>1. IsFiniteSet(J)
    OBVIOUS
  <2>2. (\A i \in F : i \in J) /\ \A i \in J : i \in F <=> f[i] \in R
    BY <1>3
  <2>3. PICK B : B = 1 .. c
    OBVIOUS
  <2>4. f \in Bijection(J, B) /\ \A r \in R : r \in B
    BY <1>1, <1>4, <2>3
  <2> QED  BY <2>1, <2>2, <2>4, BijectionCount
<1>10. IsFiniteSet(F)
  BY <1>7, FS_Subset, Zenon
<1> QED  BY <1>2, <1>6, <1>8, <1>9, <1>10
-----------------------------------------------------------------------------
(* Placing keys in their buckets.                                          *)

LEMMA PredictedRange ==
  ASSUME NEW line, NEW key, NEW scale, NEW size, NEW offset, NEW last \in Nat
  PROVE  Predicted(line, key, scale, size, offset, last) \in 0 .. last
<1> DEFINE B == {b \in 1 .. last : (offset + b) * line.dx * size
                                     <= (line.y * line.dx + line.dy * (key - line.x)) * scale}
<1>1. IsFiniteSet(1 .. last) /\ Cardinality(1 .. last) = last
  BY FS_Interval
<1>2. B \in SUBSET (1 .. last)
  OBVIOUS
<1>3. Predicted(line, key, scale, size, offset, last) = IF line.dx = 0 THEN last ELSE Cardinality(B)
  BY DEF Predicted
<1> HIDE DEF B
<1>4. Cardinality(B) \in Nat /\ Cardinality(B) <= last
  BY <1>1, <1>2, FS_Subset, FS_CardinalityType
<1> QED  BY <1>3, <1>4

LEMMA HomeRange ==
  ASSUME JobInv
  PROVE  \A leaf, x : MinorOf(leaf, x) \in Buckets
<1>1. PICK last \in Nat : last = job.minors - 1
  BY JobFacts
<1>2. ASSUME NEW leaf, NEW x PROVE MinorOf(leaf, x) \in 0 .. last
  BY <1>1, PredictedRange DEF MinorOf, BucketIn
<1> QED  BY <1>1, <1>2 DEF Buckets

LEMMA RoutedFacts ==
  ASSUME NEW lane \in Routed
  PROVE  /\ lane.key \in AllKeys /\ lane.idx = Home(lane.key) /\ lane # NoKey
         /\ DOMAIN lane = {"key", "idx"}
<1>1. PICK x \in AllKeys : lane = [key |-> x, idx |-> Home(x)]
  BY DEF Routed, Home
<1> QED  BY <1>1 DEF NoKey

Spilled(items) == DOMAIN items \ Fitting(items)

\* The places of one bucket's keys: those that fit, and those that do not.
LEMMA FittingFacts ==
  ASSUME JobInv, GoodBuckets, NEW items \in Seq(Routed), NEW b \in Buckets
  PROVE  LET F == {n \in Fitting(items) : items[n].idx = b}
         IN  /\ IsFiniteSet(F) /\ Cardinality(F) \in Nat
             /\ Len(minor[b]) + Cardinality(F) <= hp.threshold
             /\ (\E n \in Spilled(items) : items[n].idx = b)
                  => Len(minor[b]) + Cardinality(F) = hp.threshold
<1> DEFINE J == {n \in DOMAIN items : items[n].idx = b}
           F == {n \in Fitting(items) : items[n].idx = b}
<1>1. DOMAIN items = 1 .. Len(items) /\ Len(items) \in Nat
  OBVIOUS
<1>2. PICK room \in Nat : room = hp.threshold - Len(minor[b]) /\ Len(minor[b]) \in Nat
  <2>1. Len(minor[b]) \in Nat /\ Len(minor[b]) <= hp.threshold /\ hp.threshold \in Nat
    BY JobFacts DEF GoodBuckets
  <2> QED  BY <2>1
<1>3. IsFiniteSet(J) /\ \A n \in J : n \in Int
  <2>1. J \in SUBSET (1 .. Len(items)) /\ IsFiniteSet(1 .. Len(items))
    BY <1>1, FS_Interval
  <2>2. IsFiniteSet(J)
    <3> HIDE DEF J
    <3> QED  BY <2>1, FS_Subset, Zenon
  <2> QED  BY <1>1, <2>2
<1>4. ASSUME NEW n \in J
      PROVE  n \in F <=> Cardinality({m \in J : m <= n}) <= room
  <2>1. {m \in 1 .. n : items[m].idx = items[n].idx} = {m \in J : m <= n}
    BY <1>1
  <2>2. n \in F <=> Len(minor[b]) + Cardinality({m \in 1 .. n : items[m].idx = items[n].idx}) <= hp.threshold
    BY DEF Fitting
  <2>3. PICK c : c = Cardinality({m \in J : m <= n})
    OBVIOUS
  <2>4. c \in Nat
    <3>1. {m \in J : m <= n} \in SUBSET J
      OBVIOUS
    <3> QED  BY <1>3, <2>3, <3>1, FS_Subset, FS_CardinalityType, Zenon
  <2>5. n \in F <=> Len(minor[b]) + c <= hp.threshold
    BY <2>1, <2>2, <2>3
  <2>6. hp.threshold \in Nat
    BY JobFacts
  <2>7. n \in F <=> c <= room
    BY <1>2, <2>4, <2>5, <2>6
  <2> QED  BY <2>3, <2>7
<1>5. \A n \in F : n \in J
  BY DEF Fitting
<1>6. (\E n \in Spilled(items) : items[n].idx = b) => F # J
  BY DEF Spilled
<1> HIDE DEF J, F
<1>7. /\ IsFiniteSet(F) /\ Cardinality(F) \in Nat /\ Cardinality(F) <= room
      /\ F # J => Cardinality(F) = room
  BY <1>3, <1>4, <1>5, FitCount
<1>8. hp.threshold \in Nat
  BY JobFacts
<1>9. /\ Len(minor[b]) + Cardinality(F) <= hp.threshold
      /\ F # J => Len(minor[b]) + Cardinality(F) = hp.threshold
  BY <1>2, <1>7, <1>8
<1> QED  BY <1>6, <1>7, <1>9 DEF F

LEMMA PlacedFacts ==
  ASSUME JobInv, GoodBuckets, NEW items \in Seq(Routed), Placed(items),
         UNCHANGED <<job, hp, model, bucket>>
  PROVE  /\ GoodBuckets'
         /\ \A b \in Buckets : \A x :
              /\ Cardinality({n \in Fitting(items) : items[n].idx = b /\ items[n].key = x}) \in Nat
              /\ Count(minor'[b], x) = Count(minor[b], x)
                   + Cardinality({n \in Fitting(items) : items[n].idx = b /\ items[n].key = x})
         /\ \A x :
              /\ Cardinality({n \in Spilled(items) : items[n].key = x}) \in Nat
              /\ Count(spill', x) = Count(spill, x) + Cardinality({n \in Spilled(items) : items[n].key = x})
         /\ \A n \in Spilled(items) : Len(minor'[items[n].idx]) = hp.threshold
<1> DEFINE keys == [n \in DOMAIN items |-> items[n].key]
           F(b) == {n \in Fitting(items) : items[n].idx = b}
<1>1. DOMAIN items = 1 .. Len(items) /\ Len(items) \in Nat /\ \A n \in DOMAIN items : items[n] \in Routed
  OBVIOUS
<1>2. keys \in Seq(AllKeys) /\ DOMAIN keys = DOMAIN items
  <2>1. \A n \in DOMAIN items : items[n].key \in AllKeys
    BY <1>1, RoutedFacts
  <2>2. keys \in [1 .. Len(items) -> AllKeys]
    BY <1>1, <2>1
  <2>3. DOMAIN keys = DOMAIN items
    OBVIOUS
  <2> HIDE DEF keys
  <2> QED  BY <1>1, <2>2, <2>3
<1>3. /\ minor' = [b \in DOMAIN minor |-> minor[b] \o Pick(keys, F(b))]
      /\ spill' = spill \o Pick(keys, Spilled(items))
  BY DEF Placed, Spilled
<1>4. DOMAIN minor = Buckets /\ Fitting(items) \subseteq DOMAIN items /\ Spilled(items) \subseteq DOMAIN items
  BY DEF GoodBuckets, Fitting, Spilled
<1>5. \A n \in DOMAIN items : keys[n] = items[n].key
  OBVIOUS
<1>6. \A n \in DOMAIN items : items[n].idx = Home(items[n].key) /\ items[n].idx \in Buckets
  BY <1>1, RoutedFacts, HomeRange DEF Home
<1> HIDE DEF keys
<1>7. ASSUME NEW I, \A i \in I : i \in DOMAIN items
      PROVE  /\ Pick(keys, I) \in Seq(AllKeys) /\ Len(Pick(keys, I)) = Cardinality(I)
             /\ IsFiniteSet(I)
             /\ \A x : Count(Pick(keys, I), x) = Cardinality({n \in I : items[n].key = x})
             /\ \A m \in 1 .. Len(Pick(keys, I)) : \E n \in I : Pick(keys, I)[m] = items[n].key
  <2>1. /\ Pick(keys, I) \in Seq(AllKeys) /\ Len(Pick(keys, I)) = Cardinality(I)
        /\ IsFiniteSet(I)
    <3>1. \A i \in I : i \in DOMAIN keys
      BY <1>2, <1>7
    <3> QED  BY <1>2, <3>1, PickPlaces, Zenon
  <2>2. \A i \in I : i \in Int
    BY <1>1, <1>7
  <2>3. ASSUME NEW x PROVE Count(Pick(keys, I), x) = Cardinality({n \in I : items[n].key = x})
    <3>1. Count(Pick(keys, I), x) = Cardinality({n \in I : keys[n] = x})
      BY <2>1, <2>2, CountPick
    <3>2. {n \in I : keys[n] = x} = {n \in I : items[n].key = x}
      BY <1>5, <1>7
    <3> QED  BY <3>1, <3>2
  <2>4. ASSUME NEW m \in 1 .. Len(Pick(keys, I)) PROVE \E n \in I : Pick(keys, I)[m] = items[n].key
    <3> DEFINE X == {keys[i] : i \in I}
    <3>1. \A i \in I : keys[i] \in X
      OBVIOUS
    <3> HIDE DEF X
    <3>2. Pick(keys, I) \in Seq(X)
      BY <2>1, <2>2, <3>1, PickSeq, Zenon
    <3>3. Pick(keys, I)[m] \in X
      BY <2>4, <3>2
    <3>4. PICK i \in I : Pick(keys, I)[m] = keys[i]
      BY <3>3 DEF X
    <3> QED  BY <1>5, <1>7, <3>4
  <2> QED  BY <2>1, <2>3, <2>4
<1>8. ASSUME NEW b \in Buckets
      PROVE  /\ minor'[b] \in Seq(AllKeys) /\ Len(minor'[b]) <= hp.threshold
             /\ \A n \in 1 .. Len(minor'[b]) : Home(minor'[b][n]) = b
             /\ \A x : /\ Cardinality({n \in F(b) : items[n].key = x}) \in Nat
                       /\ Count(minor'[b], x) = Count(minor[b], x) + Cardinality({n \in F(b) : items[n].key = x})
             /\ (\E n \in Spilled(items) : items[n].idx = b) => Len(minor'[b]) = hp.threshold
  <2> DEFINE new == Pick(keys, F(b))
  <2>1. minor'[b] = minor[b] \o new
    BY <1>3, <1>4
  <2>2. minor[b] \in Seq(AllKeys) /\ \A n \in 1 .. Len(minor[b]) : Home(minor[b][n]) = b
    BY DEF GoodBuckets
  <2>3. \A n \in F(b) : n \in DOMAIN items /\ items[n].idx = b
    BY <1>4
  <2>4. /\ IsFiniteSet(F(b)) /\ Cardinality(F(b)) \in Nat
        /\ Len(minor[b]) + Cardinality(F(b)) <= hp.threshold
        /\ (\E n \in Spilled(items) : items[n].idx = b)
             => Len(minor[b]) + Cardinality(F(b)) = hp.threshold
    BY FittingFacts
  <2> HIDE DEF F, new
  <2>5. /\ new \in Seq(AllKeys) /\ Len(new) = Cardinality(F(b))
        /\ \A x : Count(new, x) = Cardinality({n \in F(b) : items[n].key = x})
        /\ \A m \in 1 .. Len(new) : \E n \in F(b) : new[m] = items[n].key
    BY <1>7, <2>3 DEF new
  <2>6. minor'[b] \in Seq(AllKeys) /\ Len(minor'[b]) = Len(minor[b]) + Cardinality(F(b))
    <3>1. minor[b] \in Seq(AllKeys) /\ new \in Seq(AllKeys) /\ Len(new) = Cardinality(F(b))
      BY <2>2, <2>5
    <3>2. Len(minor[b] \o new) = Len(minor[b]) + Len(new) /\ minor[b] \o new \in Seq(AllKeys)
      BY <3>1, ConcatProperties, Zenon
    <3> QED  BY <2>1, <3>1, <3>2, Zenon
  <2>7. ASSUME NEW n \in 1 .. Len(minor'[b]) PROVE Home(minor'[b][n]) = b
    <3>1. CASE n <= Len(minor[b])
      BY <2>1, <2>2, <2>5, <3>1
    <3>2. CASE ~(n <= Len(minor[b]))
      <4>1. n - Len(minor[b]) \in 1 .. Len(new) /\ minor'[b][n] = new[n - Len(minor[b])]
        BY <2>1, <2>2, <2>5, <2>6, <3>2
      <4>2. PICK i \in F(b) : minor'[b][n] = items[i].key
        BY <2>5, <4>1
      <4> QED  BY <1>6, <2>3, <4>2
    <3> QED  BY <3>1, <3>2
  <2>8. ASSUME NEW x
        PROVE  /\ Cardinality({n \in F(b) : items[n].key = x}) \in Nat
               /\ Count(minor'[b], x) = Count(minor[b], x) + Cardinality({n \in F(b) : items[n].key = x})
    <3>1. Count(minor'[b], x) = Count(minor[b], x) + Count(new, x)
      BY <2>1, <2>2, <2>5, CountConcat
    <3>2. Count(new, x) \in Nat
      BY <2>5, CountType
    <3> QED  BY <2>5, <3>1, <3>2
  <2> QED  BY <2>4, <2>6, <2>7, <2>8
<1>9. ASSUME NEW x
      PROVE  /\ spill' \in Seq(AllKeys)
             /\ Cardinality({n \in Spilled(items) : items[n].key = x}) \in Nat
             /\ Count(spill', x) = Count(spill, x) + Cardinality({n \in Spilled(items) : items[n].key = x})
  <2> DEFINE new == Pick(keys, Spilled(items))
  <2>1. new \in Seq(AllKeys) /\ Count(new, x) = Cardinality({n \in Spilled(items) : items[n].key = x})
    <3>1. \A n \in Spilled(items) : n \in DOMAIN items
      BY <1>4
    <3> QED  BY <1>7, <3>1
  <2>2. spill \in Seq(AllKeys) /\ spill' = spill \o new
    BY <1>3 DEF GoodBuckets
  <2> HIDE DEF new
  <2>3. Count(spill', x) = Count(spill, x) + Count(new, x) /\ Count(new, x) \in Nat
    BY <2>1, <2>2, CountConcat, CountType
  <2> QED  BY <2>1, <2>2, <2>3
<1>10. GoodBuckets'
  <2>1. /\ AllKeys' = AllKeys /\ Buckets' = Buckets /\ hp' = hp
        /\ \A x : Home(x)' = Home(x)
    BY DEF AllKeys, Relation, Buckets, Home, MinorOf
  <2>2. minor' \in [Buckets -> Seq(AllKeys)]
    <3>1. DOMAIN minor' = Buckets /\ minor' = [b \in Buckets |-> minor'[b]]
      BY <1>3, <1>4
    <3> QED  BY <1>8, <3>1
  <2>3. spill' \in Seq(AllKeys)
    BY <1>9
  <2> QED  BY <1>8, <2>1, <2>2, <2>3 DEF GoodBuckets
<1>11. \A n \in Spilled(items) : Len(minor'[items[n].idx]) = hp.threshold
  BY <1>4, <1>6, <1>8
<1>12. \A b \in Buckets : \A x :
         {n \in F(b) : items[n].key = x} = {n \in Fitting(items) : items[n].idx = b /\ items[n].key = x}
  OBVIOUS
<1> HIDE DEF F
<1>13. \A b \in Buckets : \A x :
         /\ Cardinality({n \in Fitting(items) : items[n].idx = b /\ items[n].key = x}) \in Nat
         /\ Count(minor'[b], x) = Count(minor[b], x)
              + Cardinality({n \in Fitting(items) : items[n].idx = b /\ items[n].key = x})
  <2> SUFFICES ASSUME NEW b \in Buckets, NEW x
               PROVE  /\ Cardinality({n \in Fitting(items) : items[n].idx = b /\ items[n].key = x}) \in Nat
                      /\ Count(minor'[b], x) = Count(minor[b], x)
                           + Cardinality({n \in Fitting(items) : items[n].idx = b /\ items[n].key = x})
    OBVIOUS
  <2>1. {n \in Fitting(items) : items[n].idx = b /\ items[n].key = x} = {n \in F(b) : items[n].key = x}
    BY <1>12
  <2>2. /\ Cardinality({n \in F(b) : items[n].key = x}) \in Nat
        /\ Count(minor'[b], x) = Count(minor[b], x) + Cardinality({n \in F(b) : items[n].key = x})
    BY <1>8
  <2> QED  BY <2>1, <2>2, Zenon
<1>14. \A x :
         /\ Cardinality({n \in Spilled(items) : items[n].key = x}) \in Nat
         /\ Count(spill', x) = Count(spill, x) + Cardinality({n \in Spilled(items) : items[n].key = x})
  BY <1>9
<1> QED  BY <1>10, <1>11, <1>13, <1>14, Zenon
-----------------------------------------------------------------------------
(* The lanes of a register.                                                *)

KeyLanes(lanes, x) == {j \in Held(lanes) : lanes[j].key = x}
LaneCount(lanes, x) == Cardinality(KeyLanes(lanes, x))

Typed(lanes, X) == lanes \in [1 .. Lanes -> {NoKey} \cup X]
Packed(lanes, n) == Held(lanes) = 1 .. n

LEMMA LaneNumber ==
  /\ Lanes \in Nat /\ Lanes > 0 /\ IsFiniteSet(1 .. Lanes) /\ Cardinality(1 .. Lanes) = Lanes
  /\ SIMDStateSize \in Nat /\ SIMDStateSize > 0
<1>1. Lanes \in Nat /\ Lanes > 0 /\ SIMDStateSize \in Nat /\ SIMDStateSize > 0
  BY LearnedDistributeAssumption
<1> QED  BY <1>1, FS_Interval

LEMMA LaneFinite ==
  ASSUME NEW I, \A i \in I : i \in 1 .. Lanes
  PROVE  IsFiniteSet(I) /\ Cardinality(I) \in Nat /\ Cardinality(I) <= Lanes /\ \A i \in I : i \in Int
<1>1. I \in SUBSET (1 .. Lanes)
  OBVIOUS
<1>2. IsFiniteSet(I) /\ Cardinality(I) <= Cardinality(1 .. Lanes)
  BY <1>1, LaneNumber, FS_Subset, Zenon
<1>3. Cardinality(I) \in Nat
  BY <1>2, FS_CardinalityType, Zenon
<1> QED  BY <1>2, <1>3, LaneNumber

LEMMA HeldFinite ==
  ASSUME NEW lanes
  PROVE  /\ IsFiniteSet(Held(lanes)) /\ Cardinality(Held(lanes)) \in Nat
         /\ Cardinality(Held(lanes)) <= Lanes
         /\ \A i \in Held(lanes) : i \in Int /\ i \in 1 .. Lanes
         /\ \A x : IsFiniteSet(KeyLanes(lanes, x)) /\ LaneCount(lanes, x) \in Nat
<1>1. \A i \in Held(lanes) : i \in 1 .. Lanes
  BY DEF Held
<1>2. ASSUME NEW x PROVE IsFiniteSet(KeyLanes(lanes, x)) /\ LaneCount(lanes, x) \in Nat
  <2>1. \A i \in KeyLanes(lanes, x) : i \in 1 .. Lanes
    BY <1>1 DEF KeyLanes
  <2> QED  BY <2>1, LaneFinite, Zenon DEF LaneCount
<1>3. /\ IsFiniteSet(Held(lanes)) /\ Cardinality(Held(lanes)) \in Nat
      /\ Cardinality(Held(lanes)) <= Lanes /\ \A i \in Held(lanes) : i \in Int
  BY <1>1, LaneFinite, Zenon
<1> QED  BY <1>1, <1>2, <1>3

\* The keys of a register in a row.
LEMMA InOrderFacts ==
  ASSUME NEW X, NEW lanes, \A j \in Held(lanes) : lanes[j] \in X
  PROVE  /\ InOrder(lanes) \in Seq(X) /\ Len(InOrder(lanes)) = Cardinality(Held(lanes))
         /\ \A n \in DOMAIN InOrder(lanes) : InOrder(lanes)[n] # NoKey
         /\ \A x : Cardinality({n \in DOMAIN InOrder(lanes) : InOrder(lanes)[n].key = x}) = LaneCount(lanes, x)
<1> DEFINE H == Held(lanes)
           c == Cardinality(H)
           row == Pick(lanes, H)
<1>1. InOrder(lanes) = row
  BY DEF InOrder
<1>2. IsFiniteSet(H) /\ \A j \in H : j \in Int
  BY HeldFinite
<1>3. row \in Seq(X) /\ Len(row) = c /\ c \in Nat
  <2> HIDE DEF H
  <2>1. \A j \in H : lanes[j] \in X
    BY DEF H
  <2> QED  BY <1>2, <2>1, PickSeq, Zenon
<1>4. PICK A, g : A = 1 .. c /\ g \in Bijection(A, H) /\ \A m \in A : row[m] = lanes[g[m]]
  <2> HIDE DEF H
  <2>1. PICK g \in Bijection(1 .. c, H) : \A m \in 1 .. c : row[m] = lanes[g[m]]
    BY <1>2, PickFacts
  <2> QED  BY <2>1
<1>5. IsFiniteSet(A) /\ g \in [A -> H] /\ DOMAIN row = A
  BY <1>3, <1>4, FS_Interval DEF Bijection, Injection
<1>6. \A j \in H : lanes[j] # NoKey
  BY DEF Held
<1>7. ASSUME NEW x
      PROVE  Cardinality({n \in DOMAIN row : row[n].key = x}) = LaneCount(lanes, x)
  <2> DEFINE K == {n \in DOMAIN row : row[n].key = x}
             J == KeyLanes(lanes, x)
  <2>1. \A j \in J : j \in H
    BY DEF KeyLanes
  <2>2. \A n \in K : n \in A
    BY <1>5
  <2>3. \A n \in A : n \in K <=> g[n] \in J
    BY <1>4, <1>5 DEF KeyLanes
  <2>4. g \in Bijection(A, H) /\ IsFiniteSet(A)
    BY <1>4, <1>5
  <2> HIDE DEF H, K, J
  <2>5. Cardinality(K) = Cardinality(J)
    BY <2>1, <2>2, <2>3, <2>4, BijectionCount
  <2> QED  BY <2>5 DEF K, J, LaneCount
<1>8. \A n \in DOMAIN row : row[n] # NoKey
  BY <1>4, <1>5, <1>6
<1> HIDE DEF row
<1> QED  BY <1>1, <1>3, <1>7, <1>8

\* A register packed into its first lanes.
LEMMA CompressFacts ==
  ASSUME NEW X, NEW lanes, \A j \in Held(lanes) : lanes[j] \in X
  PROVE  /\ Compress(lanes) \in [1 .. Lanes -> {NoKey} \cup X]
         /\ Held(Compress(lanes)) = 1 .. Cardinality(Held(lanes))
         /\ \A x : LaneCount(Compress(lanes), x) = LaneCount(lanes, x)
<1> DEFINE row == InOrder(lanes)
           c == Cardinality(Held(lanes))
<1>1. /\ row \in Seq(X) /\ Len(row) = c
      /\ \A n \in DOMAIN row : row[n] # NoKey
      /\ \A x : Cardinality({n \in DOMAIN row : row[n].key = x}) = LaneCount(lanes, x)
  BY InOrderFacts
<1>2. Lanes \in Nat /\ c \in Nat /\ c <= Lanes
  BY HeldFinite, LaneNumber
<1>3. Compress(lanes) = [j \in 1 .. Lanes |-> IF j <= c THEN row[j] ELSE NoKey]
  BY DEF Compress, First
<1> HIDE DEF row, c
<1>4. DOMAIN row = 1 .. c /\ \A j \in 1 .. c : row[j] \in X /\ row[j] # NoKey
  BY <1>1, <1>2
<1>5. Compress(lanes) \in [1 .. Lanes -> {NoKey} \cup X]
  BY <1>2, <1>3, <1>4
<1>6. Held(Compress(lanes)) = 1 .. c
  BY <1>2, <1>3, <1>4 DEF Held
<1>7. ASSUME NEW x PROVE LaneCount(Compress(lanes), x) = LaneCount(lanes, x)
  <2>1. KeyLanes(Compress(lanes), x) = {n \in DOMAIN row : row[n].key = x}
    BY <1>2, <1>3, <1>4, <1>6 DEF KeyLanes
  <2> QED  BY <1>1, <2>1 DEF LaneCount
<1> QED  BY <1>5, <1>6, <1>7 DEF c

\* Some lanes are scattered, the others are left.
LEMMA LeftFacts ==
  ASSUME NEW X, NEW lanes, \A j \in Held(lanes) : lanes[j] \in X
  PROVE  /\ \A j \in Held(Left(lanes)) : Left(lanes)[j] \in X
         /\ \A j \in Held(Scattered(lanes)) : Scattered(lanes)[j] \in X
         /\ \A x : LaneCount(Left(lanes), x) + LaneCount(Scattered(lanes), x) = LaneCount(lanes, x)
<1>1. NoConflict(lanes) \subseteq Held(lanes) /\ Held(lanes) \subseteq 1 .. Lanes
  BY DEF NoConflict, Held
<1>2. Held(Left(lanes)) = Held(lanes) \ NoConflict(lanes) /\ Held(Scattered(lanes)) = NoConflict(lanes)
  BY <1>1 DEF Held, Left, Scattered
<1>3. /\ \A j \in Held(Left(lanes)) : Left(lanes)[j] = lanes[j]
      /\ \A j \in Held(Scattered(lanes)) : Scattered(lanes)[j] = lanes[j]
  BY <1>1, <1>2 DEF Left, Scattered
<1>4. ASSUME NEW x
      PROVE  LaneCount(Left(lanes), x) + LaneCount(Scattered(lanes), x) = LaneCount(lanes, x)
  <2> DEFINE A == KeyLanes(Left(lanes), x)
             B == KeyLanes(Scattered(lanes), x)
             C == KeyLanes(lanes, x)
  <2>1. C = A \cup B /\ \A j \in A : j \notin B
    BY <1>1, <1>2, <1>3 DEF KeyLanes
  <2>2. IsFiniteSet(A) /\ IsFiniteSet(B)
    BY HeldFinite
  <2> HIDE DEF A, B, C
  <2>3. Cardinality(C) = Cardinality(A) + Cardinality(B)
    BY <2>1, <2>2, DisjointCount
  <2> QED  BY <2>3 DEF A, B, C, LaneCount
<1> QED  BY <1>1, <1>2, <1>3, <1>4

\* Packed lanes are appended to packed lanes.
LEMMA AppendFacts ==
  ASSUME NEW X, NEW res, NEW from, Typed(res, X), Typed(from, X),
         NEW m \in Nat, NEW n \in Nat, Packed(res, m), Packed(from, n), m + n <= Lanes
  PROVE  LET E == First(n + m, Expand(res, from))
         IN  /\ Typed(E, X) /\ Packed(E, n + m)
             /\ \A x : LaneCount(E, x) = LaneCount(res, x) + LaneCount(from, x)
<1> DEFINE E == First(n + m, Expand(res, from))
<1>1. Lanes \in Nat
  BY LaneNumber
<1>a. /\ res \in [1 .. Lanes -> {NoKey} \cup X] /\ from \in [1 .. Lanes -> {NoKey} \cup X]
      /\ Held(res) = 1 .. m /\ Held(from) = 1 .. n
  BY DEF Typed, Packed
<1>2. /\ \A j \in 1 .. m : res[j] # NoKey
      /\ \A j \in 1 .. Lanes : j > m => res[j] = NoKey
      /\ \A j \in 1 .. n : from[j] # NoKey
  BY <1>1, <1>a DEF Held
<1>3. ASSUME NEW j \in 1 .. Lanes, j > m
      PROVE  Cardinality({i \in 1 .. j : res[i] = NoKey}) = j - m
  <2>1. {i \in 1 .. j : res[i] = NoKey} = m + 1 .. j
    BY <1>1, <1>2, <1>3
  <2>2. Cardinality(m + 1 .. j) = j - m
    <3>1. m + 1 \in Int /\ j \in Int /\ ~(m + 1 > j)
      BY <1>1, <1>3
    <3>2. Cardinality(m + 1 .. j) = j - (m + 1) + 1
      BY <3>1, FS_Interval
    <3> QED  BY <3>1, <3>2
  <2> QED  BY <2>1, <2>2
<1>4. ASSUME NEW j \in 1 .. Lanes
      PROVE  E[j] = IF j <= m THEN res[j] ELSE IF j <= n + m THEN from[j - m] ELSE NoKey
  <2>1. E[j] = IF j <= n + m THEN Expand(res, from)[j] ELSE NoKey
    BY DEF First
  <2>2. Expand(res, from)[j] = IF res[j] # NoKey THEN res[j]
                               ELSE from[Cardinality({i \in 1 .. j : res[i] = NoKey})]
    BY DEF Expand
  <2>3. CASE j <= m
    BY <1>2, <2>1, <2>2, <2>3
  <2>4. CASE j > m
    <3>1. Expand(res, from)[j] = from[j - m]
      BY <1>2, <1>3, <2>2, <2>4
    <3> QED  BY <2>1, <2>4, <3>1
  <2> QED  BY <1>1, <2>3, <2>4
<1>5. E = [j \in 1 .. Lanes |-> E[j]]
  BY DEF First
<1> HIDE DEF E
<1>6. ASSUME NEW j \in 1 .. Lanes PROVE E[j] \in {NoKey} \cup X
  BY <1>1, <1>4, <1>a
<1>7. E \in [1 .. Lanes -> {NoKey} \cup X]
  BY <1>5, <1>6
<1>8. Held(E) = 1 .. (n + m)
  BY <1>1, <1>2, <1>4 DEF Held
<1>9. ASSUME NEW x PROVE LaneCount(E, x) = LaneCount(res, x) + LaneCount(from, x)
  <2> DEFINE A == KeyLanes(res, x)
             B == KeyLanes(from, x)
             C == {j \in 1 .. Lanes : m < j /\ j <= n + m /\ E[j].key = x}
             D == KeyLanes(E, x)
  <2>1. D = A \cup C /\ \A a \in A : a \notin C
    BY <1>1, <1>4, <1>8, <1>a DEF KeyLanes
  <2>2. /\ \A i \in Int : i \in C <=> i - m \in B
        /\ \A i \in B : i \in Int
        /\ \A i \in C : i \in Int
    BY <1>1, <1>4, <1>a DEF KeyLanes
  <2>3. IsFiniteSet(A) /\ IsFiniteSet(B)
    BY HeldFinite
  <2> HIDE DEF A, B, C, D
  <2>4. IsFiniteSet(C) /\ Cardinality(C) = Cardinality(B)
    <3>1. m \in Int
      OBVIOUS
    <3> QED  BY <2>2, <2>3, <3>1, ShiftCount, Zenon
  <2>5. Cardinality(D) = Cardinality(A) + Cardinality(C)
    BY <2>1, <2>3, <2>4, DisjointCount
  <2> QED  BY <2>4, <2>5 DEF A, B, D, LaneCount
<1> QED  BY <1>7, <1>8, <1>9 DEF E, Typed, Packed

\* A register is filled up from packed lanes.
LEMMA RefillFacts ==
  ASSUME NEW X, NEW left, NEW res, Typed(left, X), Typed(res, X),
         NEW m \in Nat, Packed(res, m), Cardinality(Held(left)) + m >= Lanes
  PROVE  LET taken == Lanes - Cardinality(Held(left))
             E == Expand(left, res)
             rest == [j \in 1 .. Lanes |-> IF j <= taken THEN NoKey ELSE res[j]]
         IN  /\ Typed(E, X) /\ Packed(E, Lanes)
             /\ \A j \in Held(rest) : rest[j] \in X
             /\ Held(rest) \subseteq Held(res)
             /\ \A x : LaneCount(E, x) + LaneCount(rest, x) = LaneCount(left, x) + LaneCount(res, x)
<1> DEFINE n == Cardinality(Held(left))
           taken == Lanes - n
           E == Expand(left, res)
           rest == [j \in 1 .. Lanes |-> IF j <= taken THEN NoKey ELSE res[j]]
           F == {j \in 1 .. Lanes : left[j] = NoKey}
<1>a. /\ left \in [1 .. Lanes -> {NoKey} \cup X] /\ res \in [1 .. Lanes -> {NoKey} \cup X]
      /\ Held(res) = 1 .. m
  BY DEF Typed, Packed
<1>1. /\ Lanes \in Nat /\ n \in Nat /\ taken \in Nat /\ taken <= m /\ m <= Lanes
  <2>1. Lanes \in Nat /\ n \in Nat /\ n <= Lanes
    BY HeldFinite, LaneNumber
  <2>2. Cardinality(Held(res)) = m /\ Cardinality(Held(res)) <= Lanes
    BY <1>a, HeldFinite, FS_Interval
  <2> QED  BY <2>1, <2>2
<1>2. IsFiniteSet(F) /\ Cardinality(F) = taken /\ \A j \in F : j \in Int
  <2>1. \A j \in F : j \in 1 .. Lanes
    OBVIOUS
  <2>2. 1 .. Lanes = F \cup Held(left) /\ \A j \in F : j \notin Held(left)
    BY DEF Held
  <2> HIDE DEF F, n
  <2>3. IsFiniteSet(F) /\ Cardinality(F) \in Nat /\ \A j \in F : j \in Int
    BY <2>1, LaneFinite, Zenon
  <2>4. Cardinality(F \cup Held(left)) = Cardinality(F) + Cardinality(Held(left))
    BY <2>2, <2>3, HeldFinite, DisjointCount
  <2>5. Lanes = Cardinality(F) + n
    BY <2>2, <2>4, LaneNumber DEF n
  <2> QED  BY <1>1, <2>3, <2>5
<1>3. PICK A, r : /\ A = 1 .. taken /\ r \in Bijection(F, A)
                  /\ r = [j \in F |-> Cardinality({i \in F : i <= j})]
  <2> HIDE DEF F, n, taken
  <2>1. [j \in F |-> Cardinality({i \in F : i <= j})] \in Bijection(F, 1 .. Cardinality(F))
    BY <1>2, Ranks
  <2> QED  BY <1>2, <2>1
<1>4. r \in [F -> A]
  BY <1>3 DEF Bijection, Injection
<1>5. ASSUME NEW j \in F PROVE E[j] = res[r[j]]
  <2>1. {i \in 1 .. j : left[i] = NoKey} = {i \in F : i <= j}
    BY <1>1
  <2>2. r[j] = Cardinality({i \in F : i <= j})
    BY <1>3
  <2>3. E[j] = res[Cardinality({i \in 1 .. j : left[i] = NoKey})]
    BY DEF Expand
  <2> QED  BY <2>1, <2>2, <2>3
<1>6. \A j \in 1 .. Lanes : j \notin F => E[j] = left[j] /\ left[j] # NoKey
  BY DEF Expand
<1>7. E = [j \in 1 .. Lanes |-> E[j]]
  BY DEF Expand
<1>8. \A i \in A : i \in 1 .. Lanes /\ i \in Held(res) /\ res[i] # NoKey /\ res[i] \in X
  <2>1. \A i \in A : i \in 1 .. m /\ i \in 1 .. Lanes
    BY <1>1, <1>3
  <2> QED  BY <1>a, <2>1 DEF Held
<1>9. \A j \in F : r[j] \in A
  BY <1>4
<1>10. ASSUME NEW j \in 1 .. Lanes PROVE E[j] \in {NoKey} \cup X /\ E[j] # NoKey
  <2>1. CASE j \in F
    BY <1>5, <1>8, <1>9, <2>1
  <2>2. CASE j \notin F
    BY <1>6, <1>a, <2>2
  <2> QED  BY <2>1, <2>2
<1>11. E \in [1 .. Lanes -> {NoKey} \cup X] /\ Held(E) = 1 .. Lanes
  <2> HIDE DEF E
  <2> QED  BY <1>7, <1>10 DEF Held
<1>12. \A j \in Held(rest) : j > taken /\ j \in 1 .. Lanes /\ rest[j] = res[j] /\ res[j] # NoKey
  BY <1>1 DEF Held
<1>13. \A j \in Held(rest) : rest[j] \in X /\ j \in Held(res)
  <2> SUFFICES ASSUME NEW j \in Held(rest) PROVE rest[j] \in X /\ j \in Held(res)
    OBVIOUS
  <2>1. j \in 1 .. Lanes /\ rest[j] = res[j] /\ res[j] # NoKey
    BY <1>12
  <2> HIDE DEF rest
  <2> QED  BY <1>a, <2>1 DEF Held
<1>14. \A j \in Held(res) : j \notin A => j \in Held(rest)
  BY <1>1, <1>3 DEF Held
<1>15. ASSUME NEW x
       PROVE  LaneCount(E, x) + LaneCount(rest, x) = LaneCount(left, x) + LaneCount(res, x)
  <2> DEFINE L == KeyLanes(left, x)
             N == {j \in F : res[r[j]].key = x}
             T == {i \in A : res[i].key = x}
             R == KeyLanes(rest, x)
  <2>1. KeyLanes(E, x) = L \cup N /\ \A j \in L : j \notin N
    <3>1. \A j \in 1 .. Lanes : j \in Held(left) <=> j \notin F
      BY DEF Held
    <3> HIDE DEF E, F
    <3>2. \A j \in F : j \in 1 .. Lanes
      BY DEF F
    <3>3. \A j \in Held(left) : j \in 1 .. Lanes
      BY DEF Held
    <3> QED  BY <1>5, <1>6, <1>11, <3>1, <3>2, <3>3 DEF KeyLanes
  <2>2. KeyLanes(res, x) = T \cup R /\ \A i \in T : i \notin R
    <3>1. \A j \in Held(rest) : j \notin A
      BY <1>3, <1>12
    <3> HIDE DEF rest
    <3> QED  BY <1>8, <1>12, <1>13, <1>14, <3>1 DEF KeyLanes
  <2>3. IsFiniteSet(L) /\ IsFiniteSet(R)
    BY HeldFinite
  <2>4. IsFiniteSet(T) /\ IsFiniteSet(N)
    <3>1. \A i \in T : i \in 1 .. Lanes
      BY <1>8
    <3>2. \A i \in N : i \in 1 .. Lanes
      OBVIOUS
    <3> HIDE DEF T, N
    <3> QED  BY <3>1, <3>2, LaneFinite, Zenon
  <2>5. Cardinality(N) = Cardinality(T)
    <3>1. \A i \in T : i \in A
      OBVIOUS
    <3>2. (\A j \in N : j \in F) /\ \A j \in F : j \in N <=> r[j] \in T
      BY <1>9
    <3>3. r \in Bijection(F, A) /\ IsFiniteSet(F)
      BY <1>2, <1>3
    <3> HIDE DEF T, N, F
    <3> QED  BY <3>1, <3>2, <3>3, BijectionCount
  <2> HIDE DEF L, N, T, R
  <2>6. Cardinality(KeyLanes(E, x)) = Cardinality(L) + Cardinality(N)
        /\ Cardinality(L) \in Nat /\ Cardinality(N) \in Nat
    BY <2>1, <2>3, <2>4, DisjointCount
  <2>7. Cardinality(KeyLanes(res, x)) = Cardinality(T) + Cardinality(R)
        /\ Cardinality(T) \in Nat /\ Cardinality(R) \in Nat
    BY <2>2, <2>3, <2>4, DisjointCount
  <2>8. Cardinality(KeyLanes(E, x)) + Cardinality(R) = Cardinality(L) + Cardinality(KeyLanes(res, x))
    BY <2>5, <2>6, <2>7
  <2> QED  BY <2>8 DEF LaneCount, L, R
<1> HIDE DEF E, rest
<1>16. Typed(E, X) /\ Packed(E, Lanes)
  BY <1>11 DEF Typed, Packed
<1> QED  BY <1>13, <1>15, <1>16 DEF E, rest
-----------------------------------------------------------------------------
(* The registers.                                                          *)

LEMMA SteadyModel ==
  ASSUME UNCHANGED <<job, model, bucket>>
  PROVE  /\ AllKeys' = AllKeys /\ Leafed' = Leafed /\ Routed' = Routed /\ Lane' = Lane
         /\ Buckets' = Buckets /\ \A x : Home(x)' = Home(x)
<1>1. AllKeys' = AllKeys /\ Buckets' = Buckets
  BY DEF AllKeys, Relation, Buckets
<1>2. \A x : Home(x)' = Home(x)
  BY DEF Home, MinorOf
<1>3. Leafed' = Leafed
  BY <1>1 DEF Leafed
<1>4. Routed' = Routed
  BY <1>1 DEF Routed, Home, MinorOf
<1> QED  BY <1>1, <1>2, <1>3, <1>4 DEF Lane

LEMMA EmptyFacts ==
  /\ Held(Empty) = {} /\ Empty \in [1 .. Lanes -> {NoKey}]
  /\ \A x : KeyLanes(Empty, x) = {}
  BY DEF Held, Empty, KeyLanes

LEMMA LaneFacts ==
  /\ \A lane \in Leafed : lane.key \in AllKeys /\ lane.idx = LeafOf(model, lane.key) /\ lane # NoKey
  /\ \A lane \in Routed : lane.key \in AllKeys /\ lane.idx = Home(lane.key) /\ lane # NoKey
  /\ \A x \in AllKeys : /\ [key |-> x, idx |-> LeafOf(model, x)] \in Leafed
                        /\ [key |-> x, idx |-> MinorOf(LeafOf(model, x), x)] \in Routed
  BY DEF Leafed, Routed, NoKey, Home

\* The registers after a change of register k and of the residue.
LEMMA RegistersUpdate ==
  ASSUME RegistersInv, Distributing, job.imv, UNCHANGED <<job, model, bucket>>,
         NEW reg, GoodRegister(reg), NEW res, GoodResidue(res),
         DOMAIN state' = 0 .. SIMDStateSize, state'[Residue] = res,
         \A r \in Registers : state'[r] = IF r = k THEN reg ELSE state[r],
         cur' \in Nat, k' \in Registers,
         \/ done' = done /\ (reg.stage = 3 <=> state[k].stage = 3)
         \/ done' = done + 1 /\ reg.stage = 3 /\ state[k].stage # 3
  PROVE  RegistersInv'
<1>1. /\ DOMAIN state = 0 .. SIMDStateSize /\ k \in Registers
      /\ \A r \in Registers : GoodRegister(state[r])
      /\ done = Cardinality({r \in Registers : state[r].stage = 3})
  BY DEF RegistersInv
<1>2. Leafed' = Leafed /\ Routed' = Routed /\ Lane' = Lane
  BY SteadyModel
<1>3. ASSUME NEW r \in Registers PROVE GoodRegister(state[r])'
  <2>1. PICK new : new = state'[r]
    OBVIOUS
  <2>2. GoodRegister(new)
    BY <1>1, <2>1
  <2> QED  BY <1>2, <2>1, <2>2 DEF GoodRegister
<1>4. GoodResidue(state[Residue])'
  BY <1>2 DEF GoodResidue, Residue
<1>5. done' = Cardinality({r \in Registers : state[r].stage = 3}')
  <2> DEFINE D == {r \in Registers : state[r].stage = 3}
             D1 == {r \in Registers : state'[r].stage = 3}
  <2>1. IsFiniteSet(D)
    <3>1. IsFiniteSet(0 .. SIMDStateSize - 1)
      BY LaneNumber, FS_Interval
    <3>2. D \in SUBSET (0 .. SIMDStateSize - 1)
      BY DEF Registers
    <3> HIDE DEF D
    <3> QED  BY <3>1, <3>2, FS_Subset, Zenon
  <2>2. CASE reg.stage = 3 <=> state[k].stage = 3
    <3>1. D1 = D
      BY <1>1, <2>2
    <3>2. done' = done
      BY <2>2
    <3> QED  BY <1>1, <3>1, <3>2
  <2>3. CASE ~(reg.stage = 3 <=> state[k].stage = 3)
    <3>1. reg.stage = 3 /\ state[k].stage # 3 /\ done' = done + 1
      BY <2>3
    <3>2. D1 = D \cup {k} /\ k \notin D
      BY <1>1, <3>1
    <3> HIDE DEF D, D1
    <3>3. Cardinality(D1) = Cardinality(D) + 1
      BY <2>1, <3>2, FS_AddElement
    <3> QED  BY <1>1, <3>1, <3>3 DEF D, D1
  <2> QED  BY <2>2, <2>3
<1> QED  BY <1>3, <1>4, <1>5 DEF RegistersInv, Registers

LEMMA RegisterFacts ==
  ASSUME RegistersInv, Distributing
  PROVE  /\ k \in Registers /\ Following(k) \in Registers /\ k # Residue /\ Residue \notin Registers
         /\ DOMAIN state = 0 .. SIMDStateSize /\ k \in DOMAIN state /\ Residue \in DOMAIN state
         /\ \A r \in DOMAIN state : r \in Registers \/ r = Residue
         /\ \A r \in Registers : r # Residue /\ r \in DOMAIN state
         /\ \A r \in Registers : GoodRegister(state[r])
         /\ GoodResidue(state[Residue]) /\ cur \in Nat
         /\ NumResidue \in Nat /\ NumResidue < Lanes /\ Held(state[Residue].lanes) = 1 .. NumResidue
  BY LaneNumber, HeldFinite DEF RegistersInv, Registers, Residue, Following, NumResidue, GoodResidue

ItemCount(items, x) == Cardinality({n \in DOMAIN items : items[n].key = x})

\* A turn that places nothing.
LEMMA TurnFacts ==
  ASSUME RegistersInv, Distributing, job.imv, UNCHANGED <<job, model, bucket>>,
         Finish \/ PassBy \/ PredictFull \/ PredictPartial
  PROVE  /\ RegistersInv' /\ UNCHANGED <<p, cur, minor, spill>> /\ DOMAIN state' = 0 .. SIMDStateSize
         /\ \A r \in 0 .. SIMDStateSize :
              /\ Held(state'[r].lanes) = Held(state[r].lanes)
              /\ \A j \in Held(state[r].lanes) : state'[r].lanes[j].key = state[r].lanes[j].key
<1>1. /\ k \in Registers /\ Following(k) \in Registers /\ k # Residue
      /\ DOMAIN state = 0 .. SIMDStateSize /\ k \in DOMAIN state /\ Residue \in DOMAIN state
      /\ GoodRegister(state[k]) /\ GoodResidue(state[Residue]) /\ cur \in Nat
      /\ \A r \in Registers : r # Residue /\ r \in DOMAIN state
  BY RegisterFacts
<1>2. CASE Finish
  <2> DEFINE reg == [state[k] EXCEPT !.stage = 3]
  <2>1. /\ state[k].stage # 3 /\ Held(state[k].lanes) = {}
        /\ state' = [state EXCEPT ![k].stage = 3] /\ done' = done + 1 /\ k' = Following(k)
        /\ UNCHANGED <<p, cur, minor, spill>>
    BY <1>2 DEF Finish, Finishes
  <2>2. state' = [state EXCEPT ![k] = reg]
    BY <2>1
  <2>3. GoodRegister(reg) /\ reg.stage = 3 /\ reg.lanes = state[k].lanes
    BY <1>1, <2>1 DEF GoodRegister
  <2> HIDE DEF reg
  <2>4. RegistersInv'
    BY <1>1, <2>1, <2>2, <2>3, RegistersUpdate
  <2> QED  BY <1>1, <2>1, <2>2, <2>3, <2>4
<1>3. CASE PassBy
  <2>1. state' = state /\ done' = done /\ k' = Following(k) /\ UNCHANGED <<p, cur, minor, spill>>
    BY <1>3 DEF PassBy
  <2>2. RegistersInv'
    BY <1>1, <2>1, RegistersUpdate
  <2> QED  BY <1>1, <2>1, <2>2
<1>4. CASE PredictFull \/ PredictPartial
  <2> DEFINE old == state[k].lanes
             new == [j \in 1 .. Lanes |-> IF old[j] = NoKey THEN NoKey
                                          ELSE [key |-> old[j].key, idx |-> MinorOf(old[j].idx, old[j].key)]]
             reg == [stage |-> 2, lanes |-> new]
  <2>1. /\ state[k].stage = 0 /\ done' = done /\ k' = Following(k) /\ UNCHANGED <<p, cur, minor, spill>>
        /\ state' = [state EXCEPT ![k] = reg]
    BY <1>4 DEF PredictFull, PredictPartial, Predict, Runs
  <2>2. old \in [1 .. Lanes -> {NoKey} \cup Leafed] /\ Held(old) # {}
        /\ state[k] \in [stage : 0 .. 3, lanes : [1 .. Lanes -> Lane]]
    BY <1>1, <2>1 DEF GoodRegister
  <2>3. /\ state'[Residue] = state[Residue] /\ DOMAIN state' = 0 .. SIMDStateSize
        /\ \A r \in Registers : state'[r] = IF r = k THEN reg ELSE state[r]
        /\ \A r \in 0 .. SIMDStateSize : state'[r] = IF r = k THEN reg ELSE state[r]
    BY <1>1, <2>1
  <2>4. ASSUME NEW j \in 1 .. Lanes
        PROVE  /\ new[j] \in {NoKey} \cup Routed
               /\ new[j] = NoKey <=> old[j] = NoKey
               /\ new[j] # NoKey => new[j].key = old[j].key
    <3>1. CASE old[j] = NoKey
      BY <3>1
    <3>2. CASE old[j] # NoKey
      <4>1. old[j] \in Leafed
        BY <2>2, <3>2
      <4>2. old[j].key \in AllKeys /\ old[j].idx = LeafOf(model, old[j].key)
        BY <4>1, LaneFacts
      <4>3. new[j] = [key |-> old[j].key, idx |-> MinorOf(old[j].idx, old[j].key)]
        BY <3>2
      <4>4. new[j] \in Routed
        BY <4>2, <4>3, LaneFacts
      <4> QED  BY <3>2, <4>3, <4>4, LaneFacts
    <3> QED  BY <3>1, <3>2
  <2>5. new \in [1 .. Lanes -> {NoKey} \cup Routed] /\ Held(new) = Held(old)
        /\ \A j \in Held(old) : new[j].key = old[j].key
    <3>1. new = [j \in 1 .. Lanes |-> new[j]]
      OBVIOUS
    <3> HIDE DEF new
    <3> QED  BY <2>4, <3>1 DEF Held
  <2>6. reg.stage = 2 /\ reg.lanes = new
    OBVIOUS
  <2>7. GoodRegister(reg)
    <3> HIDE DEF new
    <3>1. new \in [1 .. Lanes -> Lane]
      BY <2>5 DEF Lane
    <3> QED  BY <2>2, <2>5, <3>1 DEF GoodRegister
  <2> HIDE DEF reg, new
  <2>8. RegistersInv'
    BY <1>1, <2>1, <2>3, <2>6, <2>7, RegistersUpdate
  <2> QED  BY <1>1, <2>1, <2>3, <2>5, <2>6, <2>8
<1> QED  BY <1>2, <1>3, <1>4

LEMMA SizeFacts ==
  ASSUME SourceInv, Distributing
  PROVE  Size \in Nat /\ p \in Threads /\ source \in [Threads -> Seq(AllKeys)]
         /\ \A n \in 1 .. Size : Keys[n] \in AllKeys
<1>1. source \in [Threads -> Seq(AllKeys)] /\ p \in Threads
  BY DEF SourceInv, Distributing
<1>2. Keys \in Seq(AllKeys)
  BY <1>1 DEF Keys
<1> QED  BY <1>1, <1>2 DEF Size

\* A register takes the next keys of the partition.
LEMMA FetchFacts ==
  ASSUME SourceInv, RegistersInv, Distributing, job.imv, UNCHANGED <<job, model, bucket>>,
         FetchFull \/ FetchPartial
  PROVE  /\ RegistersInv' /\ UNCHANGED <<p, minor, spill>> /\ cur' = cur + Lanes
         /\ DOMAIN state' = 0 .. SIMDStateSize /\ Held(state[k].lanes) = {}
         /\ \A r \in 0 .. SIMDStateSize : r # k => state'[r] = state[r]
         /\ \E n \in 1 .. Lanes :
              /\ cur + n <= Size /\ (n = Lanes \/ cur + n = Size)
              /\ Held(state'[k].lanes) = 1 .. n
              /\ \A j \in 1 .. n : state'[k].lanes[j].key = Keys[cur + j]
<1>1. /\ k \in Registers /\ Following(k) \in Registers /\ k # Residue
      /\ DOMAIN state = 0 .. SIMDStateSize /\ k \in DOMAIN state /\ Residue \in DOMAIN state
      /\ GoodRegister(state[k]) /\ GoodResidue(state[Residue]) /\ cur \in Nat
      /\ \A r \in Registers : r # Residue /\ r \in DOMAIN state
  BY RegisterFacts
<1>2. Lanes \in Nat /\ Lanes > 0 /\ Size \in Nat /\ \A n \in 1 .. Size : Keys[n] \in AllKeys
  BY LaneNumber, SizeFacts
<1>3. state[k].stage = 1 /\ Held(state[k].lanes) = {} /\ ~NoMoreInput
  <2>1. Runs(1)
    BY DEF FetchFull, FetchPartial
  <2> QED  BY <1>1, <2>1 DEF Runs, Finishes, GoodRegister
<1>4. PICK n \in 1 .. Lanes : Fetch(n) /\ cur + n <= Size /\ (n = Lanes \/ cur + n = Size)
  <2>1. CASE FetchFull
    <3>1. Lanes \in 1 .. Lanes
      BY <1>2
    <3> QED  BY <1>2, <2>1, <3>1 DEF FetchFull
  <2>2. CASE FetchPartial
    <3>1. cur + Lanes > Size /\ Fetch(Size - cur) /\ cur < Size
      BY <1>1, <1>2, <1>3, <2>2 DEF FetchPartial, NoMoreInput
    <3>2. PICK n \in 1 .. Lanes : n = Size - cur
      BY <1>1, <1>2, <3>1
    <3>3. Fetch(n)
      BY <3>1, <3>2, Zenon
    <3>4. cur + n = Size /\ cur + n <= Size
      BY <1>1, <1>2, <3>2
    <3> QED  BY <3>3, <3>4
  <2> QED  BY <2>1, <2>2
<1> DEFINE reg == Fetched(n)
<1>5. /\ state' = [state EXCEPT ![k] = reg] /\ cur' = cur + Lanes /\ k' = Following(k)
      /\ UNCHANGED <<p, done, minor, spill>>
  BY <1>4 DEF Fetch
<1>6. ASSUME NEW j \in 1 .. Lanes
      PROVE  /\ j > n => reg.lanes[j] = NoKey
             /\ j <= n => /\ reg.lanes[j] # NoKey /\ reg.lanes[j].key = Keys[cur + j]
                          /\ job.prefetch => reg.lanes[j] \in Leafed
                          /\ ~job.prefetch => reg.lanes[j] \in Routed
  <2>1. CASE j > n
    BY <1>4, <2>1 DEF Fetched
  <2>2. CASE j <= n
    <3>1. Keys[cur + j] \in AllKeys
      BY <1>1, <1>2, <1>4, <2>2
    <3>2. /\ ~(j > n)
          /\ reg.lanes[j] = [key |-> Keys[cur + j],
                             idx |-> IF job.prefetch THEN LeafOf(model, Keys[cur + j])
                                     ELSE MinorOf(LeafOf(model, Keys[cur + j]), Keys[cur + j])]
      BY <1>4, <2>2 DEF Fetched
    <3>3. reg.lanes[j].key = Keys[cur + j]
      BY <3>2
    <3>4. job.prefetch => reg.lanes[j] \in Leafed
      BY <3>1, <3>2, LaneFacts
    <3>5. ~job.prefetch => reg.lanes[j] \in Routed
      BY <3>1, <3>2, LaneFacts
    <3>6. reg.lanes[j] # NoKey
      BY <3>4, <3>5, LaneFacts
    <3> QED  BY <3>2, <3>3, <3>4, <3>5, <3>6
  <2> QED  BY <1>4, <2>1, <2>2
<1>7. reg.lanes = [j \in 1 .. Lanes |-> reg.lanes[j]] /\ reg.stage = (IF job.prefetch THEN 0 ELSE 2)
      /\ reg = [stage |-> reg.stage, lanes |-> reg.lanes]
  BY DEF Fetched
<1> HIDE DEF reg
<1>8. Held(reg.lanes) = 1 .. n /\ n > 0
  BY <1>2, <1>4, <1>6 DEF Held
<1>8a. Held(reg.lanes) # {}
  BY <1>8
<1>9. \A j \in 1 .. n : reg.lanes[j].key = Keys[cur + j]
  BY <1>2, <1>4, <1>6
<1>10. GoodRegister(reg)
  <2>1. CASE job.prefetch
    <3>1. \A j \in 1 .. Lanes : reg.lanes[j] \in {NoKey} \cup Leafed
      BY <1>2, <1>4, <1>6, <2>1
    <3>2. reg.lanes \in [1 .. Lanes -> {NoKey} \cup Leafed]
      BY <1>7, <3>1
    <3>3. reg.lanes \in [1 .. Lanes -> Lane]
      BY <3>2 DEF Lane
    <3>4. reg.stage = 0 /\ Held(reg.lanes) # {}
      BY <1>7, <1>8a, <2>1
    <3> QED  BY <1>7, <3>2, <3>3, <3>4 DEF GoodRegister
  <2>2. CASE ~job.prefetch
    <3>1. \A j \in 1 .. Lanes : reg.lanes[j] \in {NoKey} \cup Routed
      BY <1>2, <1>4, <1>6, <2>2
    <3>2. reg.lanes \in [1 .. Lanes -> {NoKey} \cup Routed]
      BY <1>7, <3>1
    <3>3. reg.lanes \in [1 .. Lanes -> Lane]
      BY <3>2 DEF Lane
    <3>4. reg.stage = 2 /\ Held(reg.lanes) # {}
      BY <1>7, <1>8a, <2>2
    <3> QED  BY <1>7, <3>2, <3>3, <3>4 DEF GoodRegister
  <2> QED  BY <2>1, <2>2
<1>11. /\ state'[Residue] = state[Residue] /\ DOMAIN state' = 0 .. SIMDStateSize
       /\ \A r \in Registers : state'[r] = IF r = k THEN reg ELSE state[r]
       /\ \A r \in 0 .. SIMDStateSize : state'[r] = IF r = k THEN reg ELSE state[r]
       /\ state'[k] = reg
  BY <1>1, <1>5
<1>12. reg.stage # 3 /\ state[k].stage # 3 /\ cur' \in Nat
  BY <1>1, <1>2, <1>3, <1>5, <1>7
<1>13. RegistersInv'
  BY <1>1, <1>5, <1>10, <1>11, <1>12, RegistersUpdate
<1> QED  BY <1>3, <1>4, <1>5, <1>8, <1>9, <1>11, <1>13

\* The keys that are left of a scattered register stay in it, or go to the residue.
LEMMA ScatterFacts ==
  ASSUME RegistersInv, Distributing, job.imv, UNCHANGED <<job, model, bucket>>,
         ScatterAll \/ ScatterAndPack \/ ScatterAndRefill
  PROVE  /\ RegistersInv' /\ UNCHANGED <<p, cur>> /\ DOMAIN state' = 0 .. SIMDStateSize
         /\ \A r \in 0 .. SIMDStateSize : r # k /\ r # Residue => state'[r] = state[r]
         /\ \E items \in Seq(Routed) :
              /\ Placed(items)
              /\ \A x : LaneCount(state'[k].lanes, x) + LaneCount(state'[Residue].lanes, x) + ItemCount(items, x)
                          = LaneCount(state[k].lanes, x) + LaneCount(state[Residue].lanes, x)
<1> DEFINE lanes == state[k].lanes
           res == state[Residue].lanes
           left == Left(lanes)
           scattered == Scattered(lanes)
<1>1. /\ k \in Registers /\ Following(k) \in Registers /\ k # Residue
      /\ DOMAIN state = 0 .. SIMDStateSize /\ k \in DOMAIN state /\ Residue \in DOMAIN state
      /\ GoodRegister(state[k]) /\ GoodResidue(state[Residue]) /\ cur \in Nat
      /\ \A r \in Registers : r # Residue /\ r \in DOMAIN state
      /\ NumResidue \in Nat /\ NumResidue < Lanes /\ Held(res) = 1 .. NumResidue
  BY RegisterFacts
<1>2. Lanes \in Nat /\ Lanes > 0
  BY LaneNumber
<1>3. state[k].stage = 2
  BY DEF ScatterAll, ScatterAndPack, ScatterAndRefill, Runs
<1>4. /\ lanes \in [1 .. Lanes -> {NoKey} \cup Routed] /\ res \in [1 .. Lanes -> {NoKey} \cup Routed]
      /\ state[k] \in [stage : 0 .. 3, lanes : [1 .. Lanes -> Lane]]
      /\ state[Residue] \in [stage : 0 .. 3, lanes : [1 .. Lanes -> {NoKey} \cup Routed]]
  BY <1>1, <1>3 DEF GoodRegister, GoodResidue
<1>5. (\A j \in Held(lanes) : lanes[j] \in Routed) /\ \A j \in Held(res) : res[j] \in Routed
  BY <1>4 DEF Held
<1> HIDE DEF lanes, res
<1>6. /\ \A j \in Held(left) : left[j] \in Routed
      /\ \A j \in Held(scattered) : scattered[j] \in Routed
      /\ \A x : LaneCount(left, x) + LaneCount(scattered, x) = LaneCount(lanes, x)
  BY <1>5, LeftFacts
<1>7. NumLeft = Cardinality(Held(left)) /\ NumLeft \in Nat /\ LeftOver = left
  BY HeldFinite DEF NumLeft, LeftOver, lanes
<1>8. left \in [1 .. Lanes -> {NoKey} \cup Routed]
  BY <1>4 DEF Left
<1> HIDE DEF left, scattered
<1>9. ASSUME NEW new, \A j \in Held(new) : new[j] \in Routed
      PROVE  InOrder(new) \in Seq(Routed) /\ \A x : ItemCount(InOrder(new), x) = LaneCount(new, x)
  BY <1>9, InOrderFacts DEF ItemCount
<1> DEFINE free == [stage |-> 1, lanes |-> Empty]
<1>10. GoodRegister(free) /\ free.stage = 1 /\ free.lanes = Empty
  BY EmptyFacts DEF GoodRegister, Lane
<1>11. \A x : LaneCount(Empty, x) = 0
  BY EmptyFacts, FS_EmptySet DEF LaneCount
<1>12. \A new, x : LaneCount(new, x) \in Nat
  BY HeldFinite
<1> HIDE DEF free
<1>13. CASE ScatterAll
  <2>1. /\ Placed(InOrder(lanes)) /\ state' = [state EXCEPT ![k] = free]
        /\ UNCHANGED <<p, cur, k, done>>
    BY <1>13 DEF ScatterAll, lanes, free
  <2>2. /\ state'[Residue] = state[Residue] /\ DOMAIN state' = 0 .. SIMDStateSize
        /\ \A r \in Registers : state'[r] = IF r = k THEN free ELSE state[r]
        /\ \A r \in 0 .. SIMDStateSize : r # k => state'[r] = state[r]
        /\ state'[k] = free
    BY <1>1, <2>1
  <2>3. RegistersInv'
    BY <1>1, <1>3, <1>10, <2>1, <2>2, RegistersUpdate
  <2>4. InOrder(lanes) \in Seq(Routed) /\ \A x : ItemCount(InOrder(lanes), x) = LaneCount(lanes, x)
    BY <1>5, <1>9
  <2>5. \A x : LaneCount(state'[k].lanes, x) + LaneCount(state'[Residue].lanes, x) + ItemCount(InOrder(lanes), x)
                 = LaneCount(state[k].lanes, x) + LaneCount(state[Residue].lanes, x)
    BY <1>10, <1>11, <1>12, <2>2, <2>4 DEF lanes
  <2> QED  BY <2>1, <2>2, <2>3, <2>4, <2>5
<1> DEFINE After(reg, packed) ==
             /\ GoodRegister(reg) /\ reg.stage # 3
             /\ packed \in [1 .. Lanes -> {NoKey} \cup Routed]
             /\ Held(packed) = 1 .. Cardinality(Held(packed)) /\ Cardinality(Held(packed)) < Lanes
             /\ \A x : LaneCount(reg.lanes, x) + LaneCount(packed, x) = LaneCount(left, x) + LaneCount(res, x)
             /\ Placed(InOrder(scattered)) /\ DOMAIN state' = 0 .. SIMDStateSize /\ state'[k] = reg
             /\ state'[Residue] = [state[Residue] EXCEPT !.lanes = packed]
             /\ \A r \in 0 .. SIMDStateSize : r # k /\ r # Residue => state'[r] = state[r]
             /\ UNCHANGED <<p, cur, done>> /\ k' \in Registers
           Result ==
             /\ RegistersInv' /\ UNCHANGED <<p, cur>> /\ DOMAIN state' = 0 .. SIMDStateSize
             /\ \A r \in 0 .. SIMDStateSize : r # k /\ r # Residue => state'[r] = state[r]
             /\ \E items \in Seq(Routed) :
                  /\ Placed(items)
                  /\ \A x : LaneCount(state'[k].lanes, x) + LaneCount(state'[Residue].lanes, x) + ItemCount(items, x)
                              = LaneCount(state[k].lanes, x) + LaneCount(state[Residue].lanes, x)
<1>14. ASSUME NEW reg, NEW packed, After(reg, packed)
       PROVE  Result
  <2>1. PICK new : new = state'[Residue]
    OBVIOUS
  <2>1a. /\ new \in [stage : 0 .. 3, lanes : [1 .. Lanes -> {NoKey} \cup Routed]]
         /\ new.lanes = packed
    BY <1>4, <1>14, <2>1
  <2>2. GoodResidue(new)
    BY <1>14, <2>1a DEF GoodResidue
  <2>3. \A r \in Registers : state'[r] = IF r = k THEN reg ELSE state[r]
    BY <1>1, <1>14
  <2>4. cur' \in Nat /\ done' = done /\ state'[Residue] = new
    BY <1>1, <1>14, <2>1
  <2>5. RegistersInv'
    BY <1>3, <1>14, <2>2, <2>3, <2>4, RegistersUpdate
  <2>6. InOrder(scattered) \in Seq(Routed)
        /\ \A x : ItemCount(InOrder(scattered), x) = LaneCount(scattered, x)
    BY <1>6, <1>9
  <2>7. ASSUME NEW x
        PROVE  LaneCount(state'[k].lanes, x) + LaneCount(state'[Residue].lanes, x)
                 + ItemCount(InOrder(scattered), x)
                 = LaneCount(state[k].lanes, x) + LaneCount(state[Residue].lanes, x)
    <3>1. LaneCount(left, x) + LaneCount(scattered, x) = LaneCount(lanes, x)
      BY <1>6
    <3>2. LaneCount(reg.lanes, x) + LaneCount(packed, x) = LaneCount(left, x) + LaneCount(res, x)
      BY <1>14
    <3>3. LaneCount(state'[k].lanes, x) = LaneCount(reg.lanes, x)
          /\ LaneCount(state'[Residue].lanes, x) = LaneCount(packed, x)
      BY <1>4, <1>14
    <3> QED  BY <1>12, <2>6, <3>1, <3>2, <3>3 DEF lanes, res
  <2> QED  BY <1>14, <2>5, <2>6, <2>7
<1> HIDE DEF After, Result
<1>15. CASE ScatterAndPack
  <2> DEFINE from == Compress(left)
             packed == First(NumLeft + NumResidue, Expand(res, from))
  <2>1. /\ NumLeft + NumResidue < Lanes /\ Placed(InOrder(scattered)) /\ UNCHANGED <<p, cur, k, done>>
        /\ state' = [state EXCEPT ![Residue].lanes = packed, ![k] = free]
    BY <1>7, <1>15 DEF ScatterAndPack, lanes, res, scattered, free
  <2>2. /\ DOMAIN state' = 0 .. SIMDStateSize /\ state'[k] = free
        /\ state'[Residue] = [state[Residue] EXCEPT !.lanes = packed]
        /\ \A r \in 0 .. SIMDStateSize : r # k /\ r # Residue => state'[r] = state[r]
    <3> HIDE DEF packed
    <3> QED  BY <1>1, <1>4, <2>1
  <2>3. /\ from \in [1 .. Lanes -> {NoKey} \cup Routed]
        /\ Held(from) = 1 .. NumLeft
        /\ \A x : LaneCount(from, x) = LaneCount(left, x)
    BY <1>6, <1>7, CompressFacts
  <2> HIDE DEF from
  <2>4. /\ packed \in [1 .. Lanes -> {NoKey} \cup Routed]
        /\ Held(packed) = 1 .. (NumLeft + NumResidue)
        /\ \A x : LaneCount(packed, x) = LaneCount(res, x) + LaneCount(from, x)
    <3>1. NumResidue + NumLeft <= Lanes /\ NumResidue \in Nat /\ NumLeft \in Nat
      BY <1>1, <1>2, <1>7, <2>1
    <3>2. Typed(res, Routed) /\ Typed(from, Routed)
      BY <1>4, <2>3 DEF Typed
    <3>3. Packed(res, NumResidue) /\ Packed(from, NumLeft)
      BY <1>1, <2>3 DEF Packed
    <3>4. /\ Typed(packed, Routed) /\ Packed(packed, NumLeft + NumResidue)
          /\ \A x : LaneCount(packed, x) = LaneCount(res, x) + LaneCount(from, x)
      BY <3>1, <3>2, <3>3, AppendFacts
    <3> HIDE DEF packed
    <3> QED  BY <3>4 DEF Typed, Packed
  <2> HIDE DEF packed
  <2>5. Cardinality(Held(packed)) = NumLeft + NumResidue
    <3>1. PICK c \in Nat : c = NumLeft + NumResidue
      BY <1>1, <1>7
    <3> QED  BY <2>4, <3>1, FS_Interval
  <2>6. \A x : LaneCount(free.lanes, x) + LaneCount(packed, x) = LaneCount(left, x) + LaneCount(res, x)
    BY <1>10, <1>11, <1>12, <2>3, <2>4
  <2>7. Held(packed) = 1 .. Cardinality(Held(packed)) /\ Cardinality(Held(packed)) < Lanes
    BY <2>1, <2>4, <2>5
  <2>8. k' \in Registers /\ free.stage # 3
    BY <1>1, <1>10, <2>1
  <2>9. After(free, packed)
    BY <1>10, <2>1, <2>2, <2>4, <2>6, <2>7, <2>8 DEF After
  <2>10. Result
    BY <1>14, <2>9, Zenon
  <2> QED  BY <2>10 DEF Result
<1>16. CASE ScatterAndRefill
  <2> DEFINE taken == Lanes - NumLeft
             rest == [j \in 1 .. Lanes |-> IF j <= taken THEN NoKey ELSE res[j]]
             full == Expand(left, res)
             reg == [stage |-> 2, lanes |-> full]
             packed == Compress(rest)
  <2>1. /\ NumLeft + NumResidue >= Lanes /\ Placed(InOrder(scattered)) /\ UNCHANGED <<p, cur, done>>
        /\ k' = Following(k)
        /\ state' = [state EXCEPT ![k].lanes = full, ![Residue].lanes = packed]
    BY <1>7, <1>16 DEF ScatterAndRefill, lanes, res, scattered
  <2>2. /\ DOMAIN state' = 0 .. SIMDStateSize
        /\ state'[k] = reg
        /\ state'[Residue] = [state[Residue] EXCEPT !.lanes = packed]
        /\ \A r \in 0 .. SIMDStateSize : r # k /\ r # Residue => state'[r] = state[r]
    <3> HIDE DEF packed, full
    <3>1. state'[k] = [state[k] EXCEPT !.lanes = full]
      BY <1>1, <2>1
    <3>2. state'[k] = reg
      BY <1>3, <1>4, <3>1
    <3> QED  BY <1>1, <1>4, <2>1, <3>2
  <2>3. /\ full \in [1 .. Lanes -> {NoKey} \cup Routed] /\ Held(full) = 1 .. Lanes
        /\ \A j \in Held(rest) : rest[j] \in Routed
        /\ Held(rest) \subseteq Held(res)
        /\ \A x : LaneCount(full, x) + LaneCount(rest, x) = LaneCount(left, x) + LaneCount(res, x)
    <3>1. Cardinality(Held(left)) + NumResidue >= Lanes /\ NumResidue \in Nat
      BY <1>1, <1>7, <2>1
    <3>2. Typed(left, Routed) /\ Typed(res, Routed) /\ Packed(res, NumResidue)
      BY <1>1, <1>4, <1>8 DEF Typed, Packed
    <3>3. taken = Lanes - Cardinality(Held(left))
      BY <1>7
    <3> HIDE DEF taken
    <3>4. /\ Typed(full, Routed) /\ Packed(full, Lanes)
          /\ \A j \in Held(rest) : rest[j] \in Routed
          /\ Held(rest) \subseteq Held(res)
          /\ \A x : LaneCount(full, x) + LaneCount(rest, x) = LaneCount(left, x) + LaneCount(res, x)
      BY <3>1, <3>2, <3>3, RefillFacts
    <3> HIDE DEF full, rest
    <3> QED  BY <3>4 DEF Typed, Packed
  <2> HIDE DEF full, rest
  <2>4. GoodRegister(reg) /\ reg.stage = 2 /\ reg.lanes = full
    <3>1. full \in [1 .. Lanes -> Lane]
      BY <2>3 DEF Lane
    <3>2. Held(full) # {}
      BY <1>2, <2>3
    <3> QED  BY <2>3, <3>1, <3>2 DEF GoodRegister
  <2>5. /\ packed \in [1 .. Lanes -> {NoKey} \cup Routed]
        /\ Held(packed) = 1 .. Cardinality(Held(rest))
        /\ \A x : LaneCount(packed, x) = LaneCount(rest, x)
    BY <2>3, CompressFacts
  <2>6. Cardinality(Held(rest)) \in Nat /\ Cardinality(Held(rest)) <= NumResidue
    <3>1. IsFiniteSet(Held(res)) /\ Cardinality(Held(res)) = NumResidue /\ Cardinality(Held(rest)) \in Nat
      BY HeldFinite DEF NumResidue, res
    <3>2. Held(rest) \in SUBSET Held(res)
      BY <2>3
    <3> QED  BY <3>1, <3>2, FS_Subset
  <2> HIDE DEF packed, reg
  <2>7. Held(packed) = 1 .. Cardinality(Held(packed)) /\ Cardinality(Held(packed)) < Lanes
    <3>1. PICK c \in Nat : c = Cardinality(Held(rest)) /\ c <= NumResidue
      BY <2>6
    <3>2. Cardinality(Held(packed)) = c /\ Held(packed) = 1 .. c
      BY <2>5, <3>1, FS_Interval
    <3> QED  BY <1>1, <1>2, <3>1, <3>2
  <2>8. \A x : LaneCount(reg.lanes, x) + LaneCount(packed, x) = LaneCount(left, x) + LaneCount(res, x)
    BY <2>3, <2>4, <2>5
  <2>9. k' \in Registers /\ reg.stage # 3
    BY <1>1, <2>1, <2>4
  <2>10. After(reg, packed)
    BY <2>1, <2>2, <2>4, <2>5, <2>7, <2>8, <2>9 DEF After
  <2>11. Result
    BY <1>14, <2>10, Zenon
  <2> QED  BY <2>11 DEF Result
<1> QED  BY <1>13, <1>15, <1>16 DEF Result

LEMMA ItemType ==
  ASSUME NEW items \in Seq(Routed), NEW x
  PROVE  ItemCount(items, x) \in Nat
<1> DEFINE A == {n \in DOMAIN items : items[n].key = x}
<1>1. A \in SUBSET (1 .. Len(items)) /\ IsFiniteSet(1 .. Len(items))
  <2>1. DOMAIN items = 1 .. Len(items) /\ Len(items) \in Nat
    OBVIOUS
  <2> QED  BY <2>1, FS_Interval
<1> HIDE DEF A
<1>2. IsFiniteSet(A)
  BY <1>1, FS_Subset, Zenon
<1>3. Cardinality(A) \in Nat
  BY <1>2, FS_CardinalityType
<1> QED  BY <1>3 DEF A, ItemCount

LEMMA ItemConcat ==
  ASSUME NEW s \in Seq(Routed), NEW t \in Seq(Routed), NEW x
  PROVE  ItemCount(s \o t, x) = ItemCount(s, x) + ItemCount(t, x)
<1> DEFINE Of(r) == [n \in DOMAIN r |-> r[n].key]
<1>1. ASSUME NEW r \in Seq(Routed)
      PROVE  Of(r) \in Seq(AllKeys) /\ Len(Of(r)) = Len(r) /\ Count(Of(r), x) = ItemCount(r, x)
  <2>1. DOMAIN r = 1 .. Len(r) /\ Len(r) \in Nat /\ \A n \in DOMAIN r : r[n] \in Routed
    OBVIOUS
  <2>2. Of(r) \in [1 .. Len(r) -> AllKeys]
    BY <2>1, LaneFacts
  <2>3. {n \in DOMAIN Of(r) : Of(r)[n] = x} = {n \in DOMAIN r : r[n].key = x}
    OBVIOUS
  <2>4. Count(Of(r), x) = ItemCount(r, x)
    BY <2>3 DEF Count, ItemCount
  <2> HIDE DEF Of
  <2> QED  BY <2>1, <2>2, <2>4
<1>2. s \o t \in Seq(Routed)
  BY ConcatProperties, Zenon
<1>3. Of(s \o t) = Of(s) \o Of(t)
  <2>1. /\ Len(s \o t) = Len(s) + Len(t)
        /\ \A n \in 1 .. Len(s) + Len(t) : (s \o t)[n] = IF n <= Len(s) THEN s[n] ELSE t[n - Len(s)]
        /\ Len(s) \in Nat /\ Len(t) \in Nat
    OBVIOUS
  <2>2. /\ Of(s) \in Seq(AllKeys) /\ Of(t) \in Seq(AllKeys) /\ Of(s \o t) \in Seq(AllKeys)
        /\ Len(Of(s)) = Len(s) /\ Len(Of(t)) = Len(t) /\ Len(Of(s \o t)) = Len(s \o t)
    BY <1>1, <1>2
  <2>3. /\ \A n \in 1 .. Len(s) : Of(s)[n] = s[n].key
        /\ \A n \in 1 .. Len(t) : Of(t)[n] = t[n].key
        /\ \A n \in 1 .. Len(s \o t) : Of(s \o t)[n] = (s \o t)[n].key
    <3>1. DOMAIN s = 1 .. Len(s) /\ DOMAIN t = 1 .. Len(t) /\ DOMAIN (s \o t) = 1 .. Len(s \o t)
      OBVIOUS
    <3> QED  BY <3>1
  <2> HIDE DEF Of
  <2>4. /\ Of(s) \o Of(t) \in Seq(AllKeys) /\ Len(Of(s) \o Of(t)) = Len(s) + Len(t)
        /\ \A n \in 1 .. Len(s) + Len(t) :
             (Of(s) \o Of(t))[n] = IF n <= Len(s) THEN Of(s)[n] ELSE Of(t)[n - Len(s)]
    BY <2>1, <2>2
  <2>5. ASSUME NEW n \in 1 .. Len(s) + Len(t) PROVE Of(s \o t)[n] = (Of(s) \o Of(t))[n]
    <3>1. CASE n <= Len(s)
      <4>1. n \in 1 .. Len(s) /\ n \in 1 .. Len(s \o t)
        BY <2>1, <3>1
      <4> QED  BY <2>1, <2>3, <2>4, <3>1, <4>1
    <3>2. CASE ~(n <= Len(s))
      <4>1. n - Len(s) \in 1 .. Len(t) /\ n \in 1 .. Len(s \o t)
        BY <2>1, <3>2
      <4> QED  BY <2>1, <2>3, <2>4, <3>2, <4>1
    <3> QED  BY <3>1, <3>2
  <2> QED  BY <2>1, <2>2, <2>4, <2>5, SeqEqual, Zenon
<1> HIDE DEF Of
<1>4. Count(Of(s \o t), x) = Count(Of(s), x) + Count(Of(t), x)
  BY <1>1, <1>3, CountConcat
<1> QED  BY <1>1, <1>2, <1>4

\* At the end the residue is placed.
LEMMA DrainFacts ==
  ASSUME RegistersInv, Distributing, job.imv, UNCHANGED <<job, model, bucket>>, DrainResidue
  PROVE  /\ RegistersInv' /\ UNCHANGED <<p, cur>> /\ DOMAIN state' = 0 .. SIMDStateSize
         /\ \A r \in 0 .. SIMDStateSize : r # Residue => state'[r] = state[r]
         /\ state'[Residue].lanes = Empty
         /\ \E items \in Seq(Routed) :
              /\ Placed(items)
              /\ \A x : ItemCount(items, x) = LaneCount(state[Residue].lanes, x)
<1> DEFINE lanes == state[Residue].lanes
           free == [stage |-> 1, lanes |-> Empty]
           items == InOrder(Scattered(lanes)) \o InOrder(Left(lanes))
<1>1. /\ k \in Registers /\ k # Residue /\ DOMAIN state = 0 .. SIMDStateSize
      /\ Residue \in DOMAIN state /\ GoodRegister(state[k]) /\ GoodResidue(state[Residue]) /\ cur \in Nat
      /\ \A r \in Registers : r # Residue /\ r \in DOMAIN state
  BY RegisterFacts
<1>2. /\ Placed(items) /\ state' = [state EXCEPT ![Residue] = free] /\ k' = 0
      /\ UNCHANGED <<p, cur, done>>
  BY DEF DrainResidue
<1>3. \A j \in Held(lanes) : lanes[j] \in Routed
  <2>1. lanes \in [1 .. Lanes -> {NoKey} \cup Routed]
    BY <1>1 DEF GoodResidue
  <2> QED  BY <2>1 DEF Held
<1>4. GoodResidue(free) /\ free.lanes = Empty
  <2>1. Cardinality(Held(Empty)) = 0
    BY EmptyFacts, FS_EmptySet
  <2>2. Empty \in [1 .. Lanes -> {NoKey} \cup Routed] /\ Held(Empty) = 1 .. 0
    BY EmptyFacts
  <2>3. Held(Empty) = 1 .. Cardinality(Held(Empty)) /\ Cardinality(Held(Empty)) < Lanes
    BY <2>1, <2>2, LaneNumber
  <2>4. /\ free \in [stage : 0 .. 3, lanes : [1 .. Lanes -> {NoKey} \cup Routed]]
        /\ free.lanes = Empty
    BY <2>2
  <2> HIDE DEF free
  <2> QED  BY <2>3, <2>4 DEF GoodResidue
<1> HIDE DEF lanes, free
<1>5. /\ DOMAIN state' = 0 .. SIMDStateSize /\ state'[Residue] = free
      /\ \A r \in 0 .. SIMDStateSize : r # Residue => state'[r] = state[r]
      /\ \A r \in Registers : state'[r] = IF r = k THEN state[k] ELSE state[r]
  BY <1>1, <1>2
<1>6. k' \in Registers /\ cur' \in Nat
  BY <1>1, <1>2, LaneNumber DEF Registers
<1>7. RegistersInv'
  BY <1>1, <1>2, <1>4, <1>5, <1>6, RegistersUpdate
<1>8. /\ \A j \in Held(Left(lanes)) : Left(lanes)[j] \in Routed
      /\ \A j \in Held(Scattered(lanes)) : Scattered(lanes)[j] \in Routed
      /\ \A x : LaneCount(Left(lanes), x) + LaneCount(Scattered(lanes), x) = LaneCount(lanes, x)
  BY <1>3, LeftFacts
<1>9. ASSUME NEW new, \A j \in Held(new) : new[j] \in Routed
      PROVE  /\ InOrder(new) \in Seq(Routed)
             /\ \A x : ItemCount(InOrder(new), x) = LaneCount(new, x) /\ LaneCount(new, x) \in Nat
  BY <1>9, InOrderFacts, HeldFinite DEF ItemCount
<1>10. InOrder(Left(lanes)) \in Seq(Routed) /\ InOrder(Scattered(lanes)) \in Seq(Routed)
  BY <1>8, <1>9
<1>11. items \in Seq(Routed)
  BY <1>10, ConcatProperties, Zenon
<1>12. ASSUME NEW x PROVE ItemCount(items, x) = LaneCount(lanes, x)
  <2>1. ItemCount(items, x) = ItemCount(InOrder(Scattered(lanes)), x) + ItemCount(InOrder(Left(lanes)), x)
    BY <1>10, ItemConcat
  <2> QED  BY <1>8, <1>9, <2>1
<1> HIDE DEF items
<1> QED  BY <1>2, <1>4, <1>5, <1>7, <1>11, <1>12 DEF lanes

\* The registers when nothing of them changes.
LEMMA RegistersKept ==
  ASSUME RegistersInv, Distributing, UNCHANGED <<job, model, bucket, state, k, done>>, cur' \in Nat
  PROVE  RegistersInv'
<1>1. Leafed' = Leafed /\ Routed' = Routed /\ Lane' = Lane
  BY SteadyModel
<1>2. ASSUME NEW r \in Registers PROVE GoodRegister(state[r])'
  <2>1. GoodRegister(state[r])
    BY DEF RegistersInv
  <2>2. state' = state
    OBVIOUS
  <2> QED  BY <1>1, <2>1, <2>2 DEF GoodRegister
<1>3. GoodResidue(state[Residue])'
  <2>1. GoodResidue(state[Residue])
    BY DEF RegistersInv
  <2> QED  BY <1>1, <2>1 DEF GoodResidue, Residue
<1> QED  BY <1>2, <1>3 DEF RegistersInv, Registers

\* Without the vector option the next keys of the partition are placed.
LEMMA BatchFacts ==
  ASSUME JobInv, SourceInv, RegistersInv, Distributing, UNCHANGED <<job, model, bucket>>,
         FullBatch \/ LastBatch
  PROVE  /\ RegistersInv' /\ UNCHANGED <<p, state>>
         /\ \E n \in Nat : \E items \in Seq(Routed) :
              /\ cur' = cur + n /\ cur + n <= Size /\ Placed(items)
              /\ \A x : ItemCount(items, x) = Cardinality({m \in 1 .. n : Keys[cur + m] = x})
<1>1. cur \in Nat /\ Size \in Nat /\ \A n \in 1 .. Size : Keys[n] \in AllKeys
  BY SizeFacts, RegisterFacts
<1>2. PICK n \in Nat : PlaceKeys(n) /\ cur + n <= Size
  <2>1. CASE FullBatch
    BY <2>1, JobFacts DEF FullBatch
  <2>2. CASE LastBatch
    <3>1. PICK n \in Nat : n = Size - cur
      BY <1>1, <2>2 DEF LastBatch
    <3>2. PlaceKeys(n)
      BY <2>2, <3>1, Zenon DEF LastBatch
    <3>3. cur + n <= Size
      BY <1>1, <3>1
    <3> QED  BY <3>2, <3>3
  <2> QED  BY <2>1, <2>2
<1> DEFINE item(i) == [key |-> Keys[cur + i], idx |-> MinorOf(LeafOf(model, Keys[cur + i]), Keys[cur + i])]
           items == [i \in 1 .. n |-> item(i)]
<1>3. Placed(items) /\ cur' = cur + n /\ UNCHANGED <<p, k, done, state>>
  BY <1>2 DEF PlaceKeys
<1>4. \A i \in 1 .. n : item(i) \in Routed /\ item(i).key = Keys[cur + i]
  <2> SUFFICES ASSUME NEW i \in 1 .. n PROVE item(i) \in Routed /\ item(i).key = Keys[cur + i]
    OBVIOUS
  <2>1. Keys[cur + i] \in AllKeys
    BY <1>1, <1>2
  <2> QED  BY <2>1, LaneFacts
<1> HIDE DEF item
<1>5. items \in Seq(Routed) /\ DOMAIN items = 1 .. n
  BY <1>2, <1>4
<1>6. ASSUME NEW x PROVE ItemCount(items, x) = Cardinality({m \in 1 .. n : Keys[cur + m] = x})
  <2>1. {m \in DOMAIN items : items[m].key = x} = {m \in 1 .. n : Keys[cur + m] = x}
    BY <1>4
  <2> QED  BY <2>1 DEF ItemCount
<1> HIDE DEF items
<1>7. RegistersInv'
  BY <1>1, <1>3, RegistersKept
<1> QED  BY <1>2, <1>3, <1>5, <1>6, <1>7

\* The loops start over with empty registers.
LEMMA StartFacts ==
  ASSUME NEW i, StartPartition(i)
  PROVE  RegistersInv'
<1> DEFINE free == [stage |-> 1, lanes |-> Empty]
<1>1. state' = [r \in 0 .. SIMDStateSize |-> free] /\ cur' = 0 /\ k' = 0 /\ done' = 0
  BY DEF StartPartition
<1>2. free.stage = 1 /\ free.lanes = Empty /\ free \in [stage : 0 .. 3, lanes : [1 .. Lanes -> {NoKey}]]
  BY EmptyFacts
<1> HIDE DEF free
<1>3. \A r \in 0 .. SIMDStateSize : state'[r] = free
  BY <1>1
<1>4. \A r \in Registers : r \in 0 .. SIMDStateSize
  BY LaneNumber DEF Registers
<1>5. ASSUME NEW r \in Registers PROVE GoodRegister(state[r])'
  <2>1. state'[r] = free
    BY <1>3, <1>4
  <2>2. free \in [stage : 0 .. 3, lanes : [1 .. Lanes -> Lane']]
    BY <1>2 DEF Lane
  <2> QED  BY <1>2, <2>1, <2>2, EmptyFacts DEF GoodRegister
<1>6. GoodResidue(state[Residue])'
  <2>1. state'[Residue] = free
    BY <1>3, LaneNumber DEF Residue
  <2>2. free \in [stage : 0 .. 3, lanes : [1 .. Lanes -> {NoKey} \cup Routed']]
    BY <1>2
  <2>3. Held(Empty) = {} /\ Cardinality(Held(Empty)) = 0
    BY EmptyFacts, FS_EmptySet
  <2>4. Held(Empty) = 1 .. Cardinality(Held(Empty)) /\ Cardinality(Held(Empty)) < Lanes
    BY <2>3, LaneNumber
  <2> QED  BY <1>2, <2>1, <2>2, <2>4 DEF GoodResidue, Residue
<1>7. done' = Cardinality({r \in Registers : state'[r].stage = 3})
  <2>1. {r \in Registers : state'[r].stage = 3} = {}
    BY <1>2, <1>3, <1>4
  <2> QED  BY <1>1, <2>1, FS_EmptySet
<1>8. \A r \in 0 .. SIMDStateSize : Held(state'[r].lanes) = {}
  BY <1>2, <1>3, EmptyFacts
<1>9. cur' \in Nat /\ k' \in Registers /\ DOMAIN state' = 0 .. SIMDStateSize
  BY <1>1, LaneNumber DEF Registers
<1> QED  BY <1>5, <1>6, <1>7, <1>8, <1>9 DEF RegistersInv, Registers

\* What a step of the distribution does: a turn, a fetch, or keys are placed.
LEMMA PlacingCases ==
  ASSUME JobInv, SourceInv, RegistersInv, Distribute, UNCHANGED <<job, model, bucket>>
  PROVE  \/ FullBatch \/ LastBatch
         \/ job.imv /\ (Finish \/ PassBy \/ PredictFull \/ PredictPartial)
         \/ job.imv /\ (FetchFull \/ FetchPartial)
         \/ job.imv /\ (ScatterAll \/ ScatterAndPack \/ ScatterAndRefill)
         \/ job.imv /\ DrainResidue
  BY DistributeCases

LEMMA RegistersStep ==
  ASSUME JobInv, SourceInv, RegistersInv, [Next]_vars
  PROVE  RegistersInv'
<1>1. CASE Validate \/ TrainOnOne \/ TrainOnTwo \/ (\E t \in Threads : Histogram(t))
           \/ (\E t \in Threads : Partition(t))
  BY <1>1 DEF Validate, TrainOnOne, TrainOnTwo, Histogram, Partition, RegistersInv, Distributing
<1>2. CASE Open
  BY <1>2, StartFacts DEF Open
<1>3. CASE NextPartition
  BY <1>3, StartFacts DEF NextPartition
<1>4. CASE DistributeKeys
  <2>1. UNCHANGED <<job, hp, model, pc, bucket, source>> /\ Distribute
    BY <1>4 DEF DistributeKeys
  <2>2. Distributing
    BY <2>1, DistributeCases
  <2>3. CASE FullBatch \/ LastBatch
    BY <2>1, <2>2, <2>3, BatchFacts
  <2>4. CASE job.imv /\ (Finish \/ PassBy \/ PredictFull \/ PredictPartial)
    BY <2>1, <2>2, <2>4, TurnFacts
  <2>5. CASE job.imv /\ (FetchFull \/ FetchPartial)
    BY <2>1, <2>2, <2>5, FetchFacts
  <2>6. CASE job.imv /\ (ScatterAll \/ ScatterAndPack \/ ScatterAndRefill)
    BY <2>1, <2>2, <2>6, ScatterFacts
  <2>7. CASE job.imv /\ DrainResidue
    BY <2>1, <2>2, <2>7, DrainFacts
  <2> QED  BY <2>1, <2>3, <2>4, <2>5, <2>6, <2>7, PlacingCases
<1>5. CASE AllDistributed \/ SortMinors \/ (\E total, vals, counts : MergeSpill(total, vals, counts))
           \/ MergeStep \/ EndBucket
  <2>1. pc' # "distribute"
    BY <1>5 DEF AllDistributed, SortMinors, MergeSpill, MergeStep, EndBucket, Merging
  <2> QED  BY <2>1 DEF RegistersInv, Distributing
<1>6. CASE UNCHANGED vars
  <2>1. UNCHANGED <<job, model, pc, bucket, state, k, done, cur>>
    BY <1>6 DEF vars, distributing
  <2>2. CASE Distributing
    <3>1. cur' \in Nat
      BY <2>1, <2>2, RegisterFacts
    <3> QED  BY <2>1, <2>2, <3>1, RegistersKept
  <2>3. CASE ~Distributing
    BY <2>1, <2>3 DEF RegistersInv, Distributing
  <2> QED  BY <2>2, <2>3
<1> QED  BY <1>1, <1>2, <1>3, <1>4, <1>5, <1>6, NextCases DEF LateNext

\* A step of the distribution either places items, or leaves the buckets alone.
LEMMA DistributeFacts ==
  ASSUME JobInv, SourceInv, RegistersInv, Distribute, UNCHANGED <<job, model, bucket>>
  PROVE  \/ UNCHANGED <<minor, spill>>
         \/ \E items \in Seq(Routed) : Placed(items)
<1>1. Distributing
  BY DistributeCases
<1> QED  BY <1>1, PlacingCases, BatchFacts, TurnFacts, FetchFacts, ScatterFacts, DrainFacts

LEMMA BucketsStep ==
  ASSUME JobInv, SourceInv, RegistersInv, BucketsInv, [Next]_vars
  PROVE  BucketsInv'
<1>1. CASE Validate \/ TrainOnOne \/ TrainOnTwo \/ (\E t \in Threads : Histogram(t))
           \/ (\E t \in Threads : Partition(t))
  BY <1>1 DEF Validate, TrainOnOne, TrainOnTwo, Histogram, Partition, BucketsInv, Distributing
<1>2. CASE Open
  <2>1. minor' = [i \in Buckets |-> << >>] /\ spill' = << >> /\ UNCHANGED <<job, hp, model, bucket>>
    BY <1>2 DEF Open, Buckets
  <2>2. Buckets' = Buckets /\ AllKeys' = AllKeys /\ hp.threshold \in Nat
    BY <2>1, SteadyModel, JobFacts
  <2>3. \A b \in Buckets : minor'[b] = << >>
    BY <2>1
  <2>4. minor' \in [Buckets -> Seq(AllKeys)] /\ spill' \in Seq(AllKeys)
    BY <2>1
  <2>5. \A b \in Buckets : Len(minor'[b]) <= hp.threshold /\ 1 .. Len(minor'[b]) = {}
    BY <2>2, <2>3
  <2>6. GoodBuckets'
    BY <2>1, <2>2, <2>4, <2>5 DEF GoodBuckets
  <2> QED  BY <2>6 DEF BucketsInv
<1>3. ASSUME UNCHANGED <<job, hp, model, pc, bucket, minor, spill>>
      PROVE  BucketsInv'
  <2>1. Buckets' = Buckets /\ AllKeys' = AllKeys /\ \A x : Home(x)' = Home(x)
    BY <1>3, SteadyModel
  <2>2. GoodBuckets => GoodBuckets'
    BY <1>3, <2>1 DEF GoodBuckets
  <2> QED  BY <1>3, <2>2 DEF BucketsInv, Distributing
<1>4. CASE NextPartition
  <2>1. UNCHANGED <<job, hp, model, pc, bucket, minor, spill>>
    BY <1>4 DEF NextPartition
  <2> QED  BY <1>3, <2>1
<1>5. CASE DistributeKeys
  <2>1. UNCHANGED <<job, hp, model, pc, bucket, source>> /\ Distribute
    BY <1>5 DEF DistributeKeys
  <2>2. GoodBuckets
    BY <2>1, DistributeCases DEF BucketsInv
  <2>3. CASE UNCHANGED <<minor, spill>>
    BY <1>3, <2>1, <2>3
  <2>4. CASE \E items \in Seq(Routed) : Placed(items)
    BY <2>1, <2>2, <2>4, PlacedFacts DEF BucketsInv
  <2> QED  BY <2>1, <2>3, <2>4, DistributeFacts
<1>6. CASE AllDistributed \/ SortMinors \/ (\E total, vals, counts : MergeSpill(total, vals, counts))
           \/ MergeStep \/ EndBucket
  <2>1. pc' # "distribute"
    BY <1>6 DEF AllDistributed, SortMinors, MergeSpill, MergeStep, EndBucket, Merging
  <2> QED  BY <2>1 DEF BucketsInv, Distributing
<1>7. CASE UNCHANGED vars
  <2>1. UNCHANGED <<job, hp, model, pc, bucket, minor, spill>>
    BY <1>7 DEF vars, distributing
  <2> QED  BY <1>3, <2>1
<1> QED  BY <1>1, <1>2, <1>4, <1>5, <1>6, <1>7, NextCases DEF LateNext
-----------------------------------------------------------------------------
(* The merge of the repeated keys.                                         *)

LEMMA UnitsFacts ==
  ASSUME NEW counts \in Seq(Nat)
  PROVE  /\ Units(counts, 1) = {} /\ SumOf(counts) = Cardinality(Units(counts, Len(counts) + 1))
         /\ \A n \in 1 .. Len(counts) + 1 :
              /\ IsFiniteSet(Units(counts, n))
              /\ Cardinality(Units(counts, n)) \in Nat
              /\ Cardinality(Units(counts, n)) <= SumOf(counts)
         /\ \A n \in 1 .. Len(counts) :
              Cardinality(Units(counts, n + 1)) = Cardinality(Units(counts, n)) + counts[n]
<1> DEFINE Row(e) == {e} \X (1 .. counts[e])
<1>1. Len(counts) \in Nat /\ DOMAIN counts = 1 .. Len(counts) /\ \A e \in 1 .. Len(counts) : counts[e] \in Nat
  OBVIOUS
<1>2. ASSUME NEW e \in 1 .. Len(counts) PROVE IsFiniteSet(Row(e)) /\ Cardinality(Row(e)) = counts[e]
  <2>1. PICK c \in Nat : c = counts[e]
    BY <1>1
  <2>2. PICK C : C = 1 .. c
    OBVIOUS
  <2>3. IsFiniteSet(C) /\ Cardinality(C) = c
    <3>1. IsFiniteSet(1 .. c) /\ Cardinality(1 .. c) = c
      BY FS_Interval
    <3> QED  BY <2>2, <3>1
  <2>4. IsFiniteSet({e} \X C) /\ Cardinality({e} \X C) = c
    <3>1. IsFiniteSet({e}) /\ Cardinality({e}) = 1
      BY FS_Singleton
    <3>2. Cardinality({e} \X C) = Cardinality({e}) * Cardinality(C) /\ IsFiniteSet({e} \X C)
      BY <2>3, <3>1, FS_Product, Zenon
    <3> QED  BY <2>3, <3>1, <3>2
  <2> QED  BY <2>1, <2>2, <2>4
<1>3. \A n : Units(counts, n) = UNION {Row(e) : e \in 1 .. n - 1}
  BY DEF Units
<1>4. \A n, u : u \in Units(counts, n) <=> \E e \in 1 .. n - 1 : u \in Row(e)
  BY <1>3
<1>5. \A e, u : u \in Row(e) => u[1] = e
  OBVIOUS
<1>6. SumOf(counts) = Cardinality(Units(counts, Len(counts) + 1))
  <2>1. PICK n \in Nat : n = Len(counts)
    BY <1>1
  <2>2. 1 .. (n + 1) - 1 = 1 .. n
    BY <2>1
  <2> QED  BY <1>1, <2>1, <2>2 DEF SumOf, Units
<1>7. Units(counts, 1) = {}
  BY DEF Units
<1> HIDE DEF Row
<1>8. ASSUME NEW n \in 1 .. Len(counts) + 1 PROVE IsFiniteSet(Units(counts, n))
  <2>1. IsFiniteSet(1 .. n - 1)
    BY <1>1, FS_Interval
  <2>2. PICK I : I = 1 .. n - 1
    OBVIOUS
  <2>3. IsFiniteSet({Row(e) : e \in I})
    <3> DEFINE R == {Row(e) : e \in I}
               g == [e \in I |-> Row(e)]
    <3>1. g \in [I -> R] /\ \A r \in R : \E e \in I : g[e] = r
      OBVIOUS
    <3>2. IsFiniteSet(I)
      BY <2>1, <2>2
    <3> HIDE DEF R, g
    <3>3. g \in Surjection(I, R)
      BY <3>1 DEF Surjection
    <3>4. IsFiniteSet(R)
      BY <3>2, <3>3, FS_Surjection, Zenon
    <3> QED  BY <3>4 DEF R
  <2>4. \A T \in {Row(e) : e \in I} : IsFiniteSet(T)
    <3>1. \A e \in I : e \in 1 .. Len(counts)
      BY <1>1, <2>2
    <3> QED  BY <1>2, <3>1
  <2>5. IsFiniteSet(UNION {Row(e) : e \in I})
    BY <2>3, <2>4, FS_UNION
  <2> QED  BY <1>3, <2>2, <2>5
<1>9. ASSUME NEW n \in 1 .. Len(counts)
      PROVE  Cardinality(Units(counts, n + 1)) = Cardinality(Units(counts, n)) + counts[n]
  <2>1. PICK A, B, C : A = Units(counts, n) /\ B = Row(n) /\ C = Units(counts, n + 1)
    OBVIOUS
  <2>2. C = A \cup B /\ \A a \in A : a \notin B
    <3>1. \A e : e \in 1 .. (n + 1) - 1 <=> e \in 1 .. n - 1 \/ e = n
      BY <1>1
    <3>2. \A u : u \in C <=> u \in A \/ u \in B
      BY <1>4, <2>1, <3>1
    <3>3. \A e \in 1 .. n - 1 : e # n
      BY <1>1
    <3>4. \A a \in A : a \notin B
      BY <1>4, <1>5, <2>1, <3>3 DEF Row
    <3> QED  BY <3>2, <3>4
  <2>3. IsFiniteSet(A) /\ IsFiniteSet(B) /\ Cardinality(B) = counts[n]
    BY <1>1, <1>2, <1>8, <2>1
  <2>4. Cardinality(A \cup B) = Cardinality(A) + Cardinality(B)
    BY <2>2, <2>3, DisjointCount
  <2> QED  BY <2>1, <2>2, <2>3, <2>4
<1>10. ASSUME NEW n \in 1 .. Len(counts) + 1
       PROVE  Cardinality(Units(counts, n)) \in Nat /\ Cardinality(Units(counts, n)) <= SumOf(counts)
  <2>1. PICK A, B : A = Units(counts, n) /\ B = Units(counts, Len(counts) + 1)
    OBVIOUS
  <2>2. IsFiniteSet(A) /\ IsFiniteSet(B)
    <3>1. Len(counts) + 1 \in 1 .. Len(counts) + 1
      BY <1>1
    <3> QED  BY <1>8, <2>1, <3>1
  <2>3. A \in SUBSET B
    <3>1. \A e : e \in 1 .. n - 1 => e \in 1 .. (Len(counts) + 1) - 1
      BY <1>1
    <3> QED  BY <1>4, <2>1, <3>1
  <2>4. Cardinality(A) \in Nat /\ Cardinality(A) <= Cardinality(B)
    BY <2>2, <2>3, FS_Subset, FS_CardinalityType
  <2> QED  BY <1>6, <2>1, <2>4
<1> QED  BY <1>6, <1>7, <1>8, <1>9, <1>10

LEMMA CountsTyped ==
  ASSUME JobInv, PartsInv, pc \in {"spill", "repeated"}
  PROVE  /\ parts[1].counts[bucket] \in Seq(Nat) /\ parts[1].rep[bucket] \in Seq(AllKeys)
         /\ Len(parts[1].counts[bucket]) = Len(parts[1].rep[bucket])
<1>1. 1 \in Threads
  BY JobFacts DEF Threads
<1>2. ~BeforeSort
  BY DEF BeforeSort, BeforePartition, BeforeHistogram
<1>3. PartInv(parts[1], 1)
  BY <1>1, <1>2 DEF PartsInv
<1> QED  BY <1>3 DEF PartInv, JobInv

LEMMA MergeStepInv ==
  ASSUME JobInv, PartsInv, MergeInv, [Next]_vars
  PROVE  MergeInv'
<1> DEFINE counts == parts[1].counts[bucket]
           rep == parts[1].rep[bucket]
<1>1. CASE MergeSpillBucket
  <2>1. /\ MergeSpill(TotalOf, rep, counts) /\ pc = "spill"
        /\ UNCHANGED <<job, bucket, parts>>
    BY <1>1 DEF MergeSpillBucket, MergeSpill
  <2>3. counts \in Seq(Nat) /\ rep \in Seq(AllKeys)
    BY <2>1, CountsTyped
  <2>4. Units(counts, 1) = {} /\ SumOf(counts) \in Nat
    <3>1. Len(counts) + 1 \in 1 .. Len(counts) + 1
      BY <2>3
    <3> QED  BY <2>3, <3>1, UnitsFacts
  <2>5. /\ DOMAIN exc' = {"total", "input", "limit", "next", "ptr", "vals", "counts"}
        /\ exc'.total = TotalOf /\ exc'.input = TotalOf /\ exc'.next = 1 /\ exc'.ptr = 0
        /\ exc'.vals = rep /\ exc'.counts = counts
    BY <2>1 DEF MergeSpill
  <2>6. Cardinality(Units(exc'.counts, exc'.next)) = 0
    BY <2>4, <2>5, FS_EmptySet
  <2>7. TotalOf \in Nat /\ Len(exc'.vals) \in Nat
    BY <2>3, <2>4, <2>5 DEF TotalOf, Reported, Counted
  <2>8. Units(exc.counts, exc.next)' = Units(exc'.counts, exc'.next)
    BY DEF Units
  <2> QED  BY <2>1, <2>5, <2>6, <2>7, <2>8 DEF MergeInv
<1>2. CASE MergeStep
  <2> SUFFICES ASSUME job.fn = "sort_avx" PROVE MergeInv'
    BY <1>2 DEF MergeInv, MergeStep
  <2>1. pc = "repeated" /\ UNCHANGED <<job, pc, bucket, parts>> /\ (TakeInput \/ PutRepeated)
    BY <1>2 DEF MergeStep, Merging
  <2>2. /\ DOMAIN exc = {"total", "input", "limit", "next", "ptr", "vals", "counts"}
        /\ exc.vals = rep /\ exc.counts = counts
        /\ exc.next \in 1 .. Len(rep) + 1
        /\ exc.total \in Int /\ exc.input \in Int /\ exc.ptr \in Int
        /\ exc.ptr + exc.total = exc.input + Cardinality(Units(counts, exc.next))
    BY <2>1 DEF MergeInv
  <2>3. counts \in Seq(Nat) /\ Len(counts) = Len(rep) /\ Len(rep) \in Nat
    BY <2>1, CountsTyped
  <2>4. /\ Cardinality(Units(counts, exc.next)) \in Nat
        /\ exc.next \in 1 .. Len(counts) =>
             /\ Cardinality(Units(counts, exc.next + 1)) = Cardinality(Units(counts, exc.next)) + counts[exc.next]
             /\ counts[exc.next] \in Nat
    <3> HIDE DEF counts, rep
    <3>1. exc.next \in 1 .. Len(counts) + 1
      BY <2>2, <2>3
    <3>2. Cardinality(Units(counts, exc.next)) \in Nat
      BY <2>3, <3>1, UnitsFacts
    <3>3. ASSUME exc.next \in 1 .. Len(counts)
          PROVE  /\ Cardinality(Units(counts, exc.next + 1))
                      = Cardinality(Units(counts, exc.next)) + counts[exc.next]
                 /\ counts[exc.next] \in Nat
      BY <2>3, <3>3, UnitsFacts
    <3> QED  BY <3>2, <3>3
  <2>6. Units(exc.counts, exc.next)' = Units(exc'.counts, exc'.next)
    BY DEF Units
  <2> HIDE DEF counts, rep
  <2>7. CASE TakeInput
    <3>1. exc' = [exc EXCEPT !.input = exc.input + 1, !.ptr = exc.ptr + 1]
      BY <2>7 DEF TakeInput
    <3>2. /\ DOMAIN exc' = DOMAIN exc /\ exc'.vals = rep /\ exc'.counts = counts /\ exc'.next = exc.next
          /\ exc'.total = exc.total /\ exc'.input = exc.input + 1 /\ exc'.ptr = exc.ptr + 1
      BY <2>2, <3>1
    <3>3. exc'.ptr + exc'.total = exc'.input + Cardinality(Units(counts, exc'.next))
      <4>1. PICK q \in Int : q = exc.ptr
        BY <2>2
      <4>2. PICK j \in Int : j = exc.input
        BY <2>2
      <4>3. PICK a \in Int : a = exc.total
        BY <2>2
      <4>4. PICK b \in Nat : b = Cardinality(Units(counts, exc.next))
        BY <2>4
      <4>5. q + a = j + b
        BY <2>2, <4>1, <4>2, <4>3, <4>4
      <4>6. (q + 1) + a = (j + 1) + b
        BY <4>5
      <4> QED  BY <3>2, <4>1, <4>2, <4>3, <4>4, <4>6
    <3> QED  BY <2>1, <2>2, <2>6, <3>2, <3>3 DEF MergeInv, counts, rep
  <2>8. CASE PutRepeated
    <3>1. exc' = [exc EXCEPT !.next = exc.next + 1, !.ptr = exc.ptr + exc.counts[exc.next]]
          /\ exc.next <= Len(exc.vals)
      BY <2>8 DEF PutRepeated, RepeatedLeft, AfterCopies
    <3>2. /\ DOMAIN exc' = DOMAIN exc /\ exc'.vals = rep /\ exc'.counts = counts /\ exc'.next = exc.next + 1
          /\ exc'.total = exc.total /\ exc'.input = exc.input /\ exc'.ptr = exc.ptr + counts[exc.next]
      BY <2>2, <3>1
    <3>3. exc.next \in 1 .. Len(counts) /\ exc'.next \in 1 .. Len(rep) + 1
      BY <2>2, <2>3, <3>1, <3>2
    <3>4. /\ exc'.ptr + exc'.total = exc'.input + Cardinality(Units(counts, exc'.next))
          /\ exc'.ptr \in Int /\ exc'.input \in Int
      <4>1. counts[exc.next] \in Nat /\ Cardinality(Units(counts, exc.next)) \in Nat
            /\ Cardinality(Units(counts, exc'.next)) = Cardinality(Units(counts, exc.next)) + counts[exc.next]
        BY <2>4, <3>2, <3>3
      <4>2. /\ exc.ptr \in Int /\ exc.input \in Int
            /\ exc.ptr + exc.total = exc.input + Cardinality(Units(counts, exc.next))
        BY <2>2
      <4>3. PICK c \in Nat, u \in Nat, all \in Int, r \in Int, w \in Int :
              /\ c = counts[exc.next] /\ u = Cardinality(Units(counts, exc.next)) /\ all = exc.total
              /\ r = exc.input /\ w = exc.ptr
        BY <2>2, <4>1, <4>2
      <4>4. w + all = r + u
        BY <4>2, <4>3
      <4>5. (w + c) + all = r + (u + c)
        BY <4>4
      <4>6. exc'.total = all /\ exc'.ptr = w + c /\ exc'.input = r
            /\ Cardinality(Units(counts, exc'.next)) = u + c
        BY <3>2, <4>1, <4>3
      <4> QED  BY <4>3, <4>5, <4>6
    <3> QED  BY <2>1, <2>2, <2>6, <3>2, <3>3, <3>4 DEF MergeInv, counts, rep
  <2> QED  BY <2>1, <2>7, <2>8
<1>3. CASE MergeSpillOfPartitions
  BY <1>3 DEF MergeSpillOfPartitions, MergeSpill, MergeInv
<1>4. CASE MergeRepeated \/ MergeRepeatedOfPartitions
  BY <1>2, <1>4 DEF MergeRepeated, MergeRepeatedOfPartitions
<1>5. CASE \/ Validate \/ TrainOnOne \/ TrainOnTwo \/ (\E t \in Threads : Histogram(t))
           \/ (\E t \in Threads : Partition(t)) \/ Open \/ NextPartition \/ AllDistributed
           \/ SortMinors \/ EndBucket
  <2>1. pc' # "repeated"
    BY <1>5 DEF Validate, TrainOnOne, TrainOnTwo, Histogram, Partition, Open, NextPartition,
       Partitions, AllDistributed, SortMinors, EndBucket
  <2> QED  BY <2>1 DEF MergeInv
<1>6. CASE DistributeKeys
  <2>1. pc' # "repeated"
    BY <1>6, DistributeCases DEF DistributeKeys, Distributing
  <2> QED  BY <2>1 DEF MergeInv
<1>7. CASE UNCHANGED vars
  <2>1. UNCHANGED <<job, pc, bucket, parts, exc>>
    BY <1>7 DEF vars, pipeline
  <2>2. Units(exc.counts, exc.next)' = Units(exc.counts, exc.next)
    BY <2>1 DEF Units
  <2> QED  BY <2>1, <2>2 DEF MergeInv
<1>8. CASE \/ partition_major_buckets \/ partition_major_buckets_threaded
           \/ SortMinorBuckets \/ SortMinorBucketsOfPartitions
  BY <1>5, <1>8 DEF partition_major_buckets, partition_major_buckets_threaded,
     SortMinorBuckets, SortMinorBucketsOfPartitions
<1> QED  BY <1>1, <1>3, <1>4, <1>5, <1>6, <1>7, <1>8 DEF Next, Loops
-----------------------------------------------------------------------------
(* The theorems.                                                           *)

LEMMA InitInv ==
  ASSUME Init
  PROVE  SortInv
<1>1. job \in Jobs /\ hp = job.params /\ bucket = 0 /\ pc = "validate"
      /\ hist = [t \in Threads |-> << >>] /\ parts = [t \in Threads |-> << >>]
  BY DEF Init
<1>2. JobInv
  <2>1. /\ job.params \in [batch : Nat, fanout : Nat, sampling_rate : Nat, threshold : Nat, arch : Nat]
        /\ job.fanout \in Nat \ {0}
    BY <1>1, LearnedSortAssumption
  <2> QED  BY <1>1, <2>1 DEF JobInv, Majors
<1>3. PartsInv
  BY <1>1 DEF PartsInv, BeforeSort, BeforePartition, BeforeHistogram
<1>4. SourceInv /\ RegistersInv /\ BucketsInv /\ MergeInv
  BY <1>1 DEF SourceInv, RegistersInv, BucketsInv, MergeInv, Distributing
<1> QED  BY <1>2, <1>3, <1>4 DEF SortInv

LEMMA StepInv ==
  ASSUME SortInv, [Next]_vars
  PROVE  SortInv'
  BY JobStep, PartsStep, SourceStep, RegistersStep, BucketsStep, MergeStepInv DEF SortInv

\* The invariant holds: the keys of each register are of its stage, the buckets
\* hold their own keys only, and no more than the threshold.
THEOREM SortInductive == Spec => []SortInv
<1>1. Init => SortInv
  BY InitInv
<1>2. SortInv /\ [Next]_vars => SortInv'
  BY StepInv
<1> QED  BY <1>1, <1>2, PTL DEF Spec

\* The residue's keys lie in its first lanes and never fill it, and the
\* registers counted as finished hold none.
THEOREM ResidueStaysPacked == Spec => []ResidueIsPacked
<1>1. SortInv => ResidueIsPacked
  <2> SUFFICES ASSUME SortInv, Distributing
               PROVE  /\ Held(state[Residue].lanes) = 1 .. NumResidue /\ NumResidue < Lanes
                      /\ done = Cardinality({i \in 0 .. (SIMDStateSize - 1) : state[i].stage = 3})
                      /\ \A i \in 0 .. (SIMDStateSize - 1) :
                            state[i].stage \in {1, 3} <=> Held(state[i].lanes) = {}
    BY DEF ResidueIsPacked
  <2>1. RegistersInv
    BY DEF SortInv
  <2>2. Held(state[Residue].lanes) = 1 .. NumResidue /\ NumResidue < Lanes
    BY <2>1, RegisterFacts
  <2>3. done = Cardinality({i \in 0 .. (SIMDStateSize - 1) : state[i].stage = 3})
    BY <2>1 DEF RegistersInv, Registers
  <2>4. \A i \in Registers : state[i].stage \in {1, 3} <=> Held(state[i].lanes) = {}
    BY <2>1 DEF RegistersInv, GoodRegister
  <2> QED  BY <2>2, <2>3, <2>4 DEF Registers
<1> QED  BY <1>1, SortInductive, PTL

\* A bucket of a thread's partition takes no more than the space that the
\* histogram counted and a place for each of its keys that the last batch reads
\* beyond the part, whatever the length of the parts.
THEOREM PartitionsFitHistogram == Spec => []PartitionsFit
<1>1. SortInv => PartitionsFit
  <2> SUFFICES ASSUME SortInv, NEW t \in Threads, parts[t] # << >>, NEW i \in Majors
               PROVE  Len(parts[t].bckt[i]) <= hist[t][i] + Len(Into(KeysBeyond(t), i))
    BY DEF PartitionsFit
  <2>1. PartInv(parts[t], t) /\ ~BeforePartition
    BY DEF SortInv, PartsInv
  <2>2. hist[t] = HistOf(t)
    BY <2>1 DEF SortInv, PartsInv
  <2>3. Len(parts[t].bckt[i]) <= Len(Into(KeysOf(t), i)) + Len(Into(KeysBeyond(t), i))
    BY <2>1 DEF PartInv
  <2> QED  BY <2>2, <2>3 DEF HistOf
<1> QED  BY <1>1, SortInductive, PTL

\* Whatever sort_avx is told of the repeated keys, the merge's writing is ahead
\* of its reading by no more than the copies it was not told of.
THEOREM MergeReadsFirst == Spec => [](job.fn = "sort_avx" => ReadBeforeWritten)
<1>1. SortInv => (job.fn = "sort_avx" => ReadBeforeWritten)
  <2> SUFFICES ASSUME SortInv, job.fn = "sort_avx", pc = "repeated"
               PROVE  exc.ptr + exc.total <= exc.input + SumOf(exc.counts)
    BY DEF ReadBeforeWritten
  <2> DEFINE counts == parts[1].counts[bucket]
  <2>1. counts \in Seq(Nat) /\ Len(counts) = Len(parts[1].rep[bucket])
    BY CountsTyped DEF SortInv
  <2>2. /\ exc.next \in 1 .. Len(parts[1].rep[bucket]) + 1 /\ exc.input \in Int /\ exc.ptr \in Int
        /\ exc.ptr + exc.total = exc.input + Cardinality(Units(counts, exc.next))
        /\ exc.counts = counts
    BY DEF SortInv, MergeInv
  <2> HIDE DEF counts
  <2>4. /\ Cardinality(Units(counts, exc.next)) \in Nat /\ SumOf(counts) \in Nat
        /\ Cardinality(Units(counts, exc.next)) <= SumOf(counts)
    <3>1. Len(counts) + 1 \in 1 .. Len(counts) + 1
      BY <2>1
    <3> QED  BY <2>1, <2>2, <3>1, UnitsFacts
  <2> QED  BY <2>2, <2>4
<1> QED  BY <1>1, SortInductive, PTL
-----------------------------------------------------------------------------
(* The refinement of BoundedBuckets: counting the waiting keys.            *)

Rows(I, S) == UNION {{i} \X S[i] : i \in I}

LEMMA RowMember ==
  ASSUME NEW I, NEW S
  PROVE  \A u : u \in Rows(I, S) <=> \E i \in I : \E n \in S[i] : u = <<i, n>>
  BY DEF Rows

LEMMA RowCount ==
  ASSUME NEW i, NEW A, IsFiniteSet(A)
  PROVE  IsFiniteSet({i} \X A) /\ Cardinality({i} \X A) = Cardinality(A)
<1>1. IsFiniteSet({i}) /\ Cardinality({i}) = 1 /\ Cardinality(A) \in Nat
  BY FS_Singleton, FS_CardinalityType
<1>2. Cardinality({i} \X A) = Cardinality({i}) * Cardinality(A) /\ IsFiniteSet({i} \X A)
  BY <1>1, FS_Product, Zenon
<1> QED  BY <1>1, <1>2

LEMMA RowsFinite ==
  ASSUME NEW I, IsFiniteSet(I), NEW S, \A i \in I : IsFiniteSet(S[i])
  PROVE  IsFiniteSet(Rows(I, S)) /\ Cardinality(Rows(I, S)) \in Nat
<1> DEFINE R == {{i} \X S[i] : i \in I}
           g == [i \in I |-> {i} \X S[i]]
<1>1. g \in [I -> R] /\ \A r \in R : \E i \in I : g[i] = r
  OBVIOUS
<1>2. ASSUME NEW r \in R PROVE IsFiniteSet(r)
  <2>1. PICK i \in I : r = {i} \X S[i]
    OBVIOUS
  <2> QED  BY <2>1, RowCount
<1>3. Rows(I, S) = UNION R
  BY DEF Rows
<1> HIDE DEF R, g
<1>4. g \in Surjection(I, R)
  BY <1>1 DEF Surjection
<1>5. IsFiniteSet(R)
  BY <1>4, FS_Surjection, Zenon
<1> QED  BY <1>2, <1>3, <1>5, FS_UNION, FS_CardinalityType

\* One row is changed.
LEMMA RowChange ==
  ASSUME NEW I, IsFiniteSet(I), NEW S, NEW T, \A i \in I : IsFiniteSet(S[i]) /\ IsFiniteSet(T[i]),
         NEW c \in I, \A i \in I : i # c => T[i] = S[i]
  PROVE  /\ Cardinality(Rows(I, S)) \in Nat /\ Cardinality(Rows(I, T)) \in Nat
         /\ Cardinality(S[c]) \in Nat /\ Cardinality(T[c]) \in Nat
         /\ Cardinality(Rows(I, S)) + Cardinality(T[c]) = Cardinality(Rows(I, T)) + Cardinality(S[c])
<1> DEFINE J == I \ {c}
<1>1. IsFiniteSet(J)
  BY FS_Subset
<1>2. ASSUME NEW V, \A i \in I : IsFiniteSet(V[i])
      PROVE  /\ Cardinality(Rows(J, V)) \in Nat /\ Cardinality(V[c]) \in Nat
             /\ Cardinality(Rows(I, V)) = Cardinality(V[c]) + Cardinality(Rows(J, V))
  <2>1. PICK A, B, C : A = {c} \X V[c] /\ B = Rows(J, V) /\ C = Rows(I, V)
    OBVIOUS
  <2>2. C = A \cup B
    BY <2>1, RowMember
  <2>3. \A a \in A : a \notin B
    BY <2>1, RowMember
  <2>4. IsFiniteSet(A) /\ Cardinality(A) = Cardinality(V[c])
    BY <1>2, <2>1, RowCount
  <2>5. IsFiniteSet(B)
    BY <1>1, <1>2, <2>1, RowsFinite
  <2>6. /\ Cardinality(A \cup B) = Cardinality(A) + Cardinality(B)
        /\ Cardinality(A) \in Nat /\ Cardinality(B) \in Nat
    BY <2>3, <2>4, <2>5, DisjointCount
  <2> QED  BY <2>1, <2>2, <2>4, <2>6
<1>3. Rows(J, S) = Rows(J, T)
  <2>1. \A u : u \in Rows(J, S) <=> u \in Rows(J, T)
    BY RowMember
  <2> QED  BY <2>1
<1> HIDE DEF J
<1>4. /\ Cardinality(Rows(J, S)) \in Nat /\ Cardinality(S[c]) \in Nat
      /\ Cardinality(Rows(I, S)) = Cardinality(S[c]) + Cardinality(Rows(J, S))
  BY <1>2
<1>5. /\ Cardinality(T[c]) \in Nat
      /\ Cardinality(Rows(I, T)) = Cardinality(T[c]) + Cardinality(Rows(J, T))
  BY <1>2
<1> QED  BY <1>3, <1>4, <1>5

\* The waiting copies of a key, of each partition from the current one on
\* and of each register.
UnreadRow(x, q) == {n \in DOMAIN source[q] : (q > p \/ n > cur) /\ source[q][n] = x}
UnreadRows(x) == [q \in p .. Len(source) |-> UnreadRow(x, q)]
LaneRows(x) == [r \in 0 .. SIMDStateSize |-> KeyLanes(state[r].lanes, x)]
UnreadCount(x) == Cardinality(Rows(p .. Len(source), UnreadRows(x)))
FlightCount(x) == Cardinality(Rows(0 .. SIMDStateSize, LaneRows(x)))

LEMMA WaitingFacts ==
  Waiting = [x \in AllKeys |-> UnreadCount(x) + FlightCount(x)]
<1>1. ASSUME NEW x
      PROVE  {u \in Unread : source[u[1]][u[2]] = x} = Rows(p .. Len(source), UnreadRows(x))
  <2>1. PICK I : I = p .. Len(source)
    OBVIOUS
  <2>2. \A u : u \in Unread <=> \E q \in I : \E n \in {m \in DOMAIN source[q] : q > p \/ m > cur} : u = <<q, n>>
    BY <2>1 DEF Unread
  <2>3. \A q \in I : UnreadRows(x)[q] = UnreadRow(x, q)
    BY <2>1 DEF UnreadRows
  <2>4. \A u : u \in Rows(I, UnreadRows(x)) <=> \E q \in I : \E n \in UnreadRow(x, q) : u = <<q, n>>
    BY <2>3, RowMember
  <2>5. \A u : u \in Unread /\ source[u[1]][u[2]] = x <=> u \in Rows(I, UnreadRows(x))
    BY <2>2, <2>4 DEF UnreadRow
  <2> QED  BY <2>1, <2>5
<1>2. ASSUME NEW x
      PROVE  {u \in InFlight : state[u[1]].lanes[u[2]].key = x} = Rows(0 .. SIMDStateSize, LaneRows(x))
  <2>1. PICK I : I = 0 .. SIMDStateSize
    OBVIOUS
  <2>2. \A u : u \in InFlight <=> \E r \in I : \E n \in Held(state[r].lanes) : u = <<r, n>>
    BY <2>1 DEF InFlight
  <2>3. \A r \in I : LaneRows(x)[r] = KeyLanes(state[r].lanes, x)
    BY <2>1 DEF LaneRows
  <2>4. \A u : u \in Rows(I, LaneRows(x)) <=> \E r \in I : \E n \in KeyLanes(state[r].lanes, x) : u = <<r, n>>
    BY <2>3, RowMember
  <2>5. \A u : u \in InFlight /\ state[u[1]].lanes[u[2]].key = x <=> u \in Rows(I, LaneRows(x))
    BY <2>2, <2>4 DEF KeyLanes
  <2> QED  BY <2>1, <2>5
<1> QED  BY <1>1, <1>2 DEF Waiting, UnreadCount, FlightCount

LEMMA PartitionFacts ==
  ASSUME JobInv, SourceInv, Distributing
  PROVE  /\ Len(source) \in Nat /\ p \in Nat /\ p \in p .. Len(source)
         /\ \A q \in p .. Len(source) : source[q] \in Seq(AllKeys)
         /\ \A x : \A q \in p .. Len(source) : IsFiniteSet(UnreadRow(x, q))
         /\ \A x : UnreadCount(x) \in Nat
<1>1. source \in [Threads -> Seq(AllKeys)] /\ p \in Threads /\ job.threads \in Nat
  BY SizeFacts, JobFacts
<1>2. Len(source) = job.threads
  BY <1>1 DEF Threads
<1>3. /\ Len(source) \in Nat /\ p \in Nat /\ p \in p .. Len(source)
      /\ \A q \in p .. Len(source) : q \in Threads
  BY <1>1, <1>2 DEF Threads
<1>4. \A q \in p .. Len(source) : source[q] \in Seq(AllKeys)
  BY <1>1, <1>3
<1>5. ASSUME NEW x, NEW q \in p .. Len(source) PROVE IsFiniteSet(UnreadRow(x, q))
  <2>1. source[q] \in Seq(AllKeys)
    BY <1>4
  <2>2. \A n \in UnreadRow(x, q) : n \in 1 .. Len(source[q])
    BY <2>1 DEF UnreadRow
  <2>3. UnreadRow(x, q) \in SUBSET (1 .. Len(source[q]))
    BY <2>2
  <2>4. IsFiniteSet(1 .. Len(source[q]))
    BY <2>1, FS_Interval
  <2> QED  BY <2>3, <2>4, FS_Subset, Zenon
<1>6. ASSUME NEW x PROVE UnreadCount(x) \in Nat
  <2>1. PICK I : I = p .. Len(source)
    OBVIOUS
  <2>2. IsFiniteSet(I)
    BY <1>3, <2>1, FS_Interval
  <2>3. \A q \in I : IsFiniteSet(UnreadRows(x)[q])
    BY <1>5, <2>1 DEF UnreadRows
  <2> QED  BY <2>1, <2>2, <2>3, RowsFinite DEF UnreadCount
<1> QED  BY <1>3, <1>4, <1>5, <1>6

\* The current partition's keys from place c on.
Own(x, c) == {n \in DOMAIN Keys : n > c /\ Keys[n] = x}

LEMMA OwnSplit ==
  ASSUME NEW X, Keys \in Seq(X), NEW c \in Nat, NEW n \in Nat, c + n <= Len(Keys), NEW x
  PROVE  /\ Cardinality(Own(x, c)) = Cardinality({m \in 1 .. n : Keys[c + m] = x}) + Cardinality(Own(x, c + n))
         /\ Cardinality({m \in 1 .. n : Keys[c + m] = x}) \in Nat /\ Cardinality(Own(x, c + n)) \in Nat
<1> DEFINE A == {m \in 1 .. n : Keys[c + m] = x}
           B == {i \in DOMAIN Keys : i > c /\ i <= c + n /\ Keys[i] = x}
           C == Own(x, c + n)
           D == Own(x, c)
<1>1. DOMAIN Keys = 1 .. Len(Keys) /\ Len(Keys) \in Nat
  OBVIOUS
<1>2. D = B \cup C /\ \A i \in B : i \notin C
  BY <1>1 DEF Own
<1>3. /\ \A i \in Int : i \in B <=> i - c \in A
      /\ \A i \in A : i \in Int
      /\ \A i \in B : i \in Int
  BY <1>1
<1>4. A \in SUBSET (1 .. n) /\ IsFiniteSet(1 .. n)
  BY FS_Interval
<1>5. C \in SUBSET (1 .. Len(Keys)) /\ IsFiniteSet(1 .. Len(Keys))
  BY <1>1, FS_Interval DEF Own
<1> HIDE DEF A, B, C, D
<1>6. IsFiniteSet(A) /\ IsFiniteSet(C)
  BY <1>4, <1>5, FS_Subset, Zenon
<1>7. IsFiniteSet(B) /\ Cardinality(B) = Cardinality(A) /\ Cardinality(A) \in Nat
  <2>1. c \in Int
    OBVIOUS
  <2> QED  BY <1>3, <1>6, <2>1, ShiftCount, Zenon
<1>8. Cardinality(D) = Cardinality(B) + Cardinality(C) /\ Cardinality(C) \in Nat
  BY <1>2, <1>6, <1>7, DisjointCount
<1> QED  BY <1>7, <1>8 DEF A, C, D

\* Reading on in the partition.
LEMMA UnreadChange ==
  ASSUME JobInv, SourceInv, Distributing, UNCHANGED <<p, source>>, cur \in Nat, cur' \in Nat,
         NEW n \in Nat, cur + n <= Size, cur' = cur + n \/ (cur + n = Size /\ cur' >= Size), NEW x
  PROVE  /\ UnreadCount(x)' + Cardinality({m \in 1 .. n : Keys[cur + m] = x}) = UnreadCount(x)
         /\ UnreadCount(x)' \in Nat /\ Cardinality({m \in 1 .. n : Keys[cur + m] = x}) \in Nat
<1> DEFINE T == [q \in p .. Len(source) |->
                    {m \in DOMAIN source[q] : (q > p \/ m > cur') /\ source[q][m] = x}]
<1>1. /\ Len(source) \in Nat /\ p \in Nat /\ p \in p .. Len(source)
      /\ \A q \in p .. Len(source) : source[q] \in Seq(AllKeys)
      /\ \A q \in p .. Len(source) : IsFiniteSet(UnreadRow(x, q))
  BY PartitionFacts
<1>2. Keys \in Seq(AllKeys) /\ Size = Len(Keys) /\ Keys = source[p]
  BY <1>1 DEF Keys, Size
<1>3. /\ Cardinality(Own(x, cur)) = Cardinality({m \in 1 .. n : Keys[cur + m] = x}) + Cardinality(Own(x, cur + n))
      /\ Cardinality({m \in 1 .. n : Keys[cur + m] = x}) \in Nat /\ Cardinality(Own(x, cur + n)) \in Nat
  BY <1>2, OwnSplit
<1>4. Own(x, cur') = Own(x, cur + n)
  <2>1. CASE cur' = cur + n
    BY <2>1
  <2>2. CASE cur + n = Size /\ cur' >= Size
    <3>1. DOMAIN Keys = 1 .. Size /\ Size \in Nat
      BY <1>2
    <3>2. \A m \in DOMAIN Keys : ~(m > cur') /\ ~(m > cur + n)
      BY <2>2, <3>1
    <3> QED  BY <3>2 DEF Own
  <2> QED  BY <2>1, <2>2
<1>5. UnreadRows(x)[p] = Own(x, cur) /\ T[p] = Own(x, cur')
  BY <1>1, <1>2 DEF UnreadRows, UnreadRow, Own
<1>6. UnreadRows(x)' = T
  BY DEF UnreadRows, UnreadRow
<1>7. \A q \in p .. Len(source) : q # p => T[q] = UnreadRows(x)[q]
  BY <1>1 DEF UnreadRows, UnreadRow
<1>8. \A q \in p .. Len(source) : IsFiniteSet(UnreadRows(x)[q]) /\ IsFiniteSet(T[q])
  <2>1. \A q \in p .. Len(source) : IsFiniteSet(UnreadRows(x)[q])
    BY <1>1 DEF UnreadRows
  <2>2. IsFiniteSet(Own(x, cur'))
    <3>1. Own(x, cur') \in SUBSET (1 .. Size)
      BY <1>2 DEF Own
    <3>2. IsFiniteSet(1 .. Size)
      <4>1. PICK n1 \in Nat : n1 = Size
        BY <1>2
      <4> QED  BY <4>1, FS_Interval
    <3> QED  BY <3>1, <3>2, FS_Subset, Zenon
  <2> HIDE DEF T
  <2> QED  BY <1>5, <1>7, <2>1, <2>2
<1> HIDE DEF T
<1>9. /\ Cardinality(Rows(p .. Len(source), UnreadRows(x))) \in Nat
      /\ Cardinality(Rows(p .. Len(source), T)) \in Nat
      /\ Cardinality(Rows(p .. Len(source), UnreadRows(x))) + Cardinality(T[p])
           = Cardinality(Rows(p .. Len(source), T)) + Cardinality(UnreadRows(x)[p])
  <2>1. PICK I : I = p .. Len(source)
    OBVIOUS
  <2>2. IsFiniteSet(I) /\ p \in I
    BY <1>1, <2>1, FS_Interval
  <2>3. /\ \A q \in I : IsFiniteSet(UnreadRows(x)[q]) /\ IsFiniteSet(T[q])
        /\ \A q \in I : q # p => T[q] = UnreadRows(x)[q]
    BY <1>7, <1>8, <2>1
  <2>4. PICK S : S = UnreadRows(x)
    OBVIOUS
  <2>5. /\ Cardinality(Rows(I, S)) \in Nat /\ Cardinality(Rows(I, T)) \in Nat
        /\ Cardinality(Rows(I, S)) + Cardinality(T[p]) = Cardinality(Rows(I, T)) + Cardinality(S[p])
    BY <2>2, <2>3, <2>4, RowChange
  <2> QED  BY <2>1, <2>4, <2>5
<1>10. UnreadCount(x) = Cardinality(Rows(p .. Len(source), UnreadRows(x)))
       /\ UnreadCount(x)' = Cardinality(Rows(p .. Len(source), T))
  BY <1>6 DEF UnreadCount, Rows
<1> QED  BY <1>3, <1>4, <1>5, <1>9, <1>10

LEMMA RegisterNumber ==
  IsFiniteSet(0 .. SIMDStateSize)
  BY LaneNumber, FS_Interval

\* One register changes.
SameBut(c, x) ==
  /\ c \in 0 .. SIMDStateSize
  /\ \A r \in 0 .. SIMDStateSize : r # c => KeyLanes(state'[r].lanes, x) = KeyLanes(state[r].lanes, x)

LEMMA FlightChange ==
  ASSUME NEW x, NEW c, SameBut(c, x)
  PROVE  /\ FlightCount(x) \in Nat /\ FlightCount(x)' \in Nat
         /\ FlightCount(x) + LaneCount(state'[c].lanes, x) = FlightCount(x)' + LaneCount(state[c].lanes, x)
<1> DEFINE T == [r \in 0 .. SIMDStateSize |-> KeyLanes(state'[r].lanes, x)]
<1>1. PICK I : I = 0 .. SIMDStateSize
  OBVIOUS
<1>2. IsFiniteSet(I) /\ c \in I
  BY <1>1, RegisterNumber DEF SameBut
<1>3. PICK S : S = LaneRows(x)
  OBVIOUS
<1>4. \A r \in I : S[r] = KeyLanes(state[r].lanes, x) /\ T[r] = KeyLanes(state'[r].lanes, x)
  BY <1>1, <1>3 DEF LaneRows
<1>5. LaneRows(x)' = T
  BY DEF LaneRows, KeyLanes, Held
<1> HIDE DEF T
<1>6. \A r \in I : IsFiniteSet(S[r]) /\ IsFiniteSet(T[r])
  BY <1>4, HeldFinite
<1>7. \A r \in I : r # c => T[r] = S[r]
  BY <1>1, <1>4 DEF SameBut
<1>8. /\ Cardinality(Rows(I, S)) \in Nat /\ Cardinality(Rows(I, T)) \in Nat
      /\ Cardinality(Rows(I, S)) + Cardinality(T[c]) = Cardinality(Rows(I, T)) + Cardinality(S[c])
  BY <1>2, <1>6, <1>7, RowChange
<1>9. FlightCount(x) = Cardinality(Rows(I, S)) /\ FlightCount(x)' = Cardinality(Rows(I, T))
  BY <1>1, <1>3, <1>5 DEF FlightCount, Rows
<1> QED  BY <1>2, <1>4, <1>8, <1>9 DEF LaneCount

\* Register k and the residue change.
LEMMA FlightChangeTwo ==
  ASSUME RegistersInv, Distributing, NEW x,
         \A r \in 0 .. SIMDStateSize : r # k /\ r # Residue => state'[r] = state[r]
  PROVE  /\ FlightCount(x) \in Nat /\ FlightCount(x)' \in Nat
         /\ FlightCount(x) + LaneCount(state'[k].lanes, x) + LaneCount(state'[Residue].lanes, x)
              = FlightCount(x)' + LaneCount(state[k].lanes, x) + LaneCount(state[Residue].lanes, x)
<1> DEFINE T == [r \in 0 .. SIMDStateSize |-> KeyLanes(state'[r].lanes, x)]
           M == [r \in 0 .. SIMDStateSize |-> IF r = k THEN KeyLanes(state'[r].lanes, x)
                                              ELSE KeyLanes(state[r].lanes, x)]
<1>1. PICK I : I = 0 .. SIMDStateSize
  OBVIOUS
<1>2. IsFiniteSet(I) /\ k \in I /\ Residue \in I /\ k # Residue
  <2>1. k # Residue /\ DOMAIN state = 0 .. SIMDStateSize /\ k \in DOMAIN state /\ Residue \in DOMAIN state
    BY RegisterFacts
  <2> QED  BY <1>1, <2>1, RegisterNumber
<1>3. PICK S : S = LaneRows(x)
  OBVIOUS
<1>4. \A r \in I : /\ S[r] = KeyLanes(state[r].lanes, x) /\ T[r] = KeyLanes(state'[r].lanes, x)
                   /\ M[r] = IF r = k THEN T[r] ELSE S[r]
  BY <1>1, <1>3 DEF LaneRows
<1>5. LaneRows(x)' = T
  BY DEF LaneRows, KeyLanes, Held
<1> HIDE DEF T, M
<1>6. \A r \in I : IsFiniteSet(S[r]) /\ IsFiniteSet(T[r])
  BY <1>4, HeldFinite
<1>7. \A r \in I : IsFiniteSet(M[r])
  BY <1>4, <1>6
<1>8. \A r \in I : (r # k => M[r] = S[r]) /\ (r # Residue => T[r] = M[r])
  <2>1. \A r \in I : r # k /\ r # Residue => T[r] = S[r]
    BY <1>1, <1>4
  <2> QED  BY <1>4, <2>1
<1>9. /\ Cardinality(Rows(I, S)) \in Nat /\ Cardinality(Rows(I, M)) \in Nat
      /\ Cardinality(Rows(I, S)) + Cardinality(M[k]) = Cardinality(Rows(I, M)) + Cardinality(S[k])
  BY <1>2, <1>6, <1>7, <1>8, RowChange
<1>10. /\ Cardinality(Rows(I, T)) \in Nat
       /\ Cardinality(Rows(I, M)) + Cardinality(T[Residue]) = Cardinality(Rows(I, T)) + Cardinality(M[Residue])
  BY <1>2, <1>6, <1>7, <1>8, RowChange
<1>11. M[k] = T[k] /\ M[Residue] = S[Residue]
  BY <1>2, <1>4
<1>12. \A r \in {k, Residue} : Cardinality(S[r]) \in Nat /\ Cardinality(T[r]) \in Nat
  BY <1>2, <1>6, FS_CardinalityType
<1>13. FlightCount(x) = Cardinality(Rows(I, S)) /\ FlightCount(x)' = Cardinality(Rows(I, T))
  BY <1>1, <1>3, <1>5 DEF FlightCount, Rows
<1>14. Cardinality(Rows(I, S)) + Cardinality(T[k]) + Cardinality(T[Residue])
         = Cardinality(Rows(I, T)) + Cardinality(S[k]) + Cardinality(S[Residue])
  BY <1>9, <1>10, <1>11, <1>12
<1> QED  BY <1>2, <1>4, <1>9, <1>10, <1>13, <1>14 DEF LaneCount

WaitCount(x) == UnreadCount(x) + FlightCount(x)

LEMMA FlightType ==
  ASSUME NEW x
  PROVE  FlightCount(x) \in Nat
<1>1. PICK I : I = 0 .. SIMDStateSize
  OBVIOUS
<1>2. \A r \in I : IsFiniteSet(LaneRows(x)[r])
  BY <1>1, HeldFinite DEF LaneRows
<1>3. IsFiniteSet(I)
  BY <1>1, RegisterNumber
<1> QED  BY <1>1, <1>2, <1>3, RowsFinite DEF FlightCount

LEMMA FlightSame ==
  ASSUME NEW x, \A r \in 0 .. SIMDStateSize : KeyLanes(state'[r].lanes, x) = KeyLanes(state[r].lanes, x)
  PROVE  FlightCount(x)' = FlightCount(x)
<1>1. LaneRows(x)' = [r \in 0 .. SIMDStateSize |-> KeyLanes(state'[r].lanes, x)]
  BY DEF LaneRows, KeyLanes, Held
<1>2. LaneRows(x)' = LaneRows(x)
  BY <1>1 DEF LaneRows
<1> QED  BY <1>2 DEF FlightCount, Rows

LEMMA UnreadSame ==
  ASSUME UNCHANGED <<p, cur, source>>
  PROVE  \A x : UnreadCount(x)' = UnreadCount(x)
  BY DEF UnreadCount, UnreadRows, UnreadRow, Rows

\* A step of the distribution places as many copies of each key as no longer wait.
LEMMA WaitingStep ==
  ASSUME JobInv, SourceInv, RegistersInv, Distribute, UNCHANGED <<job, hp, model, bucket, source>>
  PROVE  \/ UNCHANGED <<minor, spill>> /\ \A x : WaitCount(x)' = WaitCount(x)
         \/ \E items \in Seq(Routed) :
              /\ Placed(items)
              /\ \A x : WaitCount(x)' \in Nat /\ WaitCount(x)' + ItemCount(items, x) = WaitCount(x)
<1>1. Distributing /\ p' = p
  BY DistributeCases, DistributeKeepsP
<1>2. cur \in Nat /\ k \in 0 .. SIMDStateSize /\ Residue \in 0 .. SIMDStateSize /\ k # Residue
  BY <1>1, RegisterFacts
<1>3. \A x : UnreadCount(x) \in Nat /\ FlightCount(x) \in Nat
  BY <1>1, PartitionFacts, FlightType
<1>4. Size \in Nat /\ Lanes \in Nat
  BY <1>1, SizeFacts, LaneNumber
<1>5. \A lanes, x : LaneCount(lanes, x) \in Nat
  BY HeldFinite
<1>6. CASE FullBatch \/ LastBatch
  <2>1. PICK n \in Nat, items \in Seq(Routed) :
          /\ cur' = cur + n /\ cur + n <= Size /\ Placed(items) /\ UNCHANGED state
          /\ \A x : ItemCount(items, x) = Cardinality({m \in 1 .. n : Keys[cur + m] = x})
    BY <1>1, <1>6, BatchFacts
  <2>2. ASSUME NEW x PROVE WaitCount(x)' \in Nat /\ WaitCount(x)' + ItemCount(items, x) = WaitCount(x)
    <3>1. FlightCount(x)' = FlightCount(x)
      <4>1. \A r \in 0 .. SIMDStateSize : KeyLanes(state'[r].lanes, x) = KeyLanes(state[r].lanes, x)
        BY <2>1
      <4> QED  BY <4>1, FlightSame
    <3>2. cur' \in Nat
      BY <1>2, <2>1
    <3>3. /\ UnreadCount(x)' + Cardinality({m \in 1 .. n : Keys[cur + m] = x}) = UnreadCount(x)
          /\ UnreadCount(x)' \in Nat /\ Cardinality({m \in 1 .. n : Keys[cur + m] = x}) \in Nat
      BY <1>1, <1>2, <2>1, <3>2, UnreadChange
    <3>4. ItemCount(items, x) = Cardinality({m \in 1 .. n : Keys[cur + m] = x})
      BY <2>1
    <3> QED  BY <1>3, <3>1, <3>3, <3>4 DEF WaitCount
  <2> QED  BY <2>1, <2>2
<1>7. CASE job.imv /\ (Finish \/ PassBy \/ PredictFull \/ PredictPartial)
  <2>1. /\ UNCHANGED <<p, cur, minor, spill>>
        /\ \A r \in 0 .. SIMDStateSize :
              /\ Held(state'[r].lanes) = Held(state[r].lanes)
              /\ \A j \in Held(state[r].lanes) : state'[r].lanes[j].key = state[r].lanes[j].key
    BY <1>1, <1>7, TurnFacts
  <2>2. ASSUME NEW x PROVE WaitCount(x)' = WaitCount(x)
    <3>1. \A r \in 0 .. SIMDStateSize : KeyLanes(state'[r].lanes, x) = KeyLanes(state[r].lanes, x)
      BY <2>1 DEF KeyLanes
    <3>2. FlightCount(x)' = FlightCount(x)
      BY <3>1, FlightSame
    <3>3. UnreadCount(x)' = UnreadCount(x)
      BY <2>1, UnreadSame
    <3> QED  BY <3>2, <3>3 DEF WaitCount
  <2> QED  BY <2>1, <2>2
<1>8. CASE job.imv /\ (FetchFull \/ FetchPartial)
  <2>1. /\ UNCHANGED <<minor, spill>> /\ cur' = cur + Lanes /\ Held(state[k].lanes) = {}
        /\ \A r \in 0 .. SIMDStateSize : r # k => state'[r] = state[r]
    BY <1>1, <1>8, FetchFacts
  <2>2. PICK n \in 1 .. Lanes :
          /\ cur + n <= Size /\ (n = Lanes \/ cur + n = Size)
          /\ Held(state'[k].lanes) = 1 .. n
          /\ \A j \in 1 .. n : state'[k].lanes[j].key = Keys[cur + j]
    BY <1>1, <1>8, FetchFacts
  <2>3. ASSUME NEW x PROVE WaitCount(x)' = WaitCount(x)
    <3>1. SameBut(k, x)
      BY <1>2, <2>1 DEF SameBut
    <3>2. /\ FlightCount(x)' \in Nat
          /\ FlightCount(x) + LaneCount(state'[k].lanes, x) = FlightCount(x)' + LaneCount(state[k].lanes, x)
      BY <3>1, FlightChange
    <3>3. LaneCount(state[k].lanes, x) = 0
      <4>1. KeyLanes(state[k].lanes, x) = {}
        BY <2>1 DEF KeyLanes
      <4> QED  BY <4>1, FS_EmptySet DEF LaneCount
    <3>4. LaneCount(state'[k].lanes, x) = Cardinality({m \in 1 .. n : Keys[cur + m] = x})
      <4>1. KeyLanes(state'[k].lanes, x) = {m \in 1 .. n : Keys[cur + m] = x}
        BY <2>2 DEF KeyLanes
      <4> QED  BY <4>1 DEF LaneCount
    <3>5. n \in Nat /\ cur' \in Nat /\ (cur' = cur + n \/ (cur + n = Size /\ cur' >= Size))
      BY <1>2, <1>4, <2>1, <2>2
    <3>6. UnreadCount(x)' + Cardinality({m \in 1 .. n : Keys[cur + m] = x}) = UnreadCount(x)
          /\ UnreadCount(x)' \in Nat
      <4>1. cur + n <= Size
        BY <2>2
      <4> QED  BY <1>1, <1>2, <3>5, <4>1, UnreadChange
    <3>7. LaneCount(state'[k].lanes, x) \in Nat
      BY <1>5
    <3> QED  BY <1>3, <3>2, <3>3, <3>4, <3>6, <3>7 DEF WaitCount
  <2> QED  BY <2>1, <2>3
<1>9. CASE job.imv /\ (ScatterAll \/ ScatterAndPack \/ ScatterAndRefill)
  <2>1. /\ UNCHANGED <<p, cur>>
        /\ \A r \in 0 .. SIMDStateSize : r # k /\ r # Residue => state'[r] = state[r]
    BY <1>1, <1>9, ScatterFacts
  <2>2. PICK items \in Seq(Routed) :
          /\ Placed(items)
          /\ \A x : LaneCount(state'[k].lanes, x) + LaneCount(state'[Residue].lanes, x) + ItemCount(items, x)
                      = LaneCount(state[k].lanes, x) + LaneCount(state[Residue].lanes, x)
    BY <1>1, <1>9, ScatterFacts
  <2>3. ASSUME NEW x PROVE WaitCount(x)' \in Nat /\ WaitCount(x)' + ItemCount(items, x) = WaitCount(x)
    <3>1. /\ FlightCount(x)' \in Nat
          /\ FlightCount(x) + LaneCount(state'[k].lanes, x) + LaneCount(state'[Residue].lanes, x)
               = FlightCount(x)' + LaneCount(state[k].lanes, x) + LaneCount(state[Residue].lanes, x)
      BY <1>1, <2>1, FlightChangeTwo
    <3>2. UnreadCount(x)' = UnreadCount(x)
      BY <2>1, UnreadSame
    <3>3. PICK a \in Nat, b \in Nat, c \in Nat, d \in Nat :
            /\ a = LaneCount(state'[k].lanes, x) /\ b = LaneCount(state'[Residue].lanes, x)
            /\ c = LaneCount(state[k].lanes, x) /\ d = LaneCount(state[Residue].lanes, x)
      BY <1>5
    <3>4. a + b + ItemCount(items, x) = c + d
      BY <2>2, <3>3
    <3>5. ItemCount(items, x) \in Nat
      BY ItemType
    <3>6. PICK f \in Nat, g \in Nat, i \in Nat, u \in Nat :
            /\ f = FlightCount(x) /\ g = FlightCount(x)' /\ i = ItemCount(items, x) /\ u = UnreadCount(x)
      BY <1>3, <3>1, <3>5
    <3>7. f + a + b = g + c + d /\ a + b + i = c + d
      BY <3>1, <3>3, <3>4, <3>6
    <3>8. u + g \in Nat /\ (u + g) + i = u + f
      BY <3>7
    <3>9. WaitCount(x)' = u + g /\ WaitCount(x) = u + f
      BY <3>2, <3>6 DEF WaitCount
    <3> QED  BY <3>6, <3>8, <3>9
  <2> QED  BY <2>2, <2>3
<1>10. CASE job.imv /\ DrainResidue
  <2>1. /\ UNCHANGED <<p, cur>> /\ state'[Residue].lanes = Empty
        /\ \A r \in 0 .. SIMDStateSize : r # Residue => state'[r] = state[r]
    BY <1>1, <1>10, DrainFacts
  <2>2. PICK items \in Seq(Routed) :
          Placed(items) /\ \A x : ItemCount(items, x) = LaneCount(state[Residue].lanes, x)
    BY <1>1, <1>10, DrainFacts
  <2>3. ASSUME NEW x PROVE WaitCount(x)' \in Nat /\ WaitCount(x)' + ItemCount(items, x) = WaitCount(x)
    <3>1. SameBut(Residue, x)
      BY <1>2, <2>1 DEF SameBut
    <3>2. /\ FlightCount(x)' \in Nat
          /\ FlightCount(x) + LaneCount(state'[Residue].lanes, x)
               = FlightCount(x)' + LaneCount(state[Residue].lanes, x)
      BY <3>1, FlightChange
    <3>3. LaneCount(state'[Residue].lanes, x) = 0
      BY <2>1, EmptyFacts, FS_EmptySet DEF LaneCount
    <3>4. UnreadCount(x)' = UnreadCount(x)
      BY <2>1, UnreadSame
    <3>5. ItemCount(items, x) = LaneCount(state[Residue].lanes, x) /\ LaneCount(state[Residue].lanes, x) \in Nat
      BY <1>5, <2>2
    <3> QED  BY <1>3, <3>2, <3>3, <3>4, <3>5 DEF WaitCount
  <2> QED  BY <2>2, <2>3
<1> QED  BY <1>6, <1>7, <1>8, <1>9, <1>10, PlacingCases

\* At the end of a partition nothing of it waits.
LEMMA DistributedFacts ==
  ASSUME RegistersInv, JobInv, SourceInv, Distributing, Distributed
  PROVE  /\ cur >= Size /\ \A x : FlightCount(x) = 0 /\ UnreadRow(x, p) = {}
<1>1. cur >= Size
  BY DEF Distributed, AllFinished, NoMoreInput
<1>2. \A r \in 0 .. SIMDStateSize : Held(state[r].lanes) = {}
  <2>1. CASE ~job.imv
    BY <2>1 DEF RegistersInv
  <2>2. CASE job.imv
    <3>1. done >= SIMDStateSize /\ Held(state[Residue].lanes) = {}
      BY <2>2 DEF Distributed, AllFinished
    <3> DEFINE D == {r \in Registers : state[r].stage = 3}
    <3>2. done = Cardinality(D) /\ D \in SUBSET (0 .. SIMDStateSize - 1)
      BY DEF RegistersInv, Registers
    <3>3. IsFiniteSet(0 .. SIMDStateSize - 1) /\ Cardinality(0 .. SIMDStateSize - 1) = SIMDStateSize
      BY LaneNumber, FS_Interval
    <3>4. D = 0 .. SIMDStateSize - 1
      <4>1. PICK I : I = 0 .. SIMDStateSize - 1
        OBVIOUS
      <4>2. PICK n \in Nat : n = SIMDStateSize
        BY LaneNumber
      <4>3. IsFiniteSet(I) /\ Cardinality(I) = n /\ D \in SUBSET I /\ Cardinality(D) >= n
        BY <3>1, <3>2, <3>3, <4>1, <4>2
      <4> HIDE DEF D
      <4>4. Cardinality(D) <= Cardinality(I) /\ (Cardinality(D) = Cardinality(I) => D = I)
        BY <4>3, FS_Subset, Zenon
      <4>5. IsFiniteSet(D) /\ Cardinality(D) \in Nat
        BY <4>3, FS_Subset, FS_CardinalityType, Zenon
      <4> QED  BY <4>1, <4>3, <4>4, <4>5
    <3>5. \A r \in Registers : Held(state[r].lanes) = {}
      <4>1. \A r \in Registers : state[r].stage = 3
        BY <3>4 DEF Registers
      <4>2. \A r \in Registers : GoodRegister(state[r])
        BY RegisterFacts
      <4> QED  BY <4>1, <4>2 DEF GoodRegister
    <3>6. \A r \in 0 .. SIMDStateSize : r \in Registers \/ r = Residue
      BY RegisterFacts
    <3> QED  BY <3>1, <3>5, <3>6
  <2> QED  BY <2>1, <2>2
<1>3. ASSUME NEW x PROVE FlightCount(x) = 0
  <2>1. \A r \in 0 .. SIMDStateSize : KeyLanes(state[r].lanes, x) = {}
    BY <1>2 DEF KeyLanes
  <2>2. \A r \in 0 .. SIMDStateSize : LaneRows(x)[r] = {}
    BY <2>1 DEF LaneRows
  <2>3. Rows(0 .. SIMDStateSize, LaneRows(x)) = {}
    BY <2>2, RowMember
  <2> QED  BY <2>3, FS_EmptySet DEF FlightCount
<1>4. ASSUME NEW x PROVE UnreadRow(x, p) = {}
  <2>1. cur \in Nat /\ p \in Nat /\ source[p] \in Seq(AllKeys)
    BY RegisterFacts, PartitionFacts
  <2>2. \A n \in DOMAIN source[p] : ~(n > cur) /\ ~(p > p)
    BY <1>1, <2>1 DEF Size, Keys
  <2> QED  BY <2>2 DEF UnreadRow
<1> QED  BY <1>1, <1>3, <1>4
-----------------------------------------------------------------------------
(* The refinement of BoundedBuckets: the steps.                            *)

LEMMA ItemSplit ==
  ASSUME NEW items \in Seq(Routed), NEW x
  PROVE  ItemCount(items, x) = Cardinality({n \in Fitting(items) : items[n].idx = Home(x) /\ items[n].key = x})
                                 + Cardinality({n \in Spilled(items) : items[n].key = x})
<1> DEFINE A == {n \in Fitting(items) : items[n].idx = Home(x) /\ items[n].key = x}
           B == {n \in Spilled(items) : items[n].key = x}
           D == {n \in DOMAIN items : items[n].key = x}
<1>1. DOMAIN items = 1 .. Len(items) /\ Len(items) \in Nat
  OBVIOUS
<1>2. \A n \in DOMAIN items : items[n].idx = Home(items[n].key)
  BY RoutedFacts
<1>3. D = A \cup B /\ \A n \in A : n \notin B
  BY <1>2 DEF Fitting, Spilled
<1>4. D \in SUBSET (1 .. Len(items)) /\ IsFiniteSet(1 .. Len(items))
  BY <1>1, FS_Interval
<1> HIDE DEF A, B, D
<1>5. IsFiniteSet(D)
  BY <1>4, FS_Subset, Zenon
<1>6. A \in SUBSET D /\ B \in SUBSET D
  BY <1>3
<1>7. IsFiniteSet(A) /\ IsFiniteSet(B)
  BY <1>5, <1>6, FS_Subset, Zenon
<1>8. Cardinality(A \cup B) = Cardinality(A) + Cardinality(B)
  BY <1>3, <1>7, DisjointCount
<1> QED  BY <1>3, <1>8 DEF A, B, D, ItemCount

\* The abstract size of a bucket is its length.
LEMMA SizeOfCopies ==
  ASSUME NEW s \in Seq(AllKeys)
  PROVE  Abstract!Size(Copies(s)) = Len(s)
<1> DEFINE J(x) == {m \in DOMAIN s : s[m] = x}
           rank(x, m) == Cardinality({j \in J(x) : j <= m})
           f == [m \in 1 .. Len(s) |-> <<s[m], rank(s[m], m)>>]
           S == [x \in AllKeys |-> 1 .. Cardinality(J(x))]
           U == Rows(AllKeys, S)
<1>1. DOMAIN s = 1 .. Len(s) /\ Len(s) \in Nat /\ \A m \in DOMAIN s : s[m] \in AllKeys
  OBVIOUS
<1>2. Abstract!Size(Copies(s)) = Cardinality(U)
  <2>1. PICK c : c = Copies(s)
    OBVIOUS
  <2>2. DOMAIN c = AllKeys /\ \A x \in AllKeys : c[x] = Cardinality(J(x))
    BY <2>1 DEF Copies
  <2>3. \A x \in DOMAIN c : 1 .. c[x] = S[x]
    BY <2>2
  <2> HIDE DEF J, S
  <2>4. \A u : u \in Rows(DOMAIN c, S) <=> u \in UNION {{x} \X (1 .. c[x]) : x \in DOMAIN c}
    BY <2>3 DEF Rows
  <2>5. Rows(DOMAIN c, S) = UNION {{x} \X (1 .. c[x]) : x \in DOMAIN c}
    BY <2>4
  <2>6. \A A : Abstract!Cardinality(A) = Cardinality(A)
    BY DEF Abstract!Cardinality, Cardinality
  <2> QED  BY <2>1, <2>2, <2>5, <2>6 DEF Abstract!Size
<1>3. ASSUME NEW x
      PROVE  /\ IsFiniteSet(J(x)) /\ \A j \in J(x) : j \in Int
             /\ [m \in J(x) |-> rank(x, m)] \in Bijection(J(x), 1 .. Cardinality(J(x)))
  <2>1. IsFiniteSet(J(x)) /\ \A j \in J(x) : j \in Int
    <3>1. J(x) \in SUBSET (1 .. Len(s)) /\ IsFiniteSet(1 .. Len(s)) /\ \A j \in J(x) : j \in Int
      BY <1>1, FS_Interval
    <3> HIDE DEF J
    <3> QED  BY <3>1, FS_Subset, Zenon
  <2> HIDE DEF J
  <2> QED  BY <2>1, Ranks
<1>4. ASSUME NEW x
      PROVE  /\ \A m \in J(x) : rank(x, m) \in 1 .. Cardinality(J(x))
             /\ \A l, m \in J(x) : rank(x, l) = rank(x, m) => l = m
             /\ \A r \in 1 .. Cardinality(J(x)) : \E m \in J(x) : rank(x, m) = r
  <2>1. PICK g : g = [m \in J(x) |-> rank(x, m)]
    OBVIOUS
  <2>2. g \in Bijection(J(x), 1 .. Cardinality(J(x)))
    BY <1>3, <2>1
  <2>3. \A m \in J(x) : g[m] = rank(x, m)
    BY <2>1
  <2> HIDE DEF J, rank
  <2> QED  BY <2>2, <2>3 DEF Bijection, Injection, Surjection, IsInjective
<1>5. \A x, m : m \in J(x) <=> m \in 1 .. Len(s) /\ s[m] = x
  BY <1>1
<1>6. \A u : u \in U <=> \E x \in AllKeys : \E r \in 1 .. Cardinality(J(x)) : u = <<x, r>>
  <2>1. \A x \in AllKeys : S[x] = 1 .. Cardinality(J(x))
    OBVIOUS
  <2> HIDE DEF S, J
  <2>2. \A u : u \in U <=> \E x \in AllKeys : \E r \in S[x] : u = <<x, r>>
    BY RowMember
  <2> HIDE DEF U
  <2> QED  BY <2>1, <2>2
<1> HIDE DEF J, rank, U
<1>7. \A m \in 1 .. Len(s) : f[m] = <<s[m], rank(s[m], m)>> /\ f[m] \in U
  BY <1>1, <1>4, <1>5, <1>6
<1>8. \A l, m \in 1 .. Len(s) : f[l] = f[m] => l = m
  <2> SUFFICES ASSUME NEW l \in 1 .. Len(s), NEW m \in 1 .. Len(s), f[l] = f[m] PROVE l = m
    OBVIOUS
  <2>1. s[l] = s[m] /\ rank(s[l], l) = rank(s[m], m)
    BY <1>7
  <2> QED  BY <1>4, <1>5, <2>1
<1>9. \A u \in U : \E m \in 1 .. Len(s) : f[m] = u
  <2> SUFFICES ASSUME NEW u \in U PROVE \E m \in 1 .. Len(s) : f[m] = u
    OBVIOUS
  <2>1. PICK x : \E r \in 1 .. Cardinality(J(x)) : u = <<x, r>>
    BY <1>6
  <2>2. PICK r \in 1 .. Cardinality(J(x)) : u = <<x, r>>
    BY <2>1
  <2>3. PICK m \in J(x) : rank(x, m) = r
    BY <1>4
  <2> QED  BY <1>5, <1>7, <2>2, <2>3
<1>10. f \in [1 .. Len(s) -> U]
  BY <1>7
<1> HIDE DEF f
<1>11. f \in Bijection(1 .. Len(s), U)
  BY <1>8, <1>9, <1>10 DEF Bijection, Injection, Surjection, IsInjective
<1>12. IsFiniteSet(1 .. Len(s)) /\ Cardinality(1 .. Len(s)) = Len(s)
  <2>1. PICK L \in Nat : L = Len(s)
    BY <1>1
  <2>2. IsFiniteSet(1 .. L) /\ Cardinality(1 .. L) = L
    <3>1. 1 \in Int /\ L \in Int
      BY <2>1
    <3>2. IsFiniteSet(1 .. L) /\ Cardinality(1 .. L) = IF 1 > L THEN 0 ELSE L - 1 + 1
      BY <3>1, FS_Interval, Zenon
    <3>3. (IF 1 > L THEN 0 ELSE L - 1 + 1) = L
      BY <2>1
    <3> QED  BY <3>2, <3>3
  <2> QED  BY <2>1, <2>2
<1>13. PICK I : I = 1 .. Len(s)
  OBVIOUS
<1>14. ExistsBijection(I, U) /\ IsFiniteSet(I)
  BY <1>11, <1>12, <1>13 DEF ExistsBijection
<1>15. Cardinality(U) = Cardinality(I)
  BY <1>14, FS_Bijection
<1> QED  BY <1>2, <1>12, <1>13, <1>15

HomeNow == [key \in AllKeys |-> MinorOf(LeafOf(model, key), key)]
WaitingNow == IF Distributing THEN Waiting ELSE Copies(<< >>)
HeldNow == [i \in DOMAIN minor |-> Copies(IF Distributing THEN minor[i] ELSE << >>)]
AsideNow == Copies(IF Distributing THEN spill ELSE << >>)
NoCopies == [x \in AllKeys |-> 0]

LEMMA NoneWaits ==
  Copies(<< >>) = NoCopies
<1>1. \A x : {n \in DOMAIN << >> : << >>[n] = x} = {}
  OBVIOUS
<1> QED  BY <1>1, FS_EmptySet DEF Copies, NoCopies

LEMMA WaitingCounts ==
  Waiting = [x \in AllKeys |-> WaitCount(x)]
  BY WaitingFacts DEF WaitCount

LEMMA LaterFacts ==
  /\ (Copies(<< >>) = NoCopies)'
  /\ (Waiting = [x \in AllKeys |-> WaitCount(x)])'
  BY NoneWaits, WaitingCounts, PTL

LEMMA BeginStep ==
  ASSUME WaitingNow = NoCopies, AsideNow' = NoCopies',
         \A i \in DOMAIN minor' : HeldNow'[i] = NoCopies'
  PROVE  Abstract!Begin
  BY DEF WaitingNow, AsideNow, HeldNow, NoCopies, Abstract!Begin, Abstract!None, Abstract!AllEmpty

\* What a step places moves from the keys that wait to their buckets, and
\* aside where these are full.
LEMMA MoveStep ==
  ASSUME JobInv, GoodBuckets, Distributing, Distributing', UNCHANGED <<job, hp, model, bucket>>,
         NEW items \in Seq(Routed), Placed(items),
         \A x : WaitCount(x)' \in Nat /\ WaitCount(x)' + ItemCount(items, x) = WaitCount(x),
         WaitingNow' # WaitingNow
  PROVE  Abstract!Move
<1> DEFINE F(b, x) == Cardinality({n \in Fitting(items) : items[n].idx = b /\ items[n].key = x})
           S(x) == Cardinality({n \in Spilled(items) : items[n].key = x})
<1>1. /\ AllKeys' = AllKeys /\ Buckets' = Buckets /\ \A x : Home(x)' = Home(x)
      /\ Routed' = Routed
  BY SteadyModel
<1>2. /\ GoodBuckets'
      /\ \A b \in Buckets : \A x : F(b, x) \in Nat /\ Count(minor'[b], x) = Count(minor[b], x) + F(b, x)
      /\ \A x : S(x) \in Nat /\ Count(spill', x) = Count(spill, x) + S(x)
      /\ \A n \in Spilled(items) : Len(minor'[items[n].idx]) = hp.threshold
  BY PlacedFacts
<1>3. \A x \in AllKeys : Home(x) \in Buckets
  BY HomeRange DEF Home
<1>4. ASSUME NEW x PROVE ItemCount(items, x) = F(Home(x), x) + S(x)
  BY ItemSplit
<1>5. ASSUME NEW x, S(x) > 0 PROVE Len(minor'[Home(x)]) = hp.threshold
  <2> DEFINE A == {n \in Spilled(items) : items[n].key = x}
  <2>1. A # {}
    <3>1. Cardinality(A) > 0
      BY <1>5
    <3>2. ~(0 > 0)
      OBVIOUS
    <3> HIDE DEF A
    <3> QED  BY <3>1, <3>2, FS_EmptySet, Zenon
  <2>2. PICK n \in Spilled(items) : items[n].key = x
    BY <2>1
  <2>3. items[n] \in Routed
    BY <2>2 DEF Spilled
  <2>4. items[n].idx = Home(x)
    BY <2>2, <2>3, RoutedFacts
  <2> QED  BY <1>2, <2>2, <2>4
<1> HIDE DEF F, S
<1>6. /\ minor \in [Buckets -> Seq(AllKeys)] /\ spill \in Seq(AllKeys)
      /\ minor' \in [Buckets -> Seq(AllKeys)] /\ spill' \in Seq(AllKeys)
      /\ \A b \in Buckets : /\ Len(minor'[b]) <= hp.threshold
                            /\ \A n \in 1 .. Len(minor'[b]) : Home(minor'[b][n]) = b
  <2>1. minor \in [Buckets -> Seq(AllKeys)] /\ spill \in Seq(AllKeys)
    BY DEF GoodBuckets
  <2>2. /\ minor' \in [Buckets' -> Seq(AllKeys')] /\ spill' \in Seq(AllKeys')
        /\ \A b \in Buckets' : /\ Len(minor'[b]) <= hp'.threshold
                               /\ \A n \in 1 .. Len(minor'[b]) : Home(minor[b][n])' = b
    BY <1>2 DEF GoodBuckets
  <2>3. \A b, n : Home(minor[b][n])' = Home(minor'[b][n])
    BY DEF Home, MinorOf
  <2>4. hp' = hp
    OBVIOUS
  <2> QED  BY <1>1, <2>1, <2>2, <2>3, <2>4
<1>7. ASSUME NEW b \in Buckets, NEW x, Count(minor'[b], x) > 0 PROVE Home(x) = b
  <2>1. minor'[b] \in Seq(AllKeys)
    BY <1>6
  <2>2. PICK s \in Seq(AllKeys) : s = minor'[b]
    BY <2>1
  <2> DEFINE A == {n \in DOMAIN s : s[n] = x}
  <2>3. A # {}
    <3>1. Cardinality(A) > 0
      BY <1>7, <2>2 DEF Count
    <3>2. ~(0 > 0)
      OBVIOUS
    <3> HIDE DEF A
    <3> QED  BY <3>1, <3>2, FS_EmptySet, Zenon
  <2>4. PICK n \in 1 .. Len(s) : s[n] = x
    BY <2>3
  <2> QED  BY <1>6, <2>2, <2>4
<1>8. \A x : /\ \A b \in Buckets : Count(minor[b], x) \in Nat /\ Count(minor'[b], x) \in Nat
             /\ Count(spill, x) \in Nat /\ Count(spill', x) \in Nat
  BY <1>6, CountType
<1>9. PICK of, w, h, a, w1, h1, a1 :
        /\ of = HomeNow /\ w = WaitingNow /\ h = HeldNow /\ a = AsideNow
        /\ w1 = WaitingNow' /\ h1 = HeldNow' /\ a1 = AsideNow'
  OBVIOUS
<1>10. \A s : Copies(s)' = Copies(s)
  BY <1>1 DEF Copies
<1>11. /\ DOMAIN of = AllKeys /\ \A x \in AllKeys : of[x] = Home(x)
       /\ HomeNow' = HomeNow /\ hp.threshold' = hp.threshold
  <2>1. /\ DOMAIN of = AllKeys /\ \A x \in AllKeys : of[x] = Home(x)
    BY <1>9 DEF HomeNow, Home
  <2>2. HomeNow' = HomeNow
    BY <1>1 DEF HomeNow, MinorOf
  <2> QED  BY <2>1, <2>2
<1>12. \A x \in AllKeys : w[x] = WaitCount(x) /\ w1[x] = WaitCount(x)'
  <2>1. w = [x \in AllKeys |-> WaitCount(x)]
    BY <1>9, WaitingCounts DEF WaitingNow
  <2>2. w1 = [x \in AllKeys |-> WaitCount(x)']
    <3>1. WaitingNow' = Waiting'
      BY DEF WaitingNow
    <3>2. Waiting' = [x \in AllKeys |-> WaitCount(x)']
      BY <1>1, LaterFacts
    <3> QED  BY <1>9, <3>1, <3>2
  <2> QED  BY <2>1, <2>2
<1>13. /\ DOMAIN h = Buckets /\ DOMAIN h1 = Buckets
       /\ \A b \in Buckets : h[b] = Copies(minor[b]) /\ h1[b] = Copies(minor'[b])
  <2>1. h = [i \in DOMAIN minor |-> Copies(minor[i])]
    BY <1>9 DEF HeldNow
  <2>2. h1 = [i \in DOMAIN minor' |-> Copies(minor'[i])]
    BY <1>9, <1>1 DEF HeldNow, Copies
  <2>3. DOMAIN minor = Buckets /\ DOMAIN minor' = Buckets
    BY <1>6
  <2> QED  BY <2>1, <2>2, <2>3
<1>14. a = Copies(spill) /\ a1 = Copies(spill')
  BY <1>1, <1>9 DEF AsideNow, Copies
<1>15. \A s : \A x \in AllKeys : Copies(s)[x] = Count(s, x)
  BY DEF Copies, Count
<1>16. \A b \in Buckets : Abstract!Size(h1[b]) = Len(minor'[b])
  BY <1>6, <1>13, SizeOfCopies
<1>17. Abstract!Moves(of, w, h, a, w1, h1, a1)
  <2>1. w1 # w
    BY <1>9
  <2>2. ASSUME NEW b \in DOMAIN h
        PROVE  /\ Abstract!Size(h1[b]) <= hp.threshold
               /\ \A x \in DOMAIN of : h1[b][x] >= h[b][x] /\ (h1[b][x] > 0 => of[x] = b)
    <3>1. b \in Buckets
      BY <1>13
    <3>2. Abstract!Size(h1[b]) <= hp.threshold
      BY <1>6, <1>16, <3>1
    <3>3. ASSUME NEW x \in AllKeys PROVE h1[b][x] >= h[b][x] /\ (h1[b][x] > 0 => of[x] = b)
      <4>1. h1[b][x] = Count(minor'[b], x) /\ h[b][x] = Count(minor[b], x)
        BY <1>13, <1>15, <3>1, <3>3
      <4>2. F(b, x) \in Nat /\ Count(minor'[b], x) = Count(minor[b], x) + F(b, x) /\ Count(minor[b], x) \in Nat
        BY <1>2, <1>8, <3>1
      <4> QED  BY <1>7, <1>11, <3>1, <3>3, <4>1, <4>2
    <3> QED  BY <1>11, <3>2, <3>3
  <2>3. ASSUME NEW x \in DOMAIN of
        PROVE  /\ w1[x] <= w[x]
               /\ w1[x] + h1[of[x]][x] + a1[x] = w[x] + h[of[x]][x] + a[x]
               /\ a1[x] >= a[x]
               /\ a1[x] > a[x] => Abstract!Size(h1[of[x]]) = hp.threshold
    <3>1. x \in AllKeys
      BY <1>11
    <3>2. PICK b \in Buckets : b = Home(x) /\ of[x] = b
      BY <1>3, <1>11, <3>1
    <3>3. h1[b][x] = Count(minor'[b], x) /\ h[b][x] = Count(minor[b], x)
      BY <1>13, <1>15, <3>1
    <3>4. F(b, x) \in Nat /\ Count(minor'[b], x) = Count(minor[b], x) + F(b, x) /\ Count(minor[b], x) \in Nat
      BY <1>2, <1>8
    <3>5. S(x) \in Nat /\ a1[x] = a[x] + S(x) /\ a[x] \in Nat
      BY <1>2, <1>8, <1>14, <1>15, <3>1
    <3>6. w1[x] \in Nat /\ w1[x] + (F(b, x) + S(x)) = w[x]
      BY <1>4, <1>12, <3>1, <3>2
    <3>7. S(x) > 0 => Abstract!Size(h1[b]) = hp.threshold
      BY <1>5, <1>16, <3>2
    <3> HIDE DEF F, S
    <3>8. /\ w1[x] <= w[x]
          /\ w1[x] + h1[b][x] + a1[x] = w[x] + h[b][x] + a[x]
          /\ a1[x] >= a[x] /\ (a1[x] > a[x] => S(x) > 0)
      <4>1. PICK fx, sx : fx = F(b, x) /\ sx = S(x)
        OBVIOUS
      <4>2. PICK hx, hx1 : hx = h[b][x] /\ hx1 = h1[b][x]
        OBVIOUS
      <4>3. PICK wx, wx1, ax, ax1 : wx = w[x] /\ wx1 = w1[x] /\ ax = a[x] /\ ax1 = a1[x]
        OBVIOUS
      <4>4. /\ fx \in Nat /\ sx \in Nat /\ hx \in Nat /\ wx1 \in Nat /\ ax \in Nat
            /\ hx1 = hx + fx /\ ax1 = ax + sx /\ wx = wx1 + (fx + sx)
        BY <3>3, <3>4, <3>5, <3>6, <4>1, <4>2, <4>3
      <4>5. wx1 <= wx /\ wx1 + hx1 + ax1 = wx + hx + ax /\ ax1 >= ax /\ (ax1 > ax => sx > 0)
        BY <4>4
      <4> QED  BY <4>1, <4>2, <4>3, <4>5
    <3> QED  BY <3>2, <3>7, <3>8
  <2>4. DOMAIN h1 = DOMAIN h
    BY <1>13
  <2> QED  BY <2>1, <2>2, <2>3, <2>4 DEF Abstract!Moves
<1> QED  BY <1>9, <1>11, <1>17 DEF Abstract!Move, HomeNow, WaitingNow, HeldNow, AsideNow

Still == UNCHANGED <<HomeNow, hp.threshold, WaitingNow, HeldNow, AsideNow>>

\* A step of the distribution that places nothing is not seen.
LEMMA NothingPlaced ==
  ASSUME JobInv, GoodBuckets, Distributing, Distributing', UNCHANGED <<job, hp, model, bucket>>,
         NEW items \in Seq(Routed), Placed(items),
         \A x : WaitCount(x)' \in Nat /\ WaitCount(x)' + ItemCount(items, x) = WaitCount(x),
         WaitingNow' = WaitingNow
  PROVE  Still
<1> DEFINE F(b, x) == Cardinality({n \in Fitting(items) : items[n].idx = b /\ items[n].key = x})
           S(x) == Cardinality({n \in Spilled(items) : items[n].key = x})
<1>1. AllKeys' = AllKeys /\ Buckets' = Buckets
  BY SteadyModel
<1>2. \A x \in AllKeys : WaitCount(x)' = WaitCount(x)
  <2>1. [x \in AllKeys |-> WaitCount(x)] = [x \in AllKeys |-> WaitCount(x)']
    <3>1. WaitingNow' = Waiting' /\ WaitingNow = Waiting
      BY DEF WaitingNow
    <3>2. Waiting' = [x \in AllKeys |-> WaitCount(x)']
      BY <1>1, LaterFacts
    <3>3. Waiting = [x \in AllKeys |-> WaitCount(x)]
      BY WaitingCounts
    <3> QED  BY <3>1, <3>2, <3>3
  <2> QED  BY <2>1
<1>3. \A x \in AllKeys : ItemCount(items, x) = 0
  <2> SUFFICES ASSUME NEW x \in AllKeys PROVE ItemCount(items, x) = 0
    OBVIOUS
  <2>1. PICK c : c = ItemCount(items, x)
    OBVIOUS
  <2>2. PICK v : v = WaitCount(x)
    OBVIOUS
  <2>3. v \in Nat /\ v + c = v
    BY <1>2, <2>1, <2>2
  <2>4. c \in Nat
    BY <2>1, ItemType
  <2>5. c = 0
    BY <2>3, <2>4
  <2> QED  BY <2>1, <2>5
<1>4. DOMAIN items = {}
  <2> SUFFICES ASSUME NEW n \in DOMAIN items PROVE FALSE
    OBVIOUS
  <2>1. items[n] \in Routed
    OBVIOUS
  <2>2. PICK x \in AllKeys : x = items[n].key
    BY <2>1, RoutedFacts
  <2> DEFINE A == {m \in DOMAIN items : items[m].key = x}
  <2>3. A \in SUBSET (1 .. Len(items)) /\ Len(items) \in Nat /\ n \in A
    BY <2>2
  <2>4. Cardinality(A) = 0
    BY <1>3 DEF ItemCount
  <2> HIDE DEF A
  <2>5. IsFiniteSet(A)
    <3>1. IsFiniteSet(1 .. Len(items))
      BY <2>3, FS_Interval
    <3> QED  BY <2>3, <3>1, FS_Subset, Zenon
  <2>6. A = {}
    BY <2>4, <2>5, FS_EmptySet, Zenon
  <2> QED  BY <2>3, <2>6
<1>5. /\ GoodBuckets'
      /\ \A b \in Buckets : \A x : F(b, x) \in Nat /\ Count(minor'[b], x) = Count(minor[b], x) + F(b, x)
      /\ \A x : S(x) \in Nat /\ Count(spill', x) = Count(spill, x) + S(x)
  BY PlacedFacts
<1>6. \A x : S(x) = 0 /\ \A b : F(b, x) = 0
  <2>1. Fitting(items) = {} /\ Spilled(items) = {}
    BY <1>4 DEF Fitting, Spilled
  <2> QED  BY <2>1, FS_EmptySet
<1> HIDE DEF F, S
<1>7. /\ DOMAIN minor = Buckets /\ DOMAIN minor' = Buckets
      /\ \A b \in Buckets : \A x : Count(minor[b], x) \in Nat
      /\ \A x : Count(spill, x) \in Nat
  <2>1. DOMAIN minor = Buckets /\ DOMAIN minor' = Buckets
    BY <1>1, <1>5 DEF GoodBuckets
  <2>2. \A b \in Buckets : minor[b] \in Seq(AllKeys)
    BY DEF GoodBuckets
  <2>3. spill \in Seq(AllKeys)
    BY DEF GoodBuckets
  <2>4. \A b \in Buckets : \A x : Count(minor[b], x) \in Nat
    BY <2>2, CountType
  <2>5. \A x : Count(spill, x) \in Nat
    BY <2>3, CountType
  <2> QED  BY <2>1, <2>4, <2>5
<1>8. \A x : \A b \in Buckets : Count(minor'[b], x) = Count(minor[b], x)
  BY <1>5, <1>6, <1>7
<1>9. \A x : Count(spill', x) = Count(spill, x)
  BY <1>5, <1>6, <1>7
<1>10. \A s : Copies(s) = [x \in AllKeys |-> Count(s, x)]
  BY DEF Copies, Count
<1>11. HeldNow' = HeldNow
  <2>1. HeldNow = [i \in Buckets |-> Copies(minor[i])]
    BY <1>7 DEF HeldNow
  <2>2. HeldNow' = [i \in Buckets |-> Copies(minor'[i])]
    BY <1>1, <1>7 DEF HeldNow, Copies
  <2>3. \A b \in Buckets : Copies(minor'[b]) = Copies(minor[b])
    BY <1>8, <1>10
  <2> QED  BY <2>1, <2>2, <2>3
<1>12. AsideNow' = AsideNow
  <2>1. AsideNow = Copies(spill) /\ AsideNow' = Copies(spill')
    BY <1>1 DEF AsideNow, Copies
  <2> QED  BY <1>9, <1>10, <2>1
<1>13. HomeNow' = HomeNow
  BY <1>1 DEF HomeNow, MinorOf
<1> QED  BY <1>11, <1>12, <1>13 DEF Still

\* The distribution of a partition.
LEMMA DistributeMoves ==
  ASSUME JobInv, SourceInv, RegistersInv, BucketsInv, Distribute,
         UNCHANGED <<job, hp, model, pc, bucket, source>>
  PROVE  Abstract!Move \/ Still
<1>1. Distributing /\ Distributing' /\ GoodBuckets
  BY DistributeCases DEF Distributing, BucketsInv
<1>2. CASE UNCHANGED <<minor, spill>> /\ \A x : WaitCount(x)' = WaitCount(x)
  <2>1. AllKeys' = AllKeys
    BY SteadyModel
  <2>2. Waiting' = Waiting
    <3>1. Waiting' = [x \in AllKeys |-> WaitCount(x)']
      BY <2>1, LaterFacts
    <3>2. Waiting = [x \in AllKeys |-> WaitCount(x)]
      BY WaitingCounts
    <3> QED  BY <1>2, <3>1, <3>2
  <2>3. WaitingNow' = WaitingNow
    BY <1>1, <2>2 DEF WaitingNow
  <2>4. HeldNow' = HeldNow /\ AsideNow' = AsideNow
    BY <1>1, <1>2, <2>1 DEF HeldNow, AsideNow, Copies
  <2>5. HomeNow' = HomeNow
    BY <2>1 DEF HomeNow, MinorOf
  <2> QED  BY <2>3, <2>4, <2>5 DEF Still
<1>3. CASE \E items \in Seq(Routed) :
             /\ Placed(items)
             /\ \A x : WaitCount(x)' \in Nat /\ WaitCount(x)' + ItemCount(items, x) = WaitCount(x)
  <2>1. PICK items \in Seq(Routed) :
          /\ Placed(items)
          /\ \A x : WaitCount(x)' \in Nat /\ WaitCount(x)' + ItemCount(items, x) = WaitCount(x)
    BY <1>3
  <2>2. CASE WaitingNow' = WaitingNow
    BY <1>1, <2>1, <2>2, NothingPlaced
  <2>3. CASE WaitingNow' # WaitingNow
    BY <1>1, <2>1, <2>3, MoveStep
  <2> QED  BY <2>2, <2>3
<1> QED  BY <1>2, <1>3, WaitingStep

\* The next partition: of this one nothing waits, and of the next one all.
LEMMA NextPartitionStill ==
  ASSUME JobInv, SourceInv, RegistersInv, NextPartition
  PROVE  Still
<1>1. /\ Distributing /\ Distributing' /\ Distributed /\ p' = p + 1 /\ cur' = 0 /\ p < Len(source)
      /\ state' = [r \in 0 .. SIMDStateSize |-> [stage |-> 1, lanes |-> Empty]]
      /\ UNCHANGED <<job, hp, model, bucket, source, minor, spill>>
  BY DEF NextPartition, Partitions, StartPartition, Distributing
<1>2. AllKeys' = AllKeys
  BY <1>1, SteadyModel
<1>3. \A x : FlightCount(x) = 0 /\ UnreadRow(x, p) = {}
  BY <1>1, DistributedFacts
<1>4. ASSUME NEW x PROVE FlightCount(x)' = 0
  <2>1. \A r \in 0 .. SIMDStateSize : KeyLanes(state'[r].lanes, x) = {}
    <3>1. \A r \in 0 .. SIMDStateSize : state'[r].lanes = Empty
      BY <1>1
    <3> QED  BY <3>1, EmptyFacts
  <2>2. LaneRows(x)' = [r \in 0 .. SIMDStateSize |-> KeyLanes(state'[r].lanes, x)]
    BY DEF LaneRows, KeyLanes, Held
  <2>3. PICK T : T = LaneRows(x)'
    OBVIOUS
  <2>4. \A r \in 0 .. SIMDStateSize : T[r] = {}
    BY <2>1, <2>2, <2>3
  <2>5. PICK I : I = 0 .. SIMDStateSize
    OBVIOUS
  <2>6. Rows(I, T) = {}
    <3>1. \A r \in I : T[r] = {}
      BY <2>4, <2>5
    <3>2. \A u : u \in Rows(I, T) <=> \E r \in I : \E n \in T[r] : u = <<r, n>>
      BY RowMember
    <3>3. \A u : u \notin Rows(I, T)
      BY <3>1, <3>2
    <3> QED  BY <3>3
  <2>7. FlightCount(x)' = Cardinality(Rows(I, T))
    BY <2>3, <2>5 DEF FlightCount, Rows
  <2> QED  BY <2>6, <2>7, FS_EmptySet
<1>5. /\ Len(source) \in Nat /\ p \in Nat /\ p \in p .. Len(source)
      /\ \A q \in p .. Len(source) : source[q] \in Seq(AllKeys)
  BY <1>1, PartitionFacts
<1>6. ASSUME NEW x PROVE UnreadCount(x)' = UnreadCount(x)
  <2> DEFINE T == [q \in p + 1 .. Len(source) |->
                      {n \in DOMAIN source[q] : (q > p + 1 \/ n > 0) /\ source[q][n] = x}]
  <2>1. UnreadCount(x)' = Cardinality(Rows(p + 1 .. Len(source), T))
    <3>1. UnreadRows(x)' = T
      BY <1>1 DEF UnreadRows, UnreadRow
    <3> QED  BY <1>1, <3>1 DEF UnreadCount, Rows
  <2>2. PICK I, J : I = p .. Len(source) /\ J = p + 1 .. Len(source)
    OBVIOUS
  <2>3. PICK S : S = UnreadRows(x)
    OBVIOUS
  <2>4. \A q \in I : S[q] = UnreadRow(x, q)
    BY <2>2, <2>3 DEF UnreadRows
  <2>5. (\A q \in J : q \in I /\ q # p) /\ \A q \in I : q = p \/ q \in J
    BY <1>5, <2>2
  <2>6. ASSUME NEW q \in J PROVE T[q] = S[q]
    <3>1. source[q] \in Seq(AllKeys) /\ q \in Int /\ q > p
      BY <1>5, <2>2, <2>5
    <3>2. \A n \in DOMAIN source[q] : n > 0
      BY <3>1
    <3>3. T[q] = {n \in DOMAIN source[q] : (q > p + 1 \/ n > 0) /\ source[q][n] = x}
      BY <2>2
    <3>4. S[q] = {n \in DOMAIN source[q] : (q > p \/ n > cur) /\ source[q][n] = x}
      BY <2>4, <2>5 DEF UnreadRow
    <3> QED  BY <3>1, <3>2, <3>3, <3>4
  <2> HIDE DEF T
  <2>7. S[p] = {} /\ p \in I
    BY <1>3, <1>5, <2>2, <2>4
  <2>8. Rows(I, S) = Rows(J, T)
    <3>1. \A u : u \in Rows(I, S) <=> u \in Rows(J, T)
      <4>1. \A u : u \in Rows(I, S) <=> \E q \in I : \E n \in S[q] : u = <<q, n>>
        BY RowMember
      <4>2. \A u : u \in Rows(J, T) <=> \E q \in J : \E n \in T[q] : u = <<q, n>>
        BY RowMember
      <4> QED  BY <2>5, <2>6, <2>7, <4>1, <4>2
    <3> QED  BY <3>1
  <2> QED  BY <2>1, <2>2, <2>3, <2>8 DEF UnreadCount
<1>7. \A x : WaitCount(x)' = WaitCount(x)
  BY <1>3, <1>4, <1>6 DEF WaitCount
<1>8. WaitingNow' = WaitingNow
  <2>1. Waiting' = [x \in AllKeys |-> WaitCount(x)']
    BY <1>2, LaterFacts
  <2>2. Waiting = [x \in AllKeys |-> WaitCount(x)]
    BY WaitingCounts
  <2>3. Waiting' = Waiting
    BY <1>7, <2>1, <2>2
  <2> QED  BY <1>1, <2>3 DEF WaitingNow
<1>9. HeldNow' = HeldNow /\ AsideNow' = AsideNow
  BY <1>1, <1>2 DEF HeldNow, AsideNow, Copies
<1>10. HomeNow' = HomeNow
  BY <1>1, <1>2 DEF HomeNow, MinorOf
<1> QED  BY <1>1, <1>8, <1>9, <1>10 DEF Still

\* At the end nothing waits.
LEMMA AllDistributedBegins ==
  ASSUME JobInv, SourceInv, RegistersInv, AllDistributed
  PROVE  Abstract!Begin
<1>1. Distributing /\ Distributed /\ p = Len(source) /\ ~Distributing'
  BY DEF AllDistributed, Distributing
<1>2. \A x : FlightCount(x) = 0 /\ UnreadRow(x, p) = {}
  BY <1>1, DistributedFacts
<1>3. p \in Nat
  BY <1>1, PartitionFacts
<1>4. ASSUME NEW x PROVE WaitCount(x) = 0
  <2>1. PICK I : I = p .. Len(source)
    OBVIOUS
  <2>2. \A q \in I : q = p
    BY <1>1, <1>3, <2>1
  <2>3. \A q \in I : UnreadRows(x)[q] = {}
    BY <1>2, <2>1, <2>2 DEF UnreadRows
  <2>4. Rows(I, UnreadRows(x)) = {}
    BY <2>3, RowMember
  <2>5. UnreadCount(x) = 0
    BY <2>1, <2>4, FS_EmptySet DEF UnreadCount
  <2> QED  BY <1>2, <2>5 DEF WaitCount
<1>5. WaitingNow = NoCopies
  <2>1. Waiting = [x \in AllKeys |-> WaitCount(x)]
    BY WaitingCounts
  <2> QED  BY <1>1, <1>4, <2>1 DEF WaitingNow, NoCopies
<1>6. AsideNow' = NoCopies' /\ \A i \in DOMAIN minor' : HeldNow'[i] = NoCopies'
  BY <1>1, LaterFacts DEF AsideNow, HeldNow
<1> QED  BY <1>5, <1>6, BeginStep

\* Outside the distribution the next one may begin.
LEMMA OtherStepBegins ==
  ASSUME ~Distributing, ~Distributing' \/ Open
  PROVE  Abstract!Begin
<1>1. WaitingNow = NoCopies
  BY NoneWaits DEF WaitingNow
<1>2. AsideNow' = NoCopies' /\ \A i \in DOMAIN minor' : HeldNow'[i] = NoCopies'
  <2>1. CASE ~Distributing'
    BY <2>1, LaterFacts DEF AsideNow, HeldNow
  <2>2. CASE Open
    <3>1. spill' = << >> /\ minor' = [i \in 0 .. (job.minors - 1) |-> << >>]
      BY <2>2 DEF Open
    <3>2. \A i \in DOMAIN minor' : minor'[i] = << >>
      BY <3>1
    <3>3. AsideNow' = NoCopies'
      BY <3>1, LaterFacts DEF AsideNow
    <3>4. \A i \in DOMAIN minor' : HeldNow'[i] = NoCopies'
      BY <3>2, LaterFacts DEF HeldNow
    <3> QED  BY <3>3, <3>4
  <2> QED  BY <2>1, <2>2
<1> QED  BY <1>1, <1>2, BeginStep

LEMMA StepImplements ==
  ASSUME SortInv, Next
  PROVE  Abstract!Begin \/ Abstract!Move \/ Still
<1>1. JobInv /\ SourceInv /\ RegistersInv /\ BucketsInv
  BY DEF SortInv
<1>2. CASE Validate \/ TrainOnOne \/ TrainOnTwo \/ (\E t \in Threads : Histogram(t))
           \/ (\E t \in Threads : Partition(t))
  <2>1. ~Distributing /\ ~Distributing'
    BY <1>2 DEF Distributing, Validate, TrainOnOne, TrainOnTwo, Histogram, Partition
  <2> QED  BY <2>1, OtherStepBegins
<1>3. CASE Open
  <2>1. ~Distributing
    BY <1>3 DEF Open, Distributing
  <2> QED  BY <1>3, <2>1, OtherStepBegins
<1>4. CASE DistributeKeys
  BY <1>1, <1>4, DistributeMoves DEF DistributeKeys
<1>5. CASE NextPartition
  BY <1>1, <1>5, NextPartitionStill
<1>6. CASE AllDistributed
  BY <1>1, <1>6, AllDistributedBegins
<1>7. CASE SortMinors \/ (\E total, vals, counts : MergeSpill(total, vals, counts)) \/ MergeStep \/ EndBucket
  <2>1. ~Distributing /\ ~Distributing'
    BY <1>7 DEF SortMinors, MergeSpill, MergeStep, EndBucket, Merging, Distributing
  <2> QED  BY <2>1, OtherStepBegins
<1> QED  BY <1>2, <1>3, <1>4, <1>5, <1>6, <1>7, NextCases DEF LateNext

LEMMA StillImplements ==
  ASSUME Still
  PROVE  UNCHANGED Abstract!vars
  BY DEF Still, HomeNow, WaitingNow, HeldNow, AsideNow, Abstract!vars

LEMMA SameImplements ==
  ASSUME UNCHANGED vars
  PROVE  UNCHANGED Abstract!vars
<1>1. UNCHANGED <<job, hp, model, pc, bucket, source, p, cur, state, minor, spill>>
  BY DEF vars, distributing
<1>2. AllKeys' = AllKeys /\ Distributing' = Distributing
  BY <1>1, SteadyModel DEF Distributing
<1>3. Waiting' = Waiting
  BY <1>1, <1>2 DEF Waiting, Unread, InFlight, Held
<1>4. Still
  BY <1>1, <1>2, <1>3 DEF Still, HomeNow, MinorOf, WaitingNow, HeldNow, AsideNow, Copies
<1> QED  BY <1>4, StillImplements

LEMMA InitImplements ==
  ASSUME Init
  PROVE  Abstract!Init
<1>1. ~Distributing
  BY DEF Init, Distributing
<1>2. WaitingNow = NoCopies /\ AsideNow = NoCopies /\ \A i \in DOMAIN minor : HeldNow[i] = NoCopies
  BY <1>1, NoneWaits DEF WaitingNow, AsideNow, HeldNow
<1> QED
  BY <1>2 DEF WaitingNow, AsideNow, HeldNow, NoCopies, Abstract!Init, Abstract!None, Abstract!AllEmpty

\* The distribution, of one partition or of several, key by key or in
\* registers, implements BoundedBuckets: every key goes once into the bucket
\* the model predicts for it, which never holds more than THRESHOLD, or is
\* spilled, only if that bucket is full; and it ends with no key waiting.
THEOREM DistributionImplements == Spec => ImplementsBoundedBuckets
<1>1. Init => Abstract!Init
  BY InitImplements
<1>2. SortInv /\ [Next]_vars => [Abstract!Begin \/ Abstract!Move]_(Abstract!vars)
  <2> SUFFICES ASSUME SortInv, [Next]_vars
               PROVE  Abstract!Begin \/ Abstract!Move \/ UNCHANGED Abstract!vars
    OBVIOUS
  <2> QED  BY StepImplements, StillImplements, SameImplements
<1> QED  BY <1>1, <1>2, SortInductive, PTL DEF Spec, ImplementsBoundedBuckets, Abstract!Spec
=============================================================================
