------------------------- MODULE LearnedDistribute -------------------------
(***************************************************************************)
(* The distribution of a major bucket's keys over its minor buckets, the   *)
(* first half of sort_avx and of sort_avx_from_seperate_partitions.  A key *)
(* whose minor bucket is full goes to the spill bucket.                    *)
(*                                                                         *)
(* Without the vector option the keys are placed batch by batch.  With it, *)
(* SIMDStateSize registers of Lanes keys are in flight: each is fetched,   *)
(* predicted and scattered, one step of one register at a time.  Keys of   *)
(* a register that want the same bucket cannot be scattered together; the  *)
(* later ones stay, and are packed into the residue register, or filled up *)
(* from it.                                                                *)
(*                                                                         *)
(* The tuples have payload 0, so that the 64 bits which the vector code    *)
(* takes for a key are the key.                                            *)
(***************************************************************************)
EXTENDS LearnedModel

CONSTANTS
    Lanes,              \* LS_FOR_SORT_MERGE_VECTOR_SCALE
    SIMDStateSize       \* LS_FOR_SORT_MERGE_SIMDStateSize

ASSUME LearnedDistributeAssumption ==
    Lanes \in Nat \ {0} /\ SIMDStateSize \in Nat \ {0}

VARIABLES
    job,        \* the call's options, see LearnedSort
    hp,         \* the validated parameters
    model,
    pc,         \* where the call is, see LearnedSort
    bucket,     \* the major bucket that is being sorted
    source,     \* its partitions: a sequence of sequences of keys
    p,          \* the partition being distributed
    cur,        \* keys of the partition that have been fetched
    k,          \* the register whose turn it is
    done,       \* registers that are finished
    state,      \* the registers, and the residue at SIMDStateSize
    minor,      \* minor_bckts with minor_bckt_sizes
    spill       \* tmp_spill_bucket

distributing == <<p, cur, k, done, state, minor, spill>>
-----------------------------------------------------------------------------
(* The elements of s at the places I, in their order. *)
Pick(s, I) ==
    [n \in 1..Cardinality(I) |-> s[CHOOSE i \in I : Cardinality({j \in I : j <= i}) = n]]

(* A lane is free, or holds a key with its leaf or its bucket. *)
NoKey == <<>>
Empty == [j \in 1..Lanes |-> NoKey]
Held(lanes) == {j \in 1..Lanes : lanes[j] # NoKey}
Residue == SIMDStateSize

Keys == source[p]
Size == Len(Keys)

(* The minor bucket of a key, once its leaf is known. *)
MinorOf(leaf, key) ==
    BucketIn(model, leaf, key, job.fanout * job.minors, bucket * job.minors, job.minors)

(* (Mutant of Fitting: a bucket takes one key more than the threshold.) *)
Mutant_OneTooMany(items) ==
    {n \in DOMAIN items :
        Len(minor[items[n].idx]) + Cardinality({m \in 1..n : items[m].idx = items[n].idx})
            <= hp.threshold + 1}

(* The keys are placed one after the other: a key fits into its bucket if  *)
(* the bucket still has room after the ones before it.                     *)
Fitting(items) ==
    {n \in DOMAIN items :
        Len(minor[items[n].idx]) + Cardinality({m \in 1..n : items[m].idx = items[n].idx})
            <= hp.threshold}

Placed(items) ==
    LET keys == [n \in DOMAIN items |-> items[n].key]
        fit  == Fitting(items)
    IN  /\ minor' = [i \in DOMAIN minor |->
                        minor[i] \o Pick(keys, {n \in fit : items[n].idx = i})]
        /\ spill' = spill \o Pick(keys, DOMAIN items \ fit)
-----------------------------------------------------------------------------
(* The batches of the code without the vector option. *)
PlaceKeys(n) ==
    /\ Placed([i \in 1..n |-> LET key == Keys[cur + i]
                              IN  [key |-> key, idx |-> MinorOf(LeafOf(model, key), key)]])
    /\ cur' = cur + n
    /\ UNCHANGED <<p, k, done, state>>

FullBatch == cur + hp.batch <= Size /\ PlaceKeys(hp.batch)
LastBatch == cur + hp.batch > Size /\ cur < Size /\ PlaceKeys(Size - cur)
-----------------------------------------------------------------------------
(* The vector loop.  After its turn a register makes way for the next one, *)
(* or, if it has no keys left, is used again at once.                      *)
Following(i) == IF i + 1 >= SIMDStateSize THEN 0 ELSE i + 1

NoMoreInput == cur >= Size
Finishes == NoMoreInput /\ Held(state[k].lanes) = {} /\ state[k].stage # 3
AllFinished == NoMoreInput /\ done >= SIMDStateSize
Runs(stage) == ~Finishes /\ ~AllFinished /\ state[k].stage = stage

(* (Mutant of Finish: the register is not counted as finished.) *)
Mutant_NotCounted ==
    /\ Finishes
    /\ state' = [state EXCEPT ![k].stage = 3]
    /\ k' = Following(k)
    /\ UNCHANGED <<p, cur, done, minor, spill>>

Finish ==
    /\ Finishes
    /\ done' = done + 1
    /\ state' = [state EXCEPT ![k].stage = 3]
    /\ k' = Following(k)
    /\ UNCHANGED <<p, cur, minor, spill>>

PassBy ==
    /\ Runs(3)
    /\ k' = Following(k)
    /\ UNCHANGED <<p, cur, done, state, minor, spill>>

(* Stage 1 loads up to Lanes keys and finds their leaves; stage 0, or      *)
(* stage 1 itself if the leaves are not prefetched, finds their buckets.   *)
Fetched(n) ==
    LET Key(j)  == Keys[cur + j]
        Leaf(j) == LeafOf(model, Key(j))
    IN  [stage |-> IF job.prefetch THEN 0 ELSE 2,
         lanes |-> [j \in 1..Lanes |->
                       IF j > n THEN NoKey
                       ELSE [key |-> Key(j),
                             idx |-> IF job.prefetch THEN Leaf(j)
                                     ELSE MinorOf(Leaf(j), Key(j))]]]

Fetch(n) ==
    /\ state' = [state EXCEPT ![k] = Fetched(n)]
    /\ cur' = cur + Lanes
    /\ k' = Following(k)
    /\ UNCHANGED <<p, done, minor, spill>>

FetchFull == Runs(1) /\ cur + Lanes <= Size /\ Fetch(Lanes)
FetchPartial == Runs(1) /\ cur + Lanes > Size /\ Fetch(Size - cur)

(* The code of a full register does without masks; the steps are the same. *)
Predict ==
    LET WithBucket(lane) ==
            IF lane = NoKey THEN NoKey
            ELSE [key |-> lane.key, idx |-> MinorOf(lane.idx, lane.key)]
    IN  /\ state' = [state EXCEPT ![k] = [stage |-> 2,
                                         lanes |-> [j \in 1..Lanes |-> WithBucket(@.lanes[j])]]]
        /\ k' = Following(k)
        /\ UNCHANGED <<p, cur, done, minor, spill>>

PredictFull == Runs(0) /\ Held(state[k].lanes) = 1..Lanes /\ Predict
PredictPartial == Runs(0) /\ Held(state[k].lanes) # 1..Lanes /\ Predict

(* Stage 2.  The lanes without an earlier lane of the same bucket are      *)
(* scattered; the others are left.                                         *)
NoConflict(lanes) ==
    {j \in Held(lanes) : \A i \in Held(lanes) : i < j => lanes[i].idx # lanes[j].idx}
Left(lanes) ==
    [j \in 1..Lanes |-> IF j \in NoConflict(lanes) THEN NoKey ELSE lanes[j]]

InOrder(lanes) == Pick(lanes, Held(lanes))
Scattered(lanes) ==
    [j \in 1..Lanes |-> IF j \in NoConflict(lanes) THEN lanes[j] ELSE NoKey]

(* mask_expand: the lanes without a key take the first keys of a register. *)
Expand(lanes, from) ==
    [j \in 1..Lanes |->
        IF lanes[j] # NoKey THEN lanes[j]
        ELSE from[Cardinality({i \in 1..j : lanes[i] = NoKey})]]
(* maskz_compress *)
First(n, lanes) == [j \in 1..Lanes |-> IF j <= n THEN lanes[j] ELSE NoKey]
Compress(lanes) == First(Cardinality(Held(lanes)), InOrder(lanes))

LeftOver == Left(state[k].lanes)
NumLeft == Cardinality(Held(LeftOver))
NumResidue == Cardinality(Held(state[Residue].lanes))

(* Everything is scattered: the register is free again. *)
ScatterAll ==
    /\ Runs(2) /\ NumLeft = 0
    /\ Placed(InOrder(state[k].lanes))
    /\ state' = [state EXCEPT ![k] = [stage |-> 1, lanes |-> Empty]]
    /\ UNCHANGED <<p, cur, k, done>>

(* What is left fits into the residue: the register is free again. *)
ScatterAndPack ==
    /\ Runs(2) /\ NumLeft > 0 /\ NumLeft + NumResidue < Lanes
    /\ Placed(InOrder(Scattered(state[k].lanes)))
    /\ state' = [state EXCEPT
           ![Residue].lanes = First(NumLeft + NumResidue, Expand(@, Compress(LeftOver))),
           ![k] = [stage |-> 1, lanes |-> Empty]]
    /\ UNCHANGED <<p, cur, k, done>>

(* (Mutant of ScatterAndRefill: what remains of the residue is not moved   *)
(* to its first lanes.)                                                    *)
Mutant_NotCompressed ==
    /\ Runs(2) /\ NumLeft > 0 /\ NumLeft + NumResidue >= Lanes
    /\ Placed(InOrder(Scattered(state[k].lanes)))
    /\ LET taken == Lanes - NumLeft
           rest  == [j \in 1..Lanes |->
                        IF j <= taken THEN NoKey ELSE state[Residue].lanes[j]]
       IN  state' = [state EXCEPT ![k].lanes = Expand(LeftOver, state[Residue].lanes),
                                  ![Residue].lanes = rest]
    /\ k' = Following(k)
    /\ UNCHANGED <<p, cur, done>>

(* It does not: the register is filled up from the residue, and scattered  *)
(* again on its next turn.                                                 *)
ScatterAndRefill ==
    /\ Runs(2) /\ NumLeft > 0 /\ NumLeft + NumResidue >= Lanes
    /\ Placed(InOrder(Scattered(state[k].lanes)))
    /\ LET taken == Lanes - NumLeft
           rest  == [j \in 1..Lanes |->
                        IF j <= taken THEN NoKey ELSE state[Residue].lanes[j]]
       IN  state' = [state EXCEPT ![k].lanes = Expand(LeftOver, state[Residue].lanes),
                                  ![Residue].lanes = Compress(rest)]
    /\ k' = Following(k)
    /\ UNCHANGED <<p, cur, done>>

(* At the end the residue is scattered, and what is left of it placed.     *)
DrainResidue ==
    /\ AllFinished /\ ~Finishes /\ Held(state[Residue].lanes) # {}
    /\ LET lanes == state[Residue].lanes
       IN  Placed(InOrder(Scattered(lanes)) \o InOrder(Left(lanes)))
    /\ state' = [state EXCEPT ![Residue] = [stage |-> 1, lanes |-> Empty]]
    /\ k' = 0
    /\ UNCHANGED <<p, cur, done>>

Distributed ==
    IF job.imv THEN AllFinished /\ ~Finishes /\ Held(state[Residue].lanes) = {}
    ELSE NoMoreInput
-----------------------------------------------------------------------------
(* sort_avx distributes one partition, sort_avx_from_seperate_partitions   *)
(* those of all threads, into the same minor buckets, with its own copy of *)
(* the loops.                                                              *)
OneBucket == pc = "distribute" /\ job.fn = "sort_avx"
Partitions == pc = "distribute" /\ job.fn = "sort_avx_from_seperate_partitions"

PlaceBatch == OneBucket /\ ~job.imv /\ FullBatch
PlaceRest == OneBucket /\ ~job.imv /\ LastBatch
EndRegister == OneBucket /\ job.imv /\ (Finish \/ PassBy)
FetchRegister == OneBucket /\ job.imv /\ FetchFull
FetchLastRegister == OneBucket /\ job.imv /\ FetchPartial
PredictRegister == OneBucket /\ job.imv /\ PredictFull
PredictSparse == OneBucket /\ job.imv /\ PredictPartial
ScatterRegister == OneBucket /\ job.imv /\ (ScatterAll \/ ScatterAndPack)
ScatterAndFill == OneBucket /\ job.imv /\ ScatterAndRefill
ScatterResidue == OneBucket /\ job.imv /\ DrainResidue

PlacePartitionBatch == Partitions /\ ~job.imv /\ FullBatch
PlacePartitionRest == Partitions /\ ~job.imv /\ LastBatch
EndPartitionRegister == Partitions /\ job.imv /\ (Finish \/ PassBy)
FetchPartition == Partitions /\ job.imv /\ FetchFull
FetchPartitionLast == Partitions /\ job.imv /\ FetchPartial
PredictPartition == Partitions /\ job.imv /\ PredictFull
PredictPartitionSparse == Partitions /\ job.imv /\ PredictPartial
ScatterPartition == Partitions /\ job.imv /\ (ScatterAll \/ ScatterAndPack)
ScatterPartitionAndFill == Partitions /\ job.imv /\ ScatterAndRefill
ScatterPartitionResidue == Partitions /\ job.imv /\ DrainResidue

Distribute ==
    \/ PlaceBatch \/ PlaceRest \/ EndRegister
    \/ FetchRegister \/ FetchLastRegister \/ PredictRegister \/ PredictSparse
    \/ ScatterRegister \/ ScatterAndFill \/ ScatterResidue
    \/ PlacePartitionBatch \/ PlacePartitionRest \/ EndPartitionRegister
    \/ FetchPartition \/ FetchPartitionLast \/ PredictPartition \/ PredictPartitionSparse
    \/ ScatterPartition \/ ScatterPartitionAndFill \/ ScatterPartitionResidue

(* The loops start over for every partition; the buckets stay. *)
StartPartition(i) ==
    /\ p' = i
    /\ cur' = 0 /\ k' = 0 /\ done' = 0
    /\ state' = [r \in 0..SIMDStateSize |-> [stage |-> 1, lanes |-> Empty]]
=============================================================================
