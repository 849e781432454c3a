---------------------------- MODULE LearnedSort ----------------------------
(***************************************************************************)
(* The learned sort of learned_sort_for_sort_merge.h.  A model of the      *)
(* keys' distribution is trained; the threads partition their parts of the *)
(* relation into major buckets; each major bucket is distributed over      *)
(* minor buckets, these are sorted one by one, and the spilled and the     *)
(* repeated keys are merged in.                                            *)
(*                                                                         *)
(* The functions have no caller in the repository: the order of the calls  *)
(* is the one their arguments imply, every histogram before the partitions *)
(* and every partition before the sorts.  What the threads write between   *)
(* the calls is their own.                                                 *)
(***************************************************************************)
EXTENDS LearnedDistribute

CONSTANTS
    Jobs,               \* the calls' arguments and build options, below
    EXC_CNT_THRESHOLD,  \* a key sampled more often is repeated
    BATCH_SZ_EXP        \* keys of a batch, if there are repeated keys

(* A job: R, S (the two relations), two (BUILD_RMI_FROM_TWO_DATASETS),     *)
(* is_R (the relation sorted is R), threads (parts of it), beyond (what is *)
(* in memory after it), fn, fanout (major buckets), minors (per major      *)
(* bucket), params, imv and prefetch (vector options), avxsort (of the     *)
(* minor buckets), total (what the sort is told of the repeated keys: the  *)
(* partition's own "reported" total, or the keys "counted").               *)

ASSUME LearnedSortAssumption ==
    /\ BATCH_SZ_EXP \in Nat \ {0}
    /\ Jobs \subseteq
         [R : Seq(Nat), S : Seq(Nat), two : BOOLEAN, is_R : BOOLEAN, beyond : Nat,
          threads : Nat \ {0}, fn : {"sort_avx", "sort_avx_from_seperate_partitions"},
          fanout : Nat \ {0}, minors : Nat \ {0},
          params : [batch : Nat, fanout : Nat, sampling_rate : Nat, threshold : Nat, arch : Nat],
          imv : BOOLEAN, prefetch : BOOLEAN, avxsort : BOOLEAN, total : {"reported", "counted"}]

VARIABLES
    sample,     \* the sorted sample of the relation
    hist,       \* out_hist of each thread, <<>> before the call
    parts,      \* the output of partition_major_buckets of each thread
    merged,     \* major_bckt after the minor buckets' sort
    output,     \* sorted_output of the current major bucket
    exc,        \* the merge of repeated keys: its total, input_idx, exc_idx, ptr
    result      \* the sorted major buckets so far

pipeline == <<sample, hist, parts, merged, output, exc, result>>
vars == <<job, hp, model, pc, bucket, source, distributing, pipeline>>
-----------------------------------------------------------------------------
Relation == IF job.is_R THEN job.R ELSE job.S
Threads == 1..job.threads
PartLen == Len(Relation) \div job.threads
PartOf(t) == [begin |-> (t - 1) * PartLen,
              n |-> IF t = job.threads THEN Len(Relation) - (t - 1) * PartLen ELSE PartLen]
(* begin[i], which may lie after the part or after the relation *)
KeyAt(i) == IF i < Len(Relation) THEN Relation[i + 1] ELSE job.beyond
KeysOf(t) == [i \in 1..PartOf(t).n |-> KeyAt(PartOf(t).begin + i - 1)]

Majors == 0..(job.fanout - 1)
MajorOf(key) == Bucket(model, key, job.fanout, 0, job.fanout)
Into(keys, i) == Pick(keys, {n \in DOMAIN keys : MajorOf(keys[n]) = i})

Init ==
    /\ job \in Jobs
    /\ hp = job.params /\ model = Untrained(1) /\ pc = "validate"
    /\ bucket = 0 /\ source = <<>>
    /\ p = 0 /\ cur = 0 /\ k = 0 /\ done = 0 /\ state = <<>> /\ minor = <<>> /\ spill = <<>>
    /\ sample = <<>> /\ hist = [t \in Threads |-> <<>>] /\ parts = [t \in Threads |-> <<>>]
    /\ merged = <<>> /\ output = <<>> /\ exc = <<>> /\ result = <<>>

Validate ==
    /\ pc = "validate"
    /\ hp' = validate_params(validate_params(hp, Len(job.R)), Len(job.S))
    /\ pc' = "train"
    /\ UNCHANGED <<job, model, bucket, source, distributing, pipeline>>

TrainOnOne ==
    /\ pc = "train" /\ ~job.two
    /\ LET trained == train(hp, Relation)
       IN  model' = trained.model /\ sample' = trained.sample
    /\ pc' = "histogram"
    /\ UNCHANGED <<job, hp, bucket, source, distributing, hist, parts, merged, output, exc, result>>

TrainOnTwo ==
    /\ pc = "train" /\ job.two
    /\ LET trained == train_two(hp, job.R, job.S)
       IN  /\ model' = trained.model
           /\ sample' = IF job.is_R THEN trained.sample_R ELSE trained.sample_S
    /\ pc' = "histogram"
    /\ UNCHANGED <<job, hp, bucket, source, distributing, hist, parts, merged, output, exc, result>>

(* histogram_and_get_max_capacity_for_major_buckets, called by thread t. *)
Histogram(t) ==
    /\ pc = "histogram" /\ hist[t] = <<>>
    /\ hist' = [hist EXCEPT ![t] = [i \in Majors |-> Len(Into(KeysOf(t), i))]]
    /\ pc' = IF \A u \in Threads \ {t} : hist[u] # <<>> THEN "partition" ELSE pc
    /\ UNCHANGED <<job, hp, model, bucket, source, distributing, sample, parts, merged, output, exc, result>>
-----------------------------------------------------------------------------
(* The keys that the relation's sample has more than EXC_CNT_THRESHOLD     *)
(* times, in the order of the sample, which is ascending.                  *)
RepeatedKeys ==
    LET Count(key) == Cardinality({i \in DOMAIN sample : sample[i] = key})
        repeated   == {key \in ToSet(Relation) : Count(key) > EXC_CNT_THRESHOLD}
    IN  Pick([key \in repeated |-> key], repeated)

(* Without repeated keys every key goes to the major bucket predicted.     *)
UniquePartition(t) ==
    [bckt   |-> [i \in Majors |-> Into(KeysOf(t), i)],
     rep    |-> [i \in Majors |-> <<>>],
     counts |-> [i \in Majors |-> <<>>]]

(* With them, the repeated keys are only counted.  The keys are read in    *)
(* batches, the last of which may reach beyond the thread's part.          *)
Mutant_OneBatchMore(n) == 1 + n \div BATCH_SZ_EXP  \* (mutant of Batches)
Batches(n) == (n + BATCH_SZ_EXP - 1) \div BATCH_SZ_EXP
RepeatedPartition(t) ==
    LET read == [i \in 1..(Batches(PartOf(t).n) * BATCH_SZ_EXP) |->
                    KeyAt(PartOf(t).begin + i - 1)]
        rep  == [i \in Majors |-> Into(RepeatedKeys, i)]
        rest == {n \in DOMAIN read : read[n] \notin ToSet(RepeatedKeys)}
        Count(key) == Cardinality({n \in DOMAIN read : read[n] = key})
    IN  [bckt   |-> [i \in Majors |-> Pick(read, {n \in rest : MajorOf(read[n]) = i})],
         rep    |-> rep,
         counts |-> [i \in Majors |-> [e \in DOMAIN rep[i] |-> Count(rep[i][e])]]]

Partition(t) ==
    /\ pc = "partition" /\ parts[t] = <<>>
    /\ parts' = [parts EXCEPT ![t] = IF RepeatedKeys = <<>> THEN UniquePartition(t)
                                     ELSE RepeatedPartition(t)]
    /\ pc' = IF \A u \in Threads \ {t} : parts[u] # <<>> THEN "open" ELSE pc
    /\ UNCHANGED <<job, hp, model, bucket, source, distributing, sample, hist, merged, output, exc, result>>

partition_major_buckets == job.fn = "sort_avx" /\ \E t \in Threads : Partition(t)
partition_major_buckets_threaded ==
    job.fn = "sort_avx_from_seperate_partitions" /\ \E t \in Threads : Partition(t)
-----------------------------------------------------------------------------
Open ==
    /\ pc = "open"
    /\ source' = [t \in Threads |-> parts[t].bckt[bucket]]
    /\ minor' = [i \in 0..(job.minors - 1) |-> <<>>] /\ spill' = <<>>
    /\ StartPartition(1)
    /\ pc' = "distribute"
    /\ UNCHANGED <<job, hp, model, bucket, pipeline>>

DistributeKeys == Distribute /\ UNCHANGED <<job, hp, model, pc, bucket, source, pipeline>>

NextPartition ==
    /\ Partitions /\ Distributed /\ p < Len(source)
    /\ StartPartition(p + 1)
    /\ UNCHANGED <<job, hp, model, pc, bucket, source, minor, spill, pipeline>>

AllDistributed ==
    /\ pc = "distribute" /\ Distributed /\ p = Len(source)
    /\ pc' = "sort"
    /\ UNCHANGED <<job, hp, model, bucket, source, distributing, pipeline>>
-----------------------------------------------------------------------------
(* avxsort_tuples sorts each minor bucket into its place of the array. *)
AvxSorted == FoldLeft(LAMBDA acc, i : acc \o Ascending(minor[i - 1]), <<>>,
                      [i \in 1..job.minors |-> i])

(* The counting sort of minor bucket i: the keys' estimated places in the  *)
(* whole input; all by the first key's leaf, if the last key's is the same.*)
Place(i, key) ==
    LET keys  == minor[i]
        all   == Len(Relation)
        start == ((bucket * job.minors + i) * all) \div (job.fanout * job.minors)
        first == LeafOf(model, keys[1])
        leaf  == IF first = LeafOf(model, Last(keys)) THEN first ELSE LeafOf(model, key)
    IN  BucketIn(model, leaf, key, all, start, hp.threshold)
CountingSorted(i) ==
    LET keys   == minor[i]
        Rank(e) == Cardinality({d \in DOMAIN keys : Place(i, keys[d]) <= Place(i, keys[e])})
                   - Cardinality({d \in 1..(e - 1) : Place(i, keys[d]) = Place(i, keys[e])})
    IN  [r \in DOMAIN keys |-> keys[CHOOSE e \in DOMAIN keys : Rank(e) = r]]

(* The insertion sort goes back beyond the bucket, to the first key that   *)
(* is not greater.                                                         *)
InsertKey(keys, key) ==
    LET stop == {0} \cup {j \in DOMAIN keys : keys[j] <= key}
    IN  InsertAt(keys, 1 + (CHOOSE j \in stop : \A i \in stop : i <= j), key)
Mutant_InsideBucket ==   \* (mutant of TouchedUp: it stops at the bucket's first key)
    FoldLeft(LAMBDA acc, i : acc \o FoldLeft(InsertKey, <<>>, CountingSorted(i - 1)), <<>>,
             [i \in 1..job.minors |-> i])
TouchedUp == FoldLeft(LAMBDA acc, i : FoldLeft(InsertKey, acc, CountingSorted(i - 1)), <<>>,
                      [i \in 1..job.minors |-> i])

SortMinors ==
    /\ pc = "sort"
    /\ merged' = IF job.avxsort THEN AvxSorted ELSE TouchedUp
    /\ pc' = "spill"
    /\ UNCHANGED <<job, hp, model, bucket, source, distributing,
                   sample, hist, parts, output, exc, result>>

SortMinorBuckets == job.fn = "sort_avx" /\ SortMinors
SortMinorBucketsOfPartitions == job.fn = "sort_avx_from_seperate_partitions" /\ SortMinors
-----------------------------------------------------------------------------
(* Two runs are merged; ties come from the first. *)
MergeRuns(a, b) ==
    LET from[i \in 1..(Len(a) + 1), j \in 1..(Len(b) + 1)] ==
            CASE i > Len(a) -> SubSeq(b, j, Len(b))
              [] j > Len(b) -> SubSeq(a, i, Len(a))
              [] OTHER      -> IF b[j] < a[i] THEN <<b[j]>> \o from[i, j + 1]
                               ELSE <<a[i]>> \o from[i + 1, j]
    IN  from[1, 1]

SumOf(s) == Cardinality(UNION {{e} \X (1..s[e]) : e \in DOMAIN s})
Flat(lists) == FoldLeft(LAMBDA a, b : a \o b, <<>>, lists)

(* The minor buckets and the spill are merged behind the place that is     *)
(* left free for the repeated keys.                                        *)
MergeSpill(total, vals, counts) ==
    /\ pc = "spill"
    /\ output' = [i \in 1..total |-> 0] \o MergeRuns(merged, Ascending(spill))
    /\ exc' = [total |-> total, input |-> total,
               limit |-> total + SumOf([i \in DOMAIN source |-> Len(source[i])]),
               next |-> 1, ptr |-> 0, vals |-> vals, counts |-> counts]
    /\ pc' = "repeated"
    /\ UNCHANGED <<job, hp, model, bucket, source, distributing,
                   sample, hist, parts, merged, result>>

Reported(t) == Len(parts[t].rep[bucket])
Counted(t) == SumOf(parts[t].counts[bucket])

TotalOf == IF job.total = "reported" THEN Reported(1) ELSE Counted(1)

MergeSpillBucket ==
    /\ job.fn = "sort_avx"
    /\ MergeSpill(TotalOf, parts[1].rep[bucket], parts[1].counts[bucket])
MergeSpillOfPartitions ==
    /\ job.fn = "sort_avx_from_seperate_partitions"
    /\ MergeSpill(SumOf([t \in Threads |-> Reported(t)]),
                  Flat([t \in Threads |-> parts[t].rep[bucket]]),
                  Flat([t \in Threads |-> parts[t].counts[bucket]]))

(* The repeated keys are merged in, from the front of the array; the keys  *)
(* of the buckets move down to the place that was left free.  If that was  *)
(* too little, what is written overtakes what is read, and then the end.   *)
InputLeft == exc.input < exc.limit
RepeatedLeft == exc.next <= Len(exc.vals)
Merging == pc = "repeated"
OfPartitions == job.fn = "sort_avx_from_seperate_partitions"

WriteTo(end, key) ==
    output' = [i \in 1..Most(Len(output), end) |->
                  IF i > exc.ptr /\ i <= end THEN key ELSE output[i]]

TakeInput ==
    /\ InputLeft /\ (RepeatedLeft => output[exc.input + 1] < exc.vals[exc.next])
    /\ WriteTo(exc.ptr + 1, output[exc.input + 1])
    /\ exc' = [exc EXCEPT !.input = @ + 1, !.ptr = @ + 1]

(* (Mutant of AfterCopies: the loop over the copies runs once too often.) *)
Mutant_OneCopyMore == exc.ptr + exc.counts[exc.next] + 1
AfterCopies == exc.ptr + exc.counts[exc.next]
PutRepeated ==
    /\ RepeatedLeft /\ (InputLeft => output[exc.input + 1] >= exc.vals[exc.next])
    /\ WriteTo(AfterCopies, exc.vals[exc.next])
    /\ exc' = [exc EXCEPT !.next = @ + 1, !.ptr = AfterCopies]

MergeStep ==
    /\ Merging
    /\ TakeInput \/ PutRepeated
    /\ UNCHANGED <<job, hp, model, pc, bucket, source, distributing,
                   sample, hist, parts, merged, result>>

MergeRepeated == ~OfPartitions /\ MergeStep
MergeRepeatedOfPartitions == OfPartitions /\ MergeStep

EndBucket ==
    /\ Merging /\ ~InputLeft /\ ~RepeatedLeft
    /\ result' = result \o SubSeq(output, 1, exc.ptr)
    /\ IF bucket + 1 < job.fanout THEN bucket' = bucket + 1 /\ pc' = "open"
       ELSE bucket' = bucket /\ pc' = "done"
    /\ UNCHANGED <<job, hp, model, source, distributing,
                   sample, hist, parts, merged, output, exc>>

(* The loops, which a sort's thread runs until they end. *)
Loops ==
    \/ Open \/ DistributeKeys \/ NextPartition \/ AllDistributed
    \/ MergeSpillBucket \/ MergeSpillOfPartitions
    \/ MergeRepeated \/ MergeRepeatedOfPartitions \/ EndBucket

Next ==
    \/ Validate \/ TrainOnOne \/ TrainOnTwo
    \/ \E t \in Threads : Histogram(t)
    \/ partition_major_buckets \/ partition_major_buckets_threaded
    \/ SortMinorBuckets \/ SortMinorBucketsOfPartitions
    \/ Loops

Spec == Init /\ [][Next]_vars /\ WF_vars(Loops)

-----------------------------------------------------------------------------
(* Properties of the learned sort.                                         *)

Distributing == pc = "distribute"

AllKeys == ToSet(Relation) \cup {job.beyond}

(* The number of copies of each key. *)
Copies(seq) == [key \in AllKeys |-> Cardinality({n \in DOMAIN seq : seq[n] = key})]

(* The keys that have not been placed: those still to be fetched, by       *)
(* partition and place, and those in the lanes of the registers.           *)
Unread == UNION {{q} \X {n \in DOMAIN source[q] : q > p \/ n > cur} : q \in p..Len(source)}
InFlight == UNION {{i} \X Held(state[i].lanes) : i \in 0..SIMDStateSize}
Waiting ==
    [key \in AllKeys |->
        Cardinality({u \in Unread : source[u[1]][u[2]] = key})
        + Cardinality({u \in InFlight : state[u[1]].lanes[u[2]].key = key})]

(* Distributing the keys, one by one or in registers of which some lanes   *)
(* are scattered, packed away, filled up and drained, puts every key once, *)
(* into the bucket the model predicts for it, never more than THRESHOLD    *)
(* into one, and spills a key only when its bucket is full (sort_avx's     *)
(* "Check if the element will cause a bucket overflow").                   *)
Abstract == INSTANCE BoundedBuckets WITH
    home    <- [key \in AllKeys |-> MinorOf(LeafOf(model, key), key)],
    limit   <- hp.threshold,
    waiting <- IF Distributing THEN Waiting ELSE Copies(<<>>),
    held    <- [i \in DOMAIN minor |-> Copies(IF Distributing THEN minor[i] ELSE <<>>)],
    aside   <- Copies(IF Distributing THEN spill ELSE <<>>)
ImplementsBoundedBuckets == Abstract!Spec

(* The bookkeeping of the registers: the keys of the residue lie in its    *)
(* first lanes (the masks are built from their number), the residue never  *)
(* fills up, and a register counted as finished holds none.                *)
ResidueIsPacked ==
    Distributing /\ job.imv =>
        /\ Held(state[Residue].lanes) = 1..NumResidue /\ NumResidue < Lanes
        /\ done = Cardinality({i \in 0..(SIMDStateSize - 1) : state[i].stage = 3})
        /\ \A i \in 0..(SIMDStateSize - 1) :
              state[i].stage \in {1, 3} <=> Held(state[i].lanes) = {}

(* The keys that the last batch of a thread reads beyond the thread's part,*)
(* which are those of the next thread, or what is in memory after them.    *)
ReadBeyond(t) == IF RepeatedKeys = <<>> THEN 0
                 ELSE (BATCH_SZ_EXP - (PartOf(t).n % BATCH_SZ_EXP)) % BATCH_SZ_EXP
KeysBeyond(t) == [i \in 1..ReadBeyond(t) |-> KeyAt(PartOf(t).begin + PartOf(t).n + i - 1)]

(* A bucket of a partition takes no more than the space that its histogram *)
(* has counted, and one place more for each key of the bucket that the     *)
(* last batch reads beyond the thread's part (the loop of lines 989-1038   *)
(* has no test of the end).                                                *)
PartitionsFit ==
    \A t \in Threads : parts[t] # <<>> =>
        \A i \in Majors :
            Len(parts[t].bckt[i]) <= hist[t][i] + Len(Into(KeysBeyond(t), i))

(* The merge of the repeated keys writes into the array it reads: it runs  *)
(* ahead of its reading by no more copies than it was not told of, so it   *)
(* overwrites no key it has still to read if it was told of all of them.   *)
ReadBeforeWritten ==
    pc = "repeated" => exc.ptr + exc.total <= exc.input + SumOf(exc.counts)

(* What the partitions have read, and whether the merge of each bucket was *)
(* told of all copies of its repeated keys: the total that the partition   *)
(* reports is the number of the different keys.                            *)
KeysRead == Flat([t \in Threads |-> KeysOf(t) \o KeysBeyond(t)])
Told(i) == IF OfPartitions THEN SumOf([t \in Threads |-> Len(parts[t].rep[i])])
           ELSE IF job.total = "reported" THEN Len(parts[1].rep[i]) ELSE SumOf(parts[1].counts[i])
RepeatedOf(i) == Flat([t \in Threads |-> parts[t].rep[i]])
CopiesTold ==
    \A i \in Majors : SumOf(Flat([t \in Threads |-> parts[t].counts[i]])) <= Told(i)

(* Where the model never sends a larger key to an earlier bucket than a    *)
(* smaller one, and the threads' lists of repeated keys, one after the     *)
(* other, ascend.  With the touch-up of the counting sort, which goes back *)
(* over all the minor buckets, the order of the major buckets is enough.   *)
PredictsInOrder ==
    LET buckets == IF job.avxsort THEN job.fanout * job.minors ELSE job.fanout
        Of(key) == Bucket(model, key, buckets, 0, buckets)
    IN  /\ \A a, b \in ToSet(KeysRead) : a < b => Of(a) <= Of(b)
        /\ \A i \in Majors : RepeatedOf(i) = Ascending(RepeatedOf(i))

(* The result has as many keys as the partitions have read; it has the     *)
(* same keys, whatever the model predicts, if the merges were told of all  *)
(* the copies; and these in ascending order, if the model predicts in      *)
(* order besides: of buckets out of order no later step takes notice.      *)
SortsTheRelation ==
    pc = "done" =>
        /\ Len(result) = Len(KeysRead)
        /\ CopiesTold => Ascending(result) = Ascending(KeysRead)
        /\ CopiesTold /\ PredictsInOrder => result = Ascending(KeysRead)

(* "The input array is now sorted", says the end of both sorts.            *)
InputIsSorted == pc = "done" => result = Ascending(Relation)

(* The vector loop, whose registers wait for one another's left-over keys, *)
(* and the merges come to an end.                                          *)
SortEnds ==
    /\ pc = "open" ~> pc = "sort"
    /\ pc = "spill" ~> pc \in {"open", "done"}
=============================================================================
