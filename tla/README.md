# Verification of hashing-benchmark-docker

TLA+ models of the parts of this repository that carry its own logic, the TLC
runs that check them on small instances, and TLAPS proofs of what matters most.
Paths are relative to the repository root; `J` stands for
`src/code/include/join`, `U` for `J/utils`, `I` for `src/code/include` and `B`
for `src/code/src/benchmarks`.

To run it: `tlc -config npj_build.cfg MCNPJ.tla` (each configuration names its
MC module in the table of section 4) and `tlapm X.tla` for each X of `NPJProofs`,
`BulkLoadProofs`, `LinearProofs`, `CuckooProofs`, `ChainedProofs`, `MonotoneProofs`,
`HarnessProofs` and `LearnedProofs` (the last takes some minutes).

## 1. The system

The repository measures hash functions, classical and learned ones, as the
hash functions of hash tables and of a parallel hash join. It has two programs
(`benchmarks` and the join runner), a test program, and scripts around them. The
join's directory also holds the sorting and merging code of a sort-merge join:
a vector sort, multiway merges, and a sort that learns the distribution of the
keys. It is templated code in headers, kept for that join.

| part | code | state it keeps | operations | what is hard |
|---|---|---|---|---|
| Non-partitioned hash join (NPJ) | `J/npj_join_runner.cpp`, `J/utils/eth_data_structures.h`, `lock.h`, `barrier.h` | the shared table (heads, overflow chains, latches), each thread's overflow buffers, slices and counters | thread start, allocate, build, probe, join | threads that insert into one chain; phases kept apart by barriers only; the latch is spun on |
| Chained tables | `I/chained.hpp`, `chained_exotic.hpp`, `chained_model.hpp`, `support.hpp` | directory of buckets, linked overflow buckets, the tape they come from | constructor, `insert`, `operator[]` | the exotic lookup stops at the first free slot; tape segments |
| Linear probing tables | `I/probe.hpp`, `probe_exotic.hpp`, `probe_model.hpp` | directory of buckets | constructor, `insert`, `operator[]` | wrap-around; a limit to the probing on both sides; the constructor throws |
| Cuckoo tables | `I/cuckoo.hpp`, `cuckoo_exotic.hpp`, `cuckoo_model.hpp` | directory of buckets, the kicking strategy's random numbers | constructor, `insert`, `lookup` | long kick cycles, failure in the middle of one |
| Monotone table | `I/monotone_hashtable.hpp` | directory of buckets with chains, filled in key order | constructor, `operator[]`, iterator | key order across chains and empty buckets |
| MMPHF table | `I/mmphf_table.hpp` | sorted array of payloads | constructor, `operator[]`, iterator | - |
| Data set cache | `src/code/src/support/datasets.hpp` | static maps of files and of data sets | `load_cached` | files that are missing or too short; random data that must stay the same |
| Benchmark harness | `B/tables.hpp`, `B/template_tables.hpp`, `support/probing_set.hpp` | globals `previous_signature`, `probing_set`, `prev_table`, `free_lambda` | `Construction`, `TableProbe`, `TableMixedLookup`, `PointProbe`, `PointProbeCuckoo`, `CollisionStats` | setup that is reused by later calls; early returns |
| Passive statistics, range benchmarks | `B/passive_stats.hpp`, `B/template_tables_range.hpp` | the same globals | the same functions, other statistics; range queries | - |
| Task queues | `J/utils/data_structures.h`, `eth_generic_task_queue.h` | free list and task list under a lock | add, get | - |
| Fallback barrier | `J/utils/barrier.h:36-85` | `called`, threads that wait | `barrier_wait` | spurious wakeups |
| Scripts | `src/scripts/*` | files | run slices in parallel, merge, clean, download | failure between two steps, empty slices |
| Index joins (INLJ) | other configurations of `npj_join_runner.cpp`, `J/utils/CC_CSSTree.h`, `art32_tree.h`, `art64_tree.h`, `stanford_hash.h` | an index that is only read by the threads | build in `main`, probe | - |
| Vector sort kernels | `U/eth_avx_sort/avxintrin_emu.h`, `avxcommon.h`, `avxsort_core.h`, `U/eth_avx_merge/merge.h` | registers, the memory of two lists and an output | bitonic networks, in-register sort, merges of equal and varying lengths, aligned or not, AVX2 or AVX-512 | one lane in the wrong place sorts almost everything; the last block in the registers is flushed back into an input |
| Vector sort | `U/eth_avx_sort/avxsort.h`, `avxsort_core.h` | two arrays; for each sorted chunk, which of them holds it | blocks, remainder, merge rounds | the arrays' roles change with every level and every merge; merges run over the next chunk |
| Multiway merges | `U/eth_avx_merge/scalar_multiwaymerge.h`, `avx_multiwaymerge.h`, `U/eth_avx_sort/avxsort_multiway.h` | a tree of ring buffers, parts, output | a round over the tree; a sort that cuts into cache-sized blocks | rings that are full, empty or wrap in a block; nodes that wait for one another; when the loop ends |
| Learned sort for sort-merge | `U/learned_sort_for_sort_merge.h` | model, histograms, partitions, minor buckets, spill bucket, registers in flight | train, histogram, partition, distribute, sort, merge | keys left over in registers; buckets that spill; repeated keys that are only counted |
| Other learned sorts | `U/learned_sort.h`, `learned_sort_avx.h` | the same on one array | the same | - |

How they interact. The benchmark library calls the harness functions in the
order they are registered in; a harness function calls `load_cached`, draws a
probing set from the keys, constructs a table of its template parameter and
then calls the table's `operator[]` in the benchmark loop. Tables are built
and read by one thread. The join runner shares no state with the harness: its
threads share the table and the barrier. The sorts share no state with either:
the learned sort calls the vector sort for its minor buckets, the multiway sort
calls it for its blocks, and all of them use the merge kernels. Within a thread
they are sequential; only the partitioning of the learned sort is called by
several threads, each on its part of the relation.

## 2. What makes each part correct

* NPJ: each tuple of R is stored exactly once whatever the interleaving; no
  thread probes an unfinished table or builds into one that is not there; the
  sum of the threads' counters is the size of the join; every thread ends.
* Tables: a lookup answers 1 for exactly the keys inserted, at every moment of
  the construction, and the constructor throws only when all the buckets it may
  look at are full.
* Monotone table: iteration from a key yields the keys behind it in order, none
  skipped and none twice, and reads nothing that is not a key as one.
* Cache: a data set, once made, never changes and never holds the Sentinel.
* Harness: the table and the probing set a measurement uses are those its
  label names; one table is allocated at a time.
* Kernels: a network sorts every input; a merge writes exactly its output (and
  the cells of the inputs it may flush into), in order.
* Vector sort: it ends with one of the two arrays holding the input in order,
  and touches no other memory.
* Multiway merges: the output is all of the parts, merged; the loop ends.
* Learned sort: no key is lost or copied whatever the model predicts; each key
  goes to its predicted bucket or, if that is full, aside; if the model is
  monotone the result is sorted.

## 3. The modules

### 3.1 The join

`HashJoin` is the promise without threads: tuples of R are stored, in any
order, then every tuple of S is looked up once in each repetition, and a
repetition ends with the number of matching pairs.

`NPJHashTable` is the code. A thread is a program counter `pc[t]`; each step is
what the thread does between two points where another thread can interfere.

| action | code |
|---|---|
| `Allocate` | thread 0 sets the global `ht` (769-780); each thread makes its first overflow buffer |
| `ReleaseBarrier` | `BARRIER_ARRIVE`: all threads leave together: six waits (780-904), two of them in a row after the build. A seventh, at 735, comes before any shared state is touched and is left out |
| `TakeTable` | the thread copies `ht` (782-803) |
| `Lock`, `Unlock` | the spin on the latch; `unlock` is a store |
| `ReadNext`, `Reserve`, `Store` | an insertion (138-211), split at its reads and writes of shared memory: read `nxt`, choose a place and raise `count`, write the tuple |
| `PlaceInHead`, `PlaceInNext`, `PlaceInNew` | the three alternatives of `Reserve`; the last takes a bucket of the thread's own overflow buffer, or of a new buffer when that is full |
| `EndBuild`, `ProbeTuple`, `EndProbe` | end of the slice; one tuple of S (293-352); `num_results` |

`CurrTuple` and `First`/`SliceLen` are the slices `main` hands out, the last
of which takes the remainder. A bucket is a triple of owner, buffer and
index, the owner being -1 for the heads in the table and else the thread whose
overflow buffer it is in; a chain is the sequence of overflow buckets behind
a head, the newest first; a slot holds the position in R of the tuple stored
there. `NPJProperties` has the properties and the refinement; `MCNPJ` the
instances; `NPJProofs` the proofs (types, latch, phases, the build, the result and the
refinement).

Assumed: program-order stores on x86 (`unlock` is a plain volatile store), and
at least one head bucket (the source computes the number from the size of R
and may compute 0 for a tiny one).

### 3.2 The tables

`LookupTable` is the promise of every table: a construction that grows the set
of keys a lookup answers 1 for by one key at a time and ends "ready" with all
of them or "failed". A failing construction may lose one key.

`BulkLoad` is the part of the constructors that all of them share: the size of
the directory, and the two loops, the second of which inserts the last
`insert_count` keys under a timer. Sizes are `size_t` and wrap at `SizeT`.
What C++ leaves undefined is the action `Crash`.

`ChainedTable`, `LinearTable` and `CuckooTable` extend `BulkLoad`:

| module | one step is | state |
|---|---|---|
| `ChainedTable` | one `insert`: the walk to the first free slot, or `Tape::alloc` and a new bucket | `keys`, `chain`, `tape` |
| `LinearTable` | one `insert`: probing to the first bucket with room; `Throw` | `keys` |
| `CuckooTable` | one round of the loop of `insert`: `Take` a key, `Place` it, or `Kick` another one out; `Throw` | `kickingfn`, `slots`, `hand` (the key the loop holds), `kicks` |

The lookups are operators on that state: `Lookup`, and `ExoticLookup` for the
early return of `chained_exotic.hpp`. Hash functions and learned models are
CONSTANT operators: nothing is assumed of them but that they return naturals.
The properties are in `LinearProperties` and so on, the proofs in `LinearProofs`,
`CuckooProofs` and `ChainedProofs`; `BulkLoadProofs` has the lemmas on the shared
loops.
The variants of a table differ in constants: `ModelIndex` and `ModelScale`
(`chained_model.hpp`), `ProbeInsert` and `ProbeLookup` (`probe_model.hpp`),
`KickingFn`, and the second hash value (`H2`).

`MMPHFTable` is a table of its own: a sorted array, `operator[]`, and an iterator
that is a rank. `OrderedTable` is the promise of the monotone table: the same with
what `key()` reads (`read`), and with gaps. Between two elements the iterator may stop
in a gap, where it reads Sentinel, and the next step leads to the element behind it.
`MonotoneTable` is the table with a directory, buckets and chains, and an
iterator that is a directory index, a bucket of the chain and a slot.
At its end `MonotoneTable` maps a place to its rank and `read` to the key stored
there; an empty directory bucket is a gap. Its proofs are in `MonotoneProofs`.

### 3.3 Data sets and harness

`DatasetCache` is `load_cached`: `Hit`, `Generate`, `SampleFile`, `NoFile`. A
sorted list without duplicates is the set of its keys. `BenchmarkHarness`
extends it with the benchmarked functions. One call is `Reuse`, or a setup
(`SetupFails`, `Build`, `BuildThrows`, `TooFewKeys`), then `Iterate` as often
as the library asks, then `Leave`. The benchmark library is external:
`ArgsProduct` makes the list of instances and `Returns` calls each of them one
or several times, in order. The probing set is any sequence
`generate_probing_set` can return, misses included. The properties are in
`HarnessProperties`, the proofs in `HarnessProofs`.

### 3.4 Sorting and merging

Memory is one sequence of items, an address an index into it, so that arrays
which overlap, or an output that runs into the next input, are what they are in
the code; a load from it or a store to it that is not aligned as its instruction
demands makes the memory `Fault`. Local buffers are not part of it. A 256-bit register holds `V` items, 4 in the source, and the
kernels' blocks of 4, 8 and 16 items are `V`, `2 * V` and `4 * V`: with `V = 1` the
loop bounds of the source are scaled down by one factor and keep their places
relative to each other. The networks inside the registers are run at full width.

| module | code | one step is |
|---|---|---|
| `AvxRegister` | `avxintrin_emu.h`, `avxcommon.h`: instructions, min/max networks | (operators) |
| `BitonicMerge` | `avxsort_core.h`, `merge.h`: the loops of all merge kernels, with what each flushes and where | (operators) |
| `SortKernels` | one call of a network, a merge, or a merge of limited room | `ReturnNetwork`, `ReturnMerge`, `ReturnSlots` |
| `AvxSort` | `avxsort_int64`, `avxsort_tuples`, `avxsort_block`, `avxsort_rem` | a block (`SortChunk`), a block or the tail of the remainder (`RemBlock`, `RemScalar`), a merge of the remainder (`RemMerge`), a merge round (`Merge`) |
| `MergeNode` | the queue of a node and everything that moves items through it | (operators) |
| `MultiwayMerge` | `scalar_multiway_merge`, `..._modulo`, `..._bitand`, `avx_multiway_merge` | a visit to a node (`ReadLeaf`, `PassLeaf`, `VisitInner`) and the root's turn (`StoreRoot`) |
| `MultiwaySort` | `avxsort_multiway.h` | `SortBlock`, `Choose`, a `Tree` step, a two-way `Round` |
| `LearnedModel` | `validate_params`, `train`, both of them, and the prediction | (operators) |
| `LearnedDistribute` | first half of `sort_avx` and of `sort_avx_from_seperate_partitions` | a batch, or one stage of one register: fetch, predict, scatter, fill up, drain |
| `LearnedSort` | the phases from the parameters to the sorted bucket | one phase of one thread or bucket; one key of the last merge |

`MCSorts` composes `SortKernels`, `AvxSort` and `MultiwaySort` for TLC: a behaviour is
one call of one of them, which is chosen at the start and keeps its variables while
those of the others stand still. `SortInputs` has the calls.

Two abstract specifications are implemented:

* `SortedArray`: two arrays, one of which ends up holding the input in order; the
  other and the way there are free, the rest of the memory is not.
  `AvxSort` implements it, and `MultiwaySort` uses no more of the vector
  sort than it promises (the array that is not the result gets junk).
* `BoundedBuckets`: copies of keys move from those that wait to their home bucket, or
  aside if it is full; it keeps the number of copies of each key at each of the
  three. `LearnedSort` implements it: the keys that wait are those unread and those in
  flight in the registers. The proofs are in `LearnedProofs`.

The learned model's numbers are exact fractions (a line is a point and a slope
`dy/dx`), rounded where the source rounds; a slope of `1/0` makes every prediction
not a number, which the source's clamping sends to the last bucket. Clamping and
truncation are one step: as many numbers of the range as the value has reached.
Placing a batch of keys is a closed form (`Fitting`: the keys before which the bucket
still has room). The major buckets' sort (`avxsort_tuples` on minor buckets, or the
counting sort with its touch-up) is modelled by what it does, step by step for the
latter.

## 4. The runs

| run | module | question | result |
|---|---|---|---|
| `npj_build` | `MCNPJ` | three threads, a remainder slice, buckets of two tuples, buffers of one bucket, two repetitions: do the threads implement the sequential join, are overflow buckets filled in order, does every thread end? | holds |
| `npj_single_tuple` | `MCNPJ` | `SINGLE_TUPLE_PER_BUCKET` together with `BUCKET_SIZE` 2, as the source has them | `JoinResult` violated |
| `chained_build` | `MCChained` | two lists of overflow buckets that share tape segments: membership at every moment | holds |
| `linear_build` | `MCLinear` | probing with wrap-around, tables that are full, tables with too few slots, and tables longer than the probe limit | holds |
| `cuckoo_build` | `MCCuckoo` | both strategies on full tables, with three keys that share both hash values | holds |
| `harness_cache` | `MCHarness` | instances of two tables in the order of registration, a file that may be missing | holds |
| `monotone_iterate` | `MCMonotone` | every sorted list of one to six keys: lookups and iterations are those of the sorted array, with gaps | holds |
| `monotone_gaps` | `MCMonotone` | is an iterator that is not `end()` always on an element? | `IteratorsYieldElements` violated |
| `sorts` | `MCSorts` | do the networks of both builds sort, and does each merge kernel write its output and nothing else? does the vector sort implement a sorted array, chunk by chunk, and end? do four multiway merges and the sort around one of them lose, copy or misplace an item, and end? | holds |
| `sort_multiway_fan4` | `MCSorts` | the multiway sort with four blocks, a tree of two leaves | `Complete` violated |
| `learned_sort` | `MCLearned` | does the distribution implement bounded buckets, with and without the vector loop? what do partial batches and the reported total of repeated keys put at risk, and is the result sorted where the predictions are in order? | holds |
| `learned_unsorted` | `MCLearned` | one relation with repeated keys: is the result the sorted relation? | `InputIsSorted` violated |

### Bounds, and why they are enough

* Join: all assignments of two keys to five tuples of R and two of S are initial
  states. Five tuples behind one head fill it and two overflow buckets, the slices are
  1, 1 and 3 tuples long, and the thread with three may need a second overflow
  buffer. Three threads meet on one latch.
* Tables: lists are in every order (`random_shuffle`) up to a renaming of keys
  with equal hash values, which no code tells apart. The lengths are chosen
  so that chains have two overflow buckets and a segment of the tape is used
  up in the middle of a chain (`chained_build`), the directory has fewer, as
  many and more slots than keys (`linear_build`), and two or three buckets against a
  probe limit of two: in the source the limit is 50000 and directories have
  up to some 100 million buckets, so that an insertion may be refused while the table
  has room elsewhere. A kick cycle reaches its
  limit of three (`cuckoo_build`). A list of one key, shorter than
  `insert_count`, reaches the undefined read.
* Harness: two data sets (one from a file), two table types and all functions
  but the two that repeat another, each called once or twice. A probing set
  has up to three elements and a call runs four iterations, so that the
  position wraps.
* Monotone table: the model sends small keys to the first and large keys to
  the last directory bucket, so that there are chains and empty buckets.
* Kernels: by the 0-1 principle a network that sorts all 0-1 inputs sorts
  everything; its precondition is two sorted blocks, and all pairs of those are
  tried. Merges get all pairs of sorted lists over three values of lengths around
  one, two and three blocks, apart (from an aligned address and from the next one)
  and with the output running into the second list, with guard cells around.
* Vector sort: blocks of 64 and remainders above 8 items against 2^21 and 128 in
  the source; up to four blocks and a remainder make each loop take several
  rounds and carry an odd chunk over, and both parities of a block's levels occur
  in the remainder. Inputs are strided permutations, ties, ascending, descending.
* Multiway merges: rings of 5 to 16 items for blocks of 4, so that pieces wrap in the
  middle of a block and a leaf is full before its part is empty; 8 parts have a
  level of inner nodes, 16 two. Five shapes of parts: even, one much longer than the
  others, some empty, disjoint ranges, many ties. One, three and six to nine
  cache blocks (four are `sort_multiway_fan4`), with full blocks and the
  remainder sorted into either array.
* Learned sort: registers of three lanes, two in flight, buckets of two keys.
  Inputs of up to 11 keys overfill buckets, fill the residue and are sampled; all
  four-key sequences over four keys go through the counting sort; one to three
  threads partition, in any order. Batches have 2 keys and a key sampled three times is
  repeated (100 and 61 in the source): with repeated keys there are parts of
  whole batches and parts that the last batch reads beyond, one and two repeated keys in a
  bucket, parts with none, one and several copies of a key, and `sort_avx` is told the
  total the partition reports as well as the number of copies.

The bounds are `Lengths`, `MaxLen`, `MaxCalls`, `Iterations`, `MaxKickCycleLength`,
`RngMax`, `SizeT`, `RUN_NUMS`, `BATCH_SZ_EXP`, `EXC_CNT_THRESHOLD`, `ProbeInsert`, `NumThreads`, `NumR` and `NumS` (the sizes of the
relations), `V`, `BLOCKSIZE`, `RemLimit`, `L3BLOCKSIZE`, `Fifosize`, `Lanes`,
`SIMDStateSize`, and the sets of calls `CallSets`, `Calls` and `Jobs`, which for the
sorts are those of `SortInputs`.

### Fairness

`npj_build` assumes weak fairness of each thread's steps and of the barrier:
the operating system runs every thread, and the latch is only waited for by
threads that spin. Weak fairness of `Lock` for a thread is enough because
threads compete for a latch finitely often: each takes it once per tuple.
`Terminates`, `IterationEnds`, `EveryCallReturns` and `SortEnds` assume weak
fairness of the one thread that runs the program (`SortEnds` of its loops only:
which call comes when is the caller's choice).

The vector sort and the multiway merges need no fairness: they have one thread,
cannot deadlock before they return, and `EveryStepProgresses` and
`RoundsMakeProgress` say that a measure of the work left falls, with every step of
the one and with every round over the tree of the other. `learned_sort` and
`learned_unsorted` do not check for deadlock: a behaviour is one call and stops
behind it.

### What the violated properties show

* `npj_single_tuple`: line 47 defines `SINGLE_TUPLE_PER_BUCKET`, so the probe
  compares the first tuple of a bucket only, while the build fills
  `BUCKET_SIZE` of them; `configs/eth_configs.h:17` says 2. Pairs are missed.
* `monotone_gaps`: two keys share directory bucket 0. After the second one
  `operator++` goes to directory bucket 1 without asking whether it holds a key
  (`monotone_hashtable.hpp:157`). It is empty; the iterator is not `end()`, `key()` is
  Sentinel and `payload()` was never written. "since data was inserted in sorted order,
  simply advancing to next slot does the trick", says the comment at 146; the test
  `Iterate` expects each iterator that is not `end()` to have the next element's payload
  (its keys leave no bucket empty), and a range query of `template_tables.hpp:213` counts
  the gap as an element. `monotone_iterate` shows that this is all that goes wrong: no
  element is skipped, none comes twice, and no lookup ends in a gap.
* `sort_multiway_fan4`: with four parts there are two queues and both are leaves.
  A leaf that has enough is passed over, and passing it over does not clear
  `finished` (`avx_multiwaymerge.h:172`). In the first round both leaves read 10 items
  and fill their rings; the store takes 5 items of leaf 0 and all 10 of leaf 1. In the
  second round leaf 1 reads its last 6 items and is done, which leaves `finished` at 1;
  leaf 0 holds 5 items, just `readthreshold`. It is neither full nor done and its
  parts have 2 items left, but it is passed over. The loop ends after one more store,
  with 1 item left in the ring of leaf 0 and 2 in its parts: 3 of 28 are missing.
  `avxsortmultiway` calls the merge with four parts when it has four
  or five blocks. With more parts an inner node that is not done keeps the loop
  going: `sorts` checks eight and sixteen.
* `learned_unsorted`: the relation `<<2, 2, 2, 5, 5, 5, 9>>`, in which 2 and 5 are
  repeated keys, comes out as `<<5, 5, 5, 2, 2, 2, 2, 2>>`, against "The input array is now
  sorted" (`learned_sort_for_sort_merge.h:2258` and 3263). Three things go wrong.
  The training points of a leaf are all the key 2, its slope is `2 / 0` (433), the
  prediction of 2 is not a number, and clamping sends it to the last bucket, behind 5. The
  loop in batches has no test of the end inside a batch (989): the eighth key it reads,
  20, lies behind the relation and is sorted with it. And
  `out_total_repeated_keys_hist` is the number of different repeated keys (1046), so that
  the second bucket leaves one place free for three copies of 2: they are
  written over 9 and 20 before these are read, and the cells are then moved as they
  are. `learned_sort` says what holds nevertheless: how many keys a bucket may have too
  many (`PartitionsFit`), how far the writing may run ahead (`ReadBeforeWritten`), and that
  the sort loses nothing if told the number of copies (`SortsTheRelation`).

### Noted while modelling, without a run of their own

Harness and tables:

* `KapilChainedModelHashTable`: the insertion divides the model's value by
  100000000, the lookup does not (`ModelIndex`, `ModelScale`). With them set as in the
  source, lookups miss keys.
* `KapilLinearModelHashTable`: a key may be 5000000 buckets from its home bucket,
  the lookup gives up after 50000 (`ProbeInsert`, `ProbeLookup`).
* The signature that decides whether a setup is used again leaves the success
  probability out (`template_tables.hpp:365`). The list registered has one value, so
  that no measurement is affected until it is extended as in
  `kapil_benchmark.cpp:67` (`PlanTwoProbabilities` in `MCHarness`).
* With several probabilities, a missing data set between two instances of the same
  signature leaves an empty probing set behind, and the loop of the second instance
  subtracts 0 for ever (`template_tables.hpp:392` and `434`); in the order of
  registration of today that cannot happen, which is part of `SetupMatchesCall`.
* With bias 0 (`KapilUnbiasedKicking`) the victim comes from the secondary bucket
  if the random number is 0. A file with fewer usable values than `dataset_size`
  pads the data set with the key 0. The constructors read past a list that is
  shorter than `insert_count` (`NoUndefinedRead` says: only then).

Sorting and merging:

* The AVX2 build compares 64-bit integers as `double`: it agrees with the integers'
  order for non-negative keys only, and not for bit patterns that are not numbers.
  Models and inputs keep to non-negative keys.
* `avxsort_tuples` sorts the 64 bits of a tuple, of which the payload is the upper
  half (`data_structures.h:18-21`).
* `merge.h:220-224` notes that the merges for lists of equal length may overwrite the
  tuples behind a list, and has commented out the test that would select them: the
  dispatch never does. The sort of a block calls them, on lists that are apart.
* The notes on `BLOCKSIZE` (`avxsort_core.h:2077`) give 16384; the constant is 2^21.
* The flush of the merge kernels stores a register with an aligned 32-byte store
  into a local buffer that is declared `aligned(16)` (`avxsort_core.h:725-731`): where the
  compiler puts it is not in the models, whose `Fault` is about the arrays.
* Pointers declared `restrict` overlap where a merge writes over the next chunk.
* `avxsortmultiway` with no item reads a pointer it has not set; the calls modelled
  have one item at least.
* The root's rank is rounded in the training of the learned model and truncated in the
  prediction, so that a key may be predicted by a leaf that was not trained with it.
  Together with the slopes of `learned_unsorted` this is why `SortsTheRelation` promises
  order only where the predictions are in order (`PredictsInOrder`).
* With several threads the last batch of a part reads keys of the next part, which that
  thread reads, too: they come out twice (`KeysRead`).
* The version for separate partitions takes the total of a partition both for the
  length of its list and for a count, and concatenates the threads' lists without sorting
  them: with two repeated keys in a bucket the merged list does not ascend, and neither
  does the result (`PredictsInOrder` asks for it).
* `FANOUT`, `NUM_LAYERS`, `THRESHOLD` and `BATCH_SZ` are `static const` locals of
  a template: the first call fixes them. `validate_params` may reset one parameter to
  a default that does not fit the others. A sample longer than asked for loses its
  largest keys.

## 5. The proofs

All theorems hold for every value of the constants that the named assumptions of
the modules allow. Some have premises; each is a fact about the constants that the
source meets for some of its tables or configurations and not for others, and
the MC modules of the tables and of the harness assume theirs (`PremisesHold`), so
that TLC shows that the instances meet them.

### The join: `NPJProofs`

For every number of threads, tuples, buckets, and bucket and buffer size:

* `TypeCorrect`, `LatchCorrect`, `AllocationCorrect`: no bucket counts more than
  `BUCKET_SIZE` tuples, a latch is 1 exactly while one thread is between `lock`
  and `unlock` of its bucket, no thread inserts through an unset pointer. They
  rest on the inductive `TypeOK /\ PhaseInv /\ LatchExclusion`. `TypeOK` alone is
  not inductive: the index of a thread is bounded only because the thread is in
  its slice (`IndexInSlice`). `InStep` says that all threads are between the same
  two barriers, `TableSet` that the pointer is set behind the first of them.
* `ChainsCorrect`, `BuildCorrect`: `ChainsFillFromTheFront` and `EveryTupleOnce`.
  They need `BuildInv` (theorem `BuildInductive`), in which one interference
  after the other is excluded: a linked bucket is one its owner has handed out, so
  that the next bucket from a buffer is in no chain, not in that of another thread
  either (`Linkage`); what a thread has read under the latch is still so when it
  uses it (`ReadsAreFresh`); and below the counts all slots are
  written but those reserved and not yet stored to (`SlotsFilled`), so that a thread
  never writes over a tuple of another.
* `ResultCorrect`, `RefinementCorrect`: `JoinResult` and `ImplementsHashJoin`, if
  `SINGLE_TUPLE_PER_BUCKET` is off. The premise is what `npj_single_tuple` shows to
  be necessary. `JoinInv` (`JoinInductive`) adds that each thread has counted the
  join pairs of what it has read of its slice (`CountInv`) and that the counts add
  up because the slices are disjoint (`SumInv`). Every step maps to a step of
  `HashJoin` or to a stutter: `Store` to a stored tuple, `ProbeTuple` to a
  counted one, the barrier behind the last repetition to its result.

The slices are arithmetic: `ShareFits` and `SliceBounds` prove that every
thread's slice lies in the relation, whatever the remainder. Sums over threads
are sizes of disjoint unions, so that no sum has to be defined by recursion.

### The tables: `BulkLoadProofs`, `LinearProofs`, `CuckooProofs`, `ChainedProofs`

For every hash function (or learned model), list, bucket size and
over-allocation. What the tables share is that the loops insert each element of
the list once, in order: the index stays in the list and the first loop stops
where the second one starts (`LoopInv`), and no element is inserted a second
time (`CurrentIsNew`, from lists without duplicates).

Two premises occur. `Directories` says that no directory is empty: `NumBuckets` is 0
for a short list and a percentage of over-allocation, where the code divides by
zero and the model stops at `Crash`. The other one says that a lookup goes where an
insertion went: `ProbeInsert <= ProbeLookup` for linear tables (given up by
`KapilLinearModelHashTable`), `~ModelIndex` for chained tables (the case of all but
`KapilChainedModelHashTable`).

* Linear, `TypeOK /\ TableInv` is inductive: `TypeCorrect`, `TableCorrect`,
  `MembershipCorrect` (`operator[]` finds exactly the inserted keys),
  `RefinementCorrect`, and `RefusalCorrect` (`ThrowsOnlyWhenFull`). An insertion keeps
  the paths of the other keys because it writes a free slot only
  (`InsertInv`); the slot is free, and does not hold the key already, because
  nothing but inserted keys is in the table (`OnlyInserted`). `RefusalCorrect`
  has no premise on the sizes: it speaks of the buckets within the limit
  (`WithinLimit`), which are the whole directory only if that is short. It
  rests on two lemmas about the probing: every bucket is reached in as many steps as it
  is from the home bucket, over the end of the directory (`ProbeReachesAll`), and so
  without a bucket with room all the buckets within the limit are full
  (`ThrowLeavesNoFreeSlot`).
* Cuckoo: `CuckooCorrect`, `RefusalCorrect`, `RefinementCorrect` from `KickInv`
  (`KickInductive`). The properties are not inductive: they speak of sets of stored
  keys, while a kick is an exchange of the key in a slot and the key in hand. The
  invariant says that no key is in two slots (`KeysApart`), that a kick finds both
  buckets of its key full, and full they stay (`Crowded`; the two are different
  buckets even for keys with one hash value twice, by the neighbour rule of
  `Secondary`), that keys are handed in one at a time (`GivenInv`), and which key a
  failed insertion may lose (`FailInv`). `RefusalCorrect` needs the count of
  slots in two different full buckets (`FullHomesCrowd`).
* Chained: `ChainsCorrect`, `ReadsCorrect`, `RefinementCorrect` from `ListInv`
  (`ListsInductive`). That the early return of the exotic lookup misses nothing
  follows from `ListsFillFromTheFront`; an insertion into one list keeps the others
  because the tape hands out buckets in order, and all buckets in use come before
  the next one (`TapeAhead`), over the ends of segments, too.

### The monotone table: `MonotoneProofs`

For every list of keys in ascending order, every bucket size, and every model that
is monotone on the keys and stays in the directory (`MonotoneAssumption`; the table
is only benchmarked with such models).

* `WalkInductive`: `MonotoneInv` is kept by every insertion and by every step of the
  iterator. `FilledInOrder` says that a chain has no gaps, `HoldsInserted` that the
  places in use hold the keys inserted so far, each in the directory bucket the model
  sends it to, `WalkAscends` that the walk over directory, chain and slots meets them
  in ascending order, and `IteratorInv` that an iterator is on a key or at the head of
  a bucket. `WalkAscends` needs the other two: the first free place of a chain lies behind
  the places in use of its own directory bucket, and no later bucket is in use,
  because the model is monotone and all keys inserted are smaller.
* `RefinementCorrect`: `ImplementsOrderedTable`. A place is mapped to its rank, the
  number of places the walk has passed there. The ranks of the places in use are the
  positions in the list (`FirstPlaces`), which is counting, not induction: places and
  positions are in bijection, and the order is the same. What `key()` reads is then
  the element of that rank or, at the head of an empty directory bucket, Sentinel
  (`ReadFollows`); a step onto such a bucket passes an element, one that leaves it passes
  none.

### Harness and cache: `HarnessProofs`

* `DatasetsCorrect`: `DatasetsAreStable`, for every plan of instances.
* `SetupCorrect`: `SetupMatchesCall`, for every plan that meets two premises, which are
  what the code relies on without saying so. `OneProbability`: instances
  with one signature have one probability of success, which the signature
  leaves out. `GeneratedBetween`: when an instance with another signature comes
  between two with the same one, there is also one whose data set is generated;
  otherwise a file that is missing may leave an empty probing set under a
  signature that still matches. The plans of today meet both.

The invariant is `HarnessInv` (`HarnessInductive`). What has to be remembered is which
instance made the globals: `LeftBy(m)` says that they are what instance `m` of the plan
has left, and that every instance since then with a setup had another signature and no
data set. Only the probing set may be gone. A call that finds its own signature then
finds a probing set, because an instance with a generated data set in between would
have changed the signature.

### The learned sort: `LearnedProofs`

For every relation, every number of lanes, registers, threads, buckets and keys per
bucket, and every model of the keys: nothing is assumed of what the training returns,
because the clamping keeps each prediction in its range (`PredictedRange`).

The invariant is `SortInv` (`SortInductive`), a conjunction by component:

* `JobInv`: the parameters after `validate_params` and the phase.
* `PartsInv`: a thread's histogram counts its own keys, and its partition was made
  after that, with lists of repeated keys and of counts that have one length.
* `SourceInv`: what is distributed are sequences of the relation's keys.
* `RegistersInv`: the stage of a register says what its lanes hold (leaves before
  stage 2, buckets in it, nothing in stages 1 and 3), the residue is packed and not
  full, and `done` is the number of registers in stage 3. None of this is inductive
  alone: that the residue stays packed rests on what `Expand` takes from its
  front, that is on the number of its keys (`AppendFacts`, `RefillFacts`), and that a lane
  scatters to the bucket of its key on the stage.
* `BucketsInv`: the minor buckets hold keys that are at home there, within the threshold.
* `MergeInv`: read and write index of the last merge differ by exactly the total it was
  told of less the copies of repeated keys that are written already. `ReadBeforeWritten`
  alone is not inductive, because a repeated key moves the write index by its count.

What is proved from it:

* `ResidueStaysPacked`: `ResidueIsPacked`, without premise.
* `PartitionsFitHistogram`: `PartitionsFit`, without premise: a bucket of a partition
  exceeds its histogram by no more than the keys of that bucket which the last batch reads
  beyond the part. What is read is the part followed by those keys (`BatchesRead`), and
  a selection from two sequences is two selections (`IntoConcat`).
* `MergeReadsFirst`: `ReadBeforeWritten` for `sort_avx`, whatever total it is told: the
  merge runs ahead by no more than the copies it was not told of, and so by none if it was
  told the number of copies. For the sort of separate partitions this is only
  model-checked.
* `DistributionImplements`: `ImplementsBoundedBuckets`. A step of the distribution that
  places keys is a `Move`, and one that only moves keys between registers and residue,
  or passes to the next partition, a stutter. The argument is counting, key by key: the
  copies of a key that wait, unread (`UnreadChange`) or in a lane (`FlightChange`,
  `FlightChangeTwo`), fall by as many as are placed (`WaitingStep`); as many arrive in the
  home bucket and in the spill (`PlacedFacts`, `ItemSplit`); and a spilled copy found
  its bucket full (`FittingFacts`). When the loops end, all registers are empty and all
  partitions are read (`DistributedFacts`), so that the next distribution begins with
  nothing waiting: no key was left behind in a register.

`Pick`, which compresses lanes and selects the keys of a bucket, is defined by ranks;
`PickFacts` shows that it returns each selected element once and in order. The sizes of
the sets of lanes and places come from the library's theorems on finite sets.

### Only model-checked

* Liveness (`Termination`, `Terminates`, `IterationEnds`, `EveryCallReturns`,
  `SortEnds`), which the proof system does not reach.
* The merge kernels, the vector sort and the multiway merges (`SortKernels`, `AvxSort`,
  `MultiwaySort`), which are recursive over lists (`RECURSIVE` operators): what they
  compute for lists of every length is an induction over data.
* `SortsTheRelation`: the sorts of the minor buckets are a fold over sequences, and
  what they return is an induction over data, too. The distribution before them is
  proved.
* `ReadBeforeWritten` for the sort of separate partitions, whose lists are concatenated
  by a fold.
* That the training is monotone on a given sample (`PredictsInOrder`), which is false in
  general (section 4).
* The auxiliary invariants of the proofs (`PhaseInv`, `BuildInv`, `JoinInv`, `KickInv`,
  `ListInv`, `MonotoneInv`, `HarnessInv`, `SortInv`) have no run of their own: they are
  proved.

## 6. What is not modelled

* NPJ: the function-registration phase that tries several configurations
  (one is registered), timers, performance counters, prefetching, logging,
  the path that frees the table (never taken), morsel-driven queues.
* Tables: payloads but for those of the ordered tables, statistics that only
  read, `clear()` of the cuckoo table (never called), `hash_range_query`.
* Harness: the contents of the label and the counters; the formats of the data
  set files; the subtraction of the OSM offset in `double`. `load()` is all
  values of the file in any order, or nothing.
* Sorting: prefetches (but for the learned sort's option that orders its stages),
  the checking helpers of the merges that no build calls, negative keys, floating
  point rounding in the learned model.
* `learned_sort.h` and `learned_sort_avx.h`: earlier versions of the learned sort on
  one array, which no program of the repository calls. `LearnedSort` has the same
  model, distribution and vector loop.
* Index joins: `main` builds the index alone and the threads only read it; the
  trees are third-party code.
* Passive statistics and range benchmarks: the harness functions again, with
  loops that only read.
* Task queues: every operation is under one lock and nothing puts a task into them.
* Fallback barrier: compiled only where `pthread_barrier_wait` is missing; its
  missing loop around the wait is in the list of hazards.
* Join support (file input, data generation, placement of threads), scripts,
  post-processing, containers: no state shared with the parts above.

## 7. Plan

In order of importance; each entry keeps the specification, its properties and
its proofs apart as above.

1. `RadixTree`: the adaptive radix tree of `art32_tree.h` and `art64_tree.h`
   (nodes that grow and shrink, compressed paths), against a set of keys; the
   search in `CC_CSSTree.h` as an operator, against a linear search.
2. `FallbackBarrier` with spurious wakeups, as a refinement of the joint step
   `ReleaseBarrier`; `TaskQueue` under its lock.
3. `BenchmarkScript`: the slices of `benchmark.sh`, their parallel processes and
   the merging of their results; `setup_datasets.sh`.
4. Range queries: `hash_range_query` over a chained table, compared with the
   iteration of `MMPHFTable`, and the functions of `template_tables_range.hpp`.
