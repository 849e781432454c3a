---------------------------- MODULE NPJHashTable ----------------------------
(***************************************************************************)
(* The non-partitioned hash join of npj_join_runner.cpp, compiled with     *)
(* INLJ_WITH_HASH_INDEX and without HASH_SCHEME_AND_FUNCTION_MODE.         *)
(*                                                                         *)
(* NumThreads pthreads share one bucket-chaining table.  Thread 0          *)
(* allocates it; each thread inserts its slice of R under the latch of the *)
(* head bucket, taking overflow buckets from a buffer of its own; barriers *)
(* separate allocation, build and the RUN_NUMS repetitions of the probe,   *)
(* in which each thread counts the matches of its slice of S.              *)
(*                                                                         *)
(* Abstractions.  A tuple is its position in the relation; relR and relS   *)
(* give its key.  The linked list behind a head bucket is the sequence     *)
(* chain[h] of overflow buckets, in the order of the next pointers (a new  *)
(* bucket is linked in at the front).  HASH stands for either hash of the  *)
(* source, (key & mask) >> skip or murmur and alt_mod, with values below   *)
(* num_buckets.  A failed tas is a stuttering step.  Stores of one thread  *)
(* take effect in program order.  Timers, counters and prefetches are      *)
(* left out.                                                               *)
(***************************************************************************)
EXTENDS Integers, Sequences, FiniteSets

CONSTANTS
  Key,                     \* keys, natural numbers
  NumR, NumS,              \* tuples in the relations
  NumThreads,              \* NUM_THREADS
  num_buckets,             \* head buckets, a power of two in the source
  HASH(_),                 \* head bucket of a key
  BUCKET_SIZE,             \* tuples in a bucket
  OVERFLOW_BUF_SIZE,       \* buckets in one overflow buffer
  RUN_NUMS,                \* repetitions of the probe phase
  SINGLE_TUPLE_PER_BUCKET  \* whether that macro is defined

Thread == 0 .. NumThreads - 1
RPos   == 0 .. NumR - 1
SPos   == 0 .. NumS - 1
Heads  == 0 .. num_buckets - 1
Slot   == 0 .. BUCKET_SIZE - 1

ASSUME ConstantsAssumption ==
  /\ Key \subseteq Nat
  /\ NumR \in Nat /\ NumS \in Nat
  /\ NumThreads \in Nat \ {0}
  /\ num_buckets \in Nat \ {0}
  /\ BUCKET_SIZE \in Nat \ {0}
  /\ OVERFLOW_BUF_SIZE \in Nat \ {0}
  /\ RUN_NUMS \in Nat \ {0}
  /\ SINGLE_TUPLE_PER_BUCKET \in BOOLEAN

ASSUME HashAssumption == \A k \in Key : HASH(k) \in Heads

VARIABLES
  relR, relS,  \* the input relations, position -> key
  pc,          \* where each thread is
  ht,          \* the global pointer ht
  myHt,        \* build_data.ht of each thread
  i,           \* loop index of the thread in its slice
  latch,       \* latch of each head bucket
  count,       \* count of each bucket
  slots,       \* tuples[] of each bucket
  chain,       \* overflow buckets behind each head
  nxt,         \* the thread's local nxt: the list it read behind its head
  dest,        \* the thread's local dest: bucket and slot to write
  bufs,        \* overflow buffers the thread has allocated
  bufCount,    \* count of the thread's current buffer
  run,         \* rp of the probe loop
  matches,     \* the thread's local match counter
  num_results  \* args->num_results

input  == <<relR, relS>>
table  == <<latch, count, slots, chain>>
locals == <<nxt, dest, bufs, bufCount>>
probe  == <<run, matches, num_results>>
vars   == <<input, pc, ht, myHt, i, table, locals, probe>>

-----------------------------------------------------------------------------
(* Slices of the relations and identities of buckets.                      *)

NONE == -1

\* A slice starts at Share * t; the last thread takes what is left.
Share(n) == n \div NumThreads
First(n, t) == Share(n) * t

SliceLen(n, t) ==
  IF t = NumThreads - 1 THEN n - Share(n) * (NumThreads - 1) ELSE Share(n)

\* A bucket is <<owner, buffer, index>>; the table itself owns the heads.
TableOwner == -1
HeadBucket(h) == <<TableOwner, 0, h>>
HeadIds == {HeadBucket(h) : h \in Heads}
OverflowIds == Thread \X (1 .. NumR + 1) \X (0 .. OVERFLOW_BUF_SIZE - 1)
BucketIds == HeadIds \union OverflowIds

\* The tuple the thread is inserting, and the head bucket of its key.
CurrTuple(t) == First(NumR, t) + i[t]
Curr(t) == HASH(relR[CurrTuple(t)])

\* get_new_bucket: the next bucket of the buffer, or the first of a new one.
BufferFull(t) == bufCount[t] >= OVERFLOW_BUF_SIZE
NewBucket(t) ==
  IF BufferFull(t) THEN <<t, bufs[t] + 1, 0>> ELSE <<t, bufs[t], bufCount[t]>>
GetNewBucket(t) ==
  IF BufferFull(t)
  THEN /\ bufs' = [bufs EXCEPT ![t] = @ + 1]
       /\ bufCount' = [bufCount EXCEPT ![t] = 1]
  ELSE /\ bufCount' = [bufCount EXCEPT ![t] = @ + 1]
       /\ UNCHANGED bufs

Goto(t, from, to) ==
  /\ pc[t] = from
  /\ pc' = [pc EXCEPT ![t] = to]

Init ==
  /\ relR \in [RPos -> Key]
  /\ relS \in [SPos -> Key]
  /\ pc = [t \in Thread |-> "allocate"]
  /\ ht = "null"
  /\ myHt = [t \in Thread |-> "null"]
  /\ i = [t \in Thread |-> 0]
  /\ latch = [h \in Heads |-> 0]
  /\ count = [b \in BucketIds |-> 0]
  /\ slots = [d \in BucketIds \X Slot |-> NONE]
  /\ chain = [h \in Heads |-> <<>>]
  /\ nxt = [t \in Thread |-> <<>>]
  /\ dest = [t \in Thread |-> <<HeadBucket(0), 0>>]
  /\ bufs = [t \in Thread |-> 0]
  /\ bufCount = [t \in Thread |-> 0]
  /\ run = [t \in Thread |-> 0]
  /\ matches = [t \in Thread |-> 0]
  /\ num_results = [t \in Thread |-> 0]

-----------------------------------------------------------------------------
(* Barriers: a thread that waits has one of these control states, and all  *)
(* threads leave together.                                                 *)

Barriers == {"allocated", "taken", "built", "buildDone", "probeStart", "probeEnd"}

AfterBarrier(t) ==
  CASE pc[t] = "allocated"  -> "take"
    [] pc[t] = "taken"      -> "build"
    [] pc[t] = "built"      -> "buildDone"
    [] pc[t] = "buildDone"  -> "probeStart"
    [] pc[t] = "probeStart" -> "probe"
    [] pc[t] = "probeEnd"   -> IF run[t] + 1 < RUN_NUMS THEN "probeStart" ELSE "done"
    [] OTHER                -> pc[t]

\* (Mutant of AllArrived: the barrier counts one thread too few.)
Mutant_OneMissing == \E late \in Thread : \A t \in Thread \ {late} : pc[t] \in Barriers

\* pthread_barrier_wait returns when all NumThreads threads have called it.
AllArrived == \A t \in Thread : pc[t] \in Barriers

ReleaseBarrier ==
  /\ AllArrived
  /\ pc' = [t \in Thread |-> AfterBarrier(t)]
  /\ run' = [t \in Thread |-> IF pc[t] = "probeEnd" THEN run[t] + 1 ELSE run[t]]
  /\ i' = [t \in Thread |-> IF pc[t] \in {"taken", "probeStart"} THEN 0 ELSE i[t]]
  /\ matches' = [t \in Thread |-> IF pc[t] = "probeStart" THEN 0 ELSE matches[t]]
  /\ UNCHANGED <<input, ht, myHt, table, locals, num_results>>

-----------------------------------------------------------------------------
(* Allocation.                                                             *)

\* Every thread makes its overflow buffer; thread 0 also makes the table.
Allocate(t) ==
  /\ Goto(t, "allocate", "allocated")
  /\ bufs' = [bufs EXCEPT ![t] = 1]
  /\ bufCount' = [bufCount EXCEPT ![t] = 0]
  /\ ht' = IF t = 0 THEN "table" ELSE ht
  /\ UNCHANGED <<input, myHt, i, table, nxt, dest, probe>>

\* The thread copies the global pointer, whatever it holds.
TakeTable(t) ==
  /\ Goto(t, "take", "taken")
  /\ myHt' = [myHt EXCEPT ![t] = ht]
  /\ UNCHANGED <<input, ht, i, table, locals, probe>>

-----------------------------------------------------------------------------
(* Build: one tuple is inserted by Lock, ReadNext, one Place, Store and    *)
(* Unlock.                                                                 *)

\* (Mutant of Lock: the old value of the latch is ignored.)
Mutant_LockUntested(t) ==
  /\ i[t] < SliceLen(NumR, t)
  /\ latch' = [latch EXCEPT ![Curr(t)] = 1]
  /\ Goto(t, "build", "locked")
  /\ UNCHANGED <<input, ht, myHt, i, count, slots, chain, locals, probe>>

Lock(t) ==
  /\ i[t] < SliceLen(NumR, t)
  /\ latch[Curr(t)] = 0
  /\ latch' = [latch EXCEPT ![Curr(t)] = 1]
  /\ Goto(t, "build", "locked")
  /\ UNCHANGED <<input, ht, myHt, i, count, slots, chain, locals, probe>>

ReadNext(t) ==
  /\ Goto(t, "locked", "place")
  /\ nxt' = [nxt EXCEPT ![t] = chain[Curr(t)]]
  /\ UNCHANGED <<input, ht, myHt, i, table, dest, bufs, bufCount, probe>>

\* Append to bucket b: the slot is reserved by raising count.
Reserve(t, b) ==
  /\ dest' = [dest EXCEPT ![t] = <<b, count[b]>>]
  /\ count' = [count EXCEPT ![b] = @ + 1]

HeadIsFull(t) == count[HeadBucket(Curr(t))] = BUCKET_SIZE
\* (Mutant of RoomInNext: a full overflow bucket is taken for one with room.)
Mutant_RoomUnchecked(t) == nxt[t] # <<>>

RoomInNext(t) == nxt[t] # <<>> /\ count[nxt[t][1]] # BUCKET_SIZE

PlaceInHead(t) ==
  /\ Goto(t, "place", "store")
  /\ ~HeadIsFull(t)
  /\ Reserve(t, HeadBucket(Curr(t)))
  /\ UNCHANGED <<input, ht, myHt, i, latch, slots, chain, nxt, bufs, bufCount, probe>>

PlaceInNext(t) ==
  /\ Goto(t, "place", "store")
  /\ HeadIsFull(t)
  /\ RoomInNext(t)
  /\ Reserve(t, nxt[t][1])
  /\ UNCHANGED <<input, ht, myHt, i, latch, slots, chain, nxt, bufs, bufCount, probe>>

\* (Mutants of Linked: b->next is not set, and the new bucket goes last.)
Mutant_NextDropped(t, b) == <<b>>
Mutant_LinkedLast(t, b) == Append(nxt[t], b)

\* curr->next = b; b->next = nxt
Linked(t, b) == <<b>> \o nxt[t]

PlaceInNew(t) ==
  LET b == NewBucket(t) IN
  /\ Goto(t, "place", "store")
  /\ HeadIsFull(t)
  /\ ~RoomInNext(t)
  /\ GetNewBucket(t)
  /\ chain' = [chain EXCEPT ![Curr(t)] = Linked(t, b)]
  /\ count' = [count EXCEPT ![b] = 1]
  /\ dest' = [dest EXCEPT ![t] = <<b, 0>>]
  /\ UNCHANGED <<input, ht, myHt, i, latch, slots, nxt, probe>>

Store(t) ==
  /\ Goto(t, "store", "unlock")
  /\ slots' = [slots EXCEPT ![dest[t]] = CurrTuple(t)]
  /\ UNCHANGED <<input, ht, myHt, i, latch, count, chain, locals, probe>>

\* (Mutant of Unlock: the latch stays taken.)
Mutant_LatchKept(t) ==
  /\ Goto(t, "unlock", "build")
  /\ i' = [i EXCEPT ![t] = @ + 1]
  /\ UNCHANGED <<input, ht, myHt, table, locals, probe>>

Unlock(t) ==
  /\ Goto(t, "unlock", "build")
  /\ latch' = [latch EXCEPT ![Curr(t)] = 0]
  /\ i' = [i EXCEPT ![t] = @ + 1]
  /\ UNCHANGED <<input, ht, myHt, count, slots, chain, locals, probe>>

EndBuild(t) ==
  /\ i[t] = SliceLen(NumR, t)
  /\ Goto(t, "build", "built")
  /\ UNCHANGED <<input, ht, myHt, i, table, locals, probe>>

-----------------------------------------------------------------------------
(* Probe: the walk along the chain of one tuple of S is one step, since no *)
(* thread writes the table then (HashJoin's Lookup has R stored).          *)

Walk(h) == {HeadBucket(h)} \union {chain[h][n] : n \in DOMAIN chain[h]}

\* The key a slot compares as: memset zeroes the head buckets.
KeyAt(b, k) == IF slots[<<b, k>>] = NONE THEN 0 ELSE relR[slots[<<b, k>>]]

\* (Mutant of Found: the walk stops at the first match.)
Mutant_FirstOnly(key) ==
  IF \E d \in Walk(HASH(key)) \X Slot : d[2] < count[d[1]] /\ KeyAt(d[1], d[2]) = key
  THEN 1 ELSE 0

Found(key) ==
  LET h == HASH(key) IN
  IF SINGLE_TUPLE_PER_BUCKET
  THEN Cardinality({b \in Walk(h) : KeyAt(b, 0) = key})
  ELSE Cardinality({d \in Walk(h) \X Slot : d[2] < count[d[1]] /\ KeyAt(d[1], d[2]) = key})

ProbeTuple(t) ==
  /\ pc[t] = "probe"
  /\ i[t] < SliceLen(NumS, t)
  /\ matches' = [matches EXCEPT ![t] = @ + Found(relS[First(NumS, t) + i[t]])]
  /\ i' = [i EXCEPT ![t] = @ + 1]
  /\ UNCHANGED <<input, pc, ht, myHt, table, locals, run, num_results>>

\* The counter is assigned, not accumulated, at the end of a repetition.
EndProbe(t) ==
  /\ i[t] = SliceLen(NumS, t)
  /\ Goto(t, "probe", "probeEnd")
  /\ num_results' = [num_results EXCEPT ![t] = matches[t]]
  /\ UNCHANGED <<input, ht, myHt, i, table, locals, run, matches>>

-----------------------------------------------------------------------------
Insert(t) ==
  \/ Lock(t) \/ ReadNext(t)
  \/ PlaceInHead(t) \/ PlaceInNext(t) \/ PlaceInNew(t)
  \/ Store(t) \/ Unlock(t)

ThreadStep(t) ==
  \/ Allocate(t) \/ TakeTable(t)
  \/ Insert(t) \/ EndBuild(t)
  \/ ProbeTuple(t) \/ EndProbe(t)

\* pthread_join: main sees every thread finished and the program ends.
Terminated == (\A t \in Thread : pc[t] = "done") /\ UNCHANGED vars

Next == ReleaseBarrier \/ (\E t \in Thread : ThreadStep(t)) \/ Terminated

Spec == Init /\ [][Next]_vars

\* The scheduler runs every thread that can move; a thread spinning on a
\* latch is only promised a turn while the latch stays free.
FairSpec == Spec /\ WF_vars(ReleaseBarrier) /\ \A t \in Thread : WF_vars(ThreadStep(t))
=============================================================================
