---------------------------- MODULE NPJProperties ---------------------------
(***************************************************************************)
(* What the threads of NPJHashTable must keep true of the shared table,    *)
(* and the refinement of the sequential promise HashJoin.                  *)
(***************************************************************************)
EXTENDS NPJHashTable

\* Control states of a thread that holds the latch of Curr(t).
Critical == {"locked", "place", "store", "unlock"}
InCritical(t) == pc[t] \in Critical

\* Control states of a thread that reads the table without a latch.
Probing == {"probeStart", "probe", "probeEnd", "done"}

ControlStates ==
  Barriers \union Critical \union {"allocate", "take", "build", "probe", "done"}

\* Positions of R in the table, and the places that hold them.
PlacesOf(p) == {d \in BucketIds \X Slot : slots[d] = p}
StoredPos == {p \in RPos : PlacesOf(p) # {}}

\* The thread whose slice holds p, and whether it has written p.
InSlice(n, t, p) == First(n, t) <= p /\ p < First(n, t) + SliceLen(n, t)
HasWritten(t, p) ==
  \/ pc[t] \in {"built", "buildDone"} \union Probing
  \/ pc[t] \in {"build"} \union Critical /\ p < CurrTuple(t)
  \/ pc[t] = "unlock" /\ p = CurrTuple(t)

-----------------------------------------------------------------------------
\* Every variable keeps the type of its declaration in the source; in
\* particular a bucket never counts more than BUCKET_SIZE tuples and chains
\* only hold buckets of the overflow buffers.
TypeOK ==
  /\ relR \in [RPos -> Key]
  /\ relS \in [SPos -> Key]
  /\ pc \in [Thread -> ControlStates]
  /\ ht \in {"null", "table"}
  /\ myHt \in [Thread -> {"null", "table"}]
  /\ i \in [Thread -> Nat]
  /\ latch \in [Heads -> {0, 1}]
  /\ count \in [BucketIds -> 0 .. BUCKET_SIZE]
  /\ slots \in [BucketIds \X Slot -> RPos \union {NONE}]
  /\ chain \in [Heads -> Seq(OverflowIds)]
  /\ nxt \in [Thread -> Seq(OverflowIds)]
  /\ dest \in [Thread -> BucketIds \X Slot]
  /\ bufs \in [Thread -> Nat]
  /\ bufCount \in [Thread -> 0 .. OVERFLOW_BUF_SIZE]
  /\ run \in [Thread -> 0 .. RUN_NUMS]
  /\ matches \in [Thread -> Nat]
  /\ num_results \in [Thread -> Nat]

\* The latch of a head bucket is taken exactly while one thread is between
\* lock and unlock of that bucket, and never by two threads (lock.h).
LatchExclusion ==
  /\ \A t, u \in Thread :
       t # u /\ InCritical(t) /\ InCritical(u) => Curr(t) # Curr(u)
  /\ \A h \in Heads :
       latch[h] = 1 <=> \E t \in Thread : InCritical(t) /\ Curr(t) = h

\* The build neither loses nor duplicates a tuple, whatever the
\* interleaving: a tuple is at one place, in the chain of its own hash
\* bucket and below that bucket's count, once its thread has written it,
\* and nowhere before.
EveryTupleOnce ==
  \A t \in Thread : \A p \in RPos :
    InSlice(NumR, t, p) =>
      IF HasWritten(t, p)
      THEN \E d \in Walk(HASH(relR[p])) \X Slot :
             PlacesOf(p) = {d} /\ d[2] < count[d[1]]
      ELSE PlacesOf(p) = {}

\* The insertion looks no further than the first overflow bucket, which is
\* only right while every bucket behind it is full and the head is full as
\* soon as there is an overflow bucket; no bucket is linked in twice.
ChainsFillFromTheFront ==
  \A h \in Heads :
    /\ chain[h] # <<>> => count[HeadBucket(h)] = BUCKET_SIZE
    /\ \A n \in DOMAIN chain[h] : count[chain[h][n]] > 0
    /\ \A n \in DOMAIN chain[h] \ {1} : count[chain[h][n]] = BUCKET_SIZE
    /\ \A g \in Heads : \A m \in DOMAIN chain[h], n \in DOMAIN chain[g] :
         chain[h][m] = chain[g][n] => h = g /\ m = n

\* No thread inserts through a table pointer it read before thread 0 set it.
BuildsIntoAllocatedTable ==
  \A t \in Thread : pc[t] \in {"taken", "build"} \union Critical =>
    ht = "table" /\ myHt[t] = "table"

-----------------------------------------------------------------------------
(* The printed join result.                                                *)

JoinPairs == {q \in RPos \X SPos : relR[q[1]] = relS[q[2]]}

\* The sum of the threads' counters, as the size of a disjoint union.
Total(counter) == Cardinality(UNION {{t} \X (1 .. counter[t]) : t \in Thread})

\* "join results: %ld" is the number of pairs with equal keys, although the
\* probe was repeated RUN_NUMS times.
JoinResult ==
  (\A t \in Thread : pc[t] = "done") => Total(num_results) = Cardinality(JoinPairs)

\* Every thread terminates: no thread waits forever for a latch or at a
\* barrier.
Termination == <>(\A t \in Thread : pc[t] = "done")

\* The first n positions of the thread's slice of S.
Stretch(t, n) == First(NumS, t) .. First(NumS, t) + n - 1

\* The slice positions a thread has counted in the current repetition.
Counted(t) ==
  IF pc[t] \in {"probe", "probeEnd"}
  THEN Stretch(t, i[t]) ELSE {}

\* What it has counted of them.
CountedBy(t) == IF pc[t] \in {"probe", "probeEnd"} THEN matches[t] ELSE 0

Promise == INSTANCE HashJoin WITH
  stored  <- StoredPos,
  probed  <- UNION {Counted(t) : t \in Thread},
  matches <- Total([t \in Thread |-> CountedBy(t)]),
  run     <- run[0],
  result  <- IF run[0] = 0 THEN -1 ELSE Total(num_results)

\* The threads implement the sequential join: every step inserts one tuple,
\* counts one tuple of S, ends a repetition, or changes nothing of these.
ImplementsHashJoin == Promise!Spec

-----------------------------------------------------------------------------
(* The strengthening that makes the type, latch and phase invariants       *)
(* inductive.                                                              *)

\* The stretch of code between two barriers in which a thread is; a stretch
\* includes the wait at its end.
Phase(t) ==
  CASE pc[t] \in {"allocate", "allocated"} -> 1
    [] pc[t] \in {"take", "taken"} -> 2
    [] pc[t] \in {"build", "built"} \union Critical -> 3
    [] pc[t] = "buildDone" -> 4
    [] pc[t] = "probeStart" -> 5
    [] pc[t] \in {"probe", "probeEnd"} -> 6
    [] pc[t] = "done" -> 7

\* The threads are always in the same phase and the same repetition.
InStep ==
  \A t, u \in Thread : Phase(t) = Phase(u) /\ run[t] = run[u]

\* The table pointer is set before it is read, and read before it is used.
TableSet ==
  /\ pc[0] # "allocate" => ht = "table"
  /\ \A t \in Thread :
       pc[t] \notin {"allocate", "allocated", "take"} => myHt[t] = "table"

\* The index stays in the slice; a thread takes at most one overflow buffer
\* per tuple, so the buffers it can name suffice.
IndexOK(t) ==
  /\ pc[t] \in {"allocated", "take", "taken"} => bufs[t] = 1
  /\ pc[t] = "build" => i[t] <= SliceLen(NumR, t)
  /\ pc[t] \in Critical => i[t] < SliceLen(NumR, t)
  /\ pc[t] \in {"build", "locked", "place"} => 1 <= bufs[t] /\ bufs[t] <= i[t] + 1
  /\ pc[t] \in {"store", "unlock"} => 1 <= bufs[t] /\ bufs[t] <= i[t] + 2
  /\ pc[t] = "probe" => i[t] <= SliceLen(NumS, t)
  /\ pc[t] \in {"probeStart", "probe", "probeEnd"} => run[t] < RUN_NUMS
  /\ pc[t] \notin Probing => run[t] = 0

IndexInSlice == \A t \in Thread : IndexOK(t)

PhaseInv == InStep /\ TableSet /\ IndexInSlice

-----------------------------------------------------------------------------
(* The strengthening that makes ChainsFillFromTheFront and EveryTupleOnce  *)
(* inductive.                                                              *)

\* A linked bucket is one its owner has handed out, so that the bucket the
\* owner hands out next is in no chain; and it is linked before it counts.
HandedOut(b) ==
  b[2] <= bufs[b[1]] /\ (b[2] = bufs[b[1]] => b[3] < bufCount[b[1]])
Linkage ==
  /\ \A t \in Thread : pc[t] = "allocate" => bufs[t] = 0
  /\ \A h \in Heads : \A n \in DOMAIN chain[h] : HandedOut(chain[h][n])
  /\ \A b \in OverflowIds :
       count[b] > 0 => \E h \in Heads : \E n \in DOMAIN chain[h] : chain[h][n] = b

\* The list a thread has read under the latch is still behind its head, and
\* the place it has reserved there is below the count of the bucket.
ReadsAreFresh ==
  \A t \in Thread :
    /\ pc[t] = "place" => nxt[t] = chain[Curr(t)]
    /\ pc[t] = "store" => dest[t][1] \in Walk(Curr(t)) /\ dest[t][2] < count[dest[t][1]]

\* Exactly the slots below the counts are written, but for reserved ones.
SlotsFilled ==
  \A d \in BucketIds \X Slot :
    slots[d] # NONE <=>
      d[2] < count[d[1]] /\ \A t \in Thread : pc[t] = "store" => dest[t] # d

BuildInv == ChainsFillFromTheFront /\ Linkage /\ ReadsAreFresh /\ SlotsFilled /\ EveryTupleOnce

-----------------------------------------------------------------------------
(* The strengthening that makes the join result inductive.                 *)

\* The pairs of the join with these positions of S.
PairsIn(X) == {q \in JoinPairs : q[2] \in X}

\* A thread counts the pairs of its slice as it goes, and reports the same
\* number in every repetition.
CountInv ==
  \A t \in Thread :
    /\ pc[t] = "probe" => matches[t] = Cardinality(PairsIn(Stretch(t, i[t])))
    /\ pc[t] = "probeEnd" => i[t] = SliceLen(NumS, t) /\ matches[t] = num_results[t]
    /\ pc[t] = "probeEnd" \/ run[t] > 0 =>
         num_results[t] = Cardinality(PairsIn(Stretch(t, SliceLen(NumS, t))))
    /\ pc[t] = "done" => run[t] > 0

\* What all the threads have counted is what lies in their slices.
SumInv ==
  /\ Total([t \in Thread |-> CountedBy(t)])
       = Cardinality(PairsIn(UNION {Counted(t) : t \in Thread}))
  /\ run[0] > 0 => Total(num_results) = Cardinality(JoinPairs)

JoinInv == CountInv /\ SumInv
=============================================================================
