------------------------------ MODULE NPJProofs -----------------------------
(***************************************************************************)
(* Proofs about NPJHashTable for every number of threads, buckets and      *)
(* tuples.  First the build: the latches, the barriers, the chains.  Then  *)
(* the result of the join: a walk along a chain finds every matching       *)
(* tuple, the threads' counters add up to the size of the join, and the    *)
(* threads implement HashJoin.                                             *)
(***************************************************************************)
EXTENDS NPJProperties, FiniteSetTheorems, FunctionTheorems, SequenceTheorems, TLAPS

-----------------------------------------------------------------------------
(* The slices of a relation.                                               *)

\* The share of a thread, times the threads that have one, fits.
LEMMA ShareFits ==
  ASSUME NEW n \in Nat, NEW t \in 0 .. NumThreads
  PROVE  /\ Share(n) \in Nat
         /\ Share(n) * t \in Nat
         /\ Share(n) * t <= n
<1>1. NumThreads \in Nat /\ NumThreads > 0
  BY ConstantsAssumption
<1>2. Share(n) \in Nat /\ Share(n) * NumThreads <= n
  BY <1>1, Z3 DEF Share
<1>3. Share(n) * t <= Share(n) * NumThreads
  BY <1>1, <1>2, Z3
<1>4. Share(n) * t \in Nat
  BY <1>2, Z3
<1> QED  BY <1>1, <1>2, <1>3, <1>4

\* initialize_inlj_join_thread_args: a slice lies inside the relation.
LEMMA SliceBounds ==
  ASSUME NEW n \in Nat, NEW t \in Thread
  PROVE  /\ First(n, t) \in Nat
         /\ SliceLen(n, t) \in Nat
         /\ First(n, t) + SliceLen(n, t) <= n
<1>1. t \in 0 .. NumThreads /\ t + 1 \in 0 .. NumThreads /\ NumThreads - 1 \in 0 .. NumThreads
  BY ConstantsAssumption DEF Thread
<1>2. /\ Share(n) \in Nat
      /\ Share(n) * t \in Nat /\ Share(n) * t <= n
      /\ Share(n) * (t + 1) <= n
      /\ Share(n) * (NumThreads - 1) \in Nat /\ Share(n) * (NumThreads - 1) <= n
  BY <1>1, ShareFits
<1>3. Share(n) * (t + 1) = Share(n) * t + Share(n)
  BY <1>1, <1>2, Z3
<1> QED
  BY <1>1, <1>2, <1>3 DEF First, SliceLen

\* A thread's tuples are positions of R, and Curr is a head bucket.
LEMMA CurrInTable ==
  ASSUME TypeOK, NEW t \in Thread, i[t] < SliceLen(NumR, t)
  PROVE  CurrTuple(t) \in RPos /\ Curr(t) \in Heads
<1>1. CurrTuple(t) \in RPos
  <2>1. NumR \in Nat /\ i[t] \in Nat
    BY ConstantsAssumption DEF TypeOK
  <2>2. /\ First(NumR, t) \in Nat /\ SliceLen(NumR, t) \in Nat
        /\ First(NumR, t) + SliceLen(NumR, t) <= NumR
    BY <2>1, SliceBounds
  <2> QED  BY <2>1, <2>2 DEF CurrTuple, RPos
<1>2. Curr(t) \in Heads
  BY <1>1, HashAssumption DEF TypeOK, Curr
<1> QED  BY <1>1, <1>2

\* The probe of one key counts a natural number of matches.
LEMMA FoundType ==
  ASSUME TypeOK, NEW key \in Key
  PROVE  Found(key) \in Nat
<1> DEFINE h == HASH(key)
           c == chain[h]
           rest == {c[n] : n \in DOMAIN c}
<1>1. h \in Heads
  BY HashAssumption
<1>2. c \in Seq(OverflowIds)
  BY <1>1 DEF TypeOK
<1>3. Len(c) \in Nat /\ DOMAIN c = 1 .. Len(c) /\ c \in [1 .. Len(c) -> OverflowIds]
  BY <1>2, LenProperties
<1>4. IsFiniteSet(rest)
  <2>1. IsFiniteSet(1 .. Len(c))
    BY <1>3, FS_Interval
  <2>2. c \in Surjection(1 .. Len(c), rest)
    BY <1>3 DEF Surjection
  <2> QED  BY <2>1, <2>2, FS_Surjection
<1>5. IsFiniteSet(Walk(h))
  <2>1. Walk(h) = rest \cup {HeadBucket(h)}
    BY DEF Walk
  <2> QED  BY <1>4, <2>1, FS_AddElement
<1>6. IsFiniteSet(Walk(h) \X Slot)
  <2>1. IsFiniteSet(Slot)
    BY FS_Interval, ConstantsAssumption DEF Slot
  <2> QED  BY <1>5, <2>1, FS_Product
<1>7. Cardinality({b \in Walk(h) : KeyAt(b, 0) = key}) \in Nat
  <2>1. {b \in Walk(h) : KeyAt(b, 0) = key} \in SUBSET Walk(h)
    OBVIOUS
  <2> QED  BY <1>5, <2>1, FS_Subset, FS_CardinalityType
<1>8. Cardinality({d \in Walk(h) \X Slot : d[2] < count[d[1]] /\ KeyAt(d[1], d[2]) = key}) \in Nat
  <2>1. {d \in Walk(h) \X Slot : d[2] < count[d[1]] /\ KeyAt(d[1], d[2]) = key}
          \in SUBSET (Walk(h) \X Slot)
    OBVIOUS
  <2> QED  BY <1>6, <2>1, FS_Subset, FS_CardinalityType
<1> QED  BY <1>7, <1>8 DEF Found

-----------------------------------------------------------------------------
(* TypeOK is preserved, given PhaseInv.                                    *)

LEMMA InitType == Init => TypeOK
<1> SUFFICES ASSUME Init PROVE TypeOK
  OBVIOUS
<1>1. 0 \in Heads /\ 0 \in Slot
  BY ConstantsAssumption DEF Heads, Slot
<1>2. <<HeadBucket(0), 0>> \in BucketIds \X Slot
  BY <1>1 DEF BucketIds, HeadIds
<1>3. <<>> \in Seq(OverflowIds)
  BY EmptySeq
<1>4. 0 \in 0 .. BUCKET_SIZE /\ 0 \in 0 .. OVERFLOW_BUF_SIZE /\ 0 \in 0 .. RUN_NUMS
  BY ConstantsAssumption
<1> QED
  BY <1>2, <1>3, <1>4 DEF Init, TypeOK, ControlStates, Critical, Barriers

\* The head bucket of a key, the bucket behind it and a new overflow bucket
\* are buckets the model knows.
LEMMA PlaceTypes ==
  ASSUME TypeOK, PhaseInv, NEW t \in Thread, pc[t] = "place"
  PROVE  /\ Curr(t) \in Heads
         /\ HeadBucket(Curr(t)) \in BucketIds
         /\ nxt[t] # <<>> => nxt[t][1] \in OverflowIds
         /\ NewBucket(t) \in OverflowIds
         /\ i[t] \in Nat /\ i[t] < SliceLen(NumR, t)
         /\ bufs[t] \in Nat /\ bufs[t] + 1 <= i[t] + 2
<1>1. i[t] < SliceLen(NumR, t) /\ 1 <= bufs[t] /\ bufs[t] <= i[t] + 1
  BY DEF PhaseInv, IndexInSlice, IndexOK, Critical
<1>2. Curr(t) \in Heads
  BY <1>1, CurrInTable
<1>3. HeadBucket(Curr(t)) \in BucketIds
  BY <1>2 DEF BucketIds, HeadIds
<1>4. nxt[t] # <<>> => nxt[t][1] \in OverflowIds
  <2>1. nxt[t] \in Seq(OverflowIds)
    BY DEF TypeOK
  <2> QED  BY <2>1, LenProperties, EmptySeq
<1>5. i[t] \in Nat /\ bufs[t] \in Nat /\ bufCount[t] \in 0 .. OVERFLOW_BUF_SIZE
  BY DEF TypeOK
<1>6. SliceLen(NumR, t) \in Nat /\ SliceLen(NumR, t) <= NumR
  <2>1. NumR \in Nat
    BY ConstantsAssumption
  <2> QED  BY <2>1, SliceBounds
<1>7. bufs[t] \in 1 .. NumR + 1 /\ bufs[t] + 1 \in 1 .. NumR + 1
  BY <1>1, <1>5, <1>6, ConstantsAssumption
<1>8. NewBucket(t) \in OverflowIds
  BY <1>5, <1>7, ConstantsAssumption DEF NewBucket, BufferFull, OverflowIds
<1> QED  BY <1>1, <1>2, <1>3, <1>4, <1>5, <1>7, <1>8

\* A bucket that is not full has room for one tuple more.
LEMMA RoomInSlot ==
  ASSUME TypeOK, NEW b \in BucketIds, count[b] # BUCKET_SIZE
  PROVE  count[b] \in Slot /\ count[b] + 1 \in 0 .. BUCKET_SIZE
<1>1. count[b] \in 0 .. BUCKET_SIZE
  BY DEF TypeOK
<1>2. BUCKET_SIZE \in Nat
  BY ConstantsAssumption
<1> QED  BY <1>1, <1>2 DEF Slot

LEMMA TypeStep ==
  ASSUME TypeOK, PhaseInv, [Next]_vars
  PROVE  TypeOK'
<1> USE DEF Goto, ControlStates, Critical, Barriers, input, table, locals, probe
<1>1. CASE ReleaseBarrier
  <2>1. ASSUME NEW t \in Thread
        PROVE  /\ AfterBarrier(t) \in ControlStates
               /\ pc[t] = "probeEnd" => run[t] + 1 \in 0 .. RUN_NUMS
    <3>1. pc[t] \in {"allocated", "taken", "built", "buildDone", "probeStart", "probeEnd"}
      BY <1>1 DEF ReleaseBarrier, AllArrived
    <3>2. AfterBarrier(t) \in ControlStates
      BY <3>1 DEF AfterBarrier
    <3>3. CASE pc[t] = "probeEnd"
      <4>1. run[t] < RUN_NUMS /\ run[t] \in 0 .. RUN_NUMS
        BY <3>3 DEF PhaseInv, IndexInSlice, IndexOK, Probing, TypeOK
      <4> QED  BY <3>2, <4>1, ConstantsAssumption
    <3> QED  BY <3>2, <3>3
  <2> QED
    BY <1>1, <2>1 DEF ReleaseBarrier, AllArrived, TypeOK
<1>2. ASSUME NEW t \in Thread, Allocate(t) PROVE TypeOK'
  <2>1. ht' \in {"null", "table"}
    BY <1>2 DEF Allocate, TypeOK
  <2>2. 1 \in Nat /\ 0 \in 0 .. OVERFLOW_BUF_SIZE
    BY ConstantsAssumption
  <2>3. bufs' \in [Thread -> Nat] /\ bufCount' \in [Thread -> 0 .. OVERFLOW_BUF_SIZE]
    BY <1>2, <2>2 DEF Allocate, TypeOK
  <2> QED  BY <1>2, <2>1, <2>3 DEF Allocate, TypeOK
<1>3. ASSUME NEW t \in Thread, TakeTable(t) PROVE TypeOK'
  BY <1>3 DEF TakeTable, TypeOK
<1>4. ASSUME NEW t \in Thread, Lock(t) PROVE TypeOK'
  BY <1>4 DEF Lock, TypeOK
<1>5. ASSUME NEW t \in Thread, ReadNext(t) PROVE TypeOK'
  <2>1. Curr(t) \in Heads
    BY <1>5, CurrInTable DEF ReadNext, PhaseInv, IndexInSlice, IndexOK
  <2> QED  BY <1>5, <2>1 DEF ReadNext, TypeOK
<1>6. ASSUME NEW t \in Thread, PlaceInHead(t) PROVE TypeOK'
  <2>1. HeadBucket(Curr(t)) \in BucketIds
    BY <1>6, PlaceTypes DEF PlaceInHead
  <2>2. count[HeadBucket(Curr(t))] # BUCKET_SIZE
    BY <1>6 DEF PlaceInHead, HeadIsFull
  <2>3. count[HeadBucket(Curr(t))] \in Slot /\ count[HeadBucket(Curr(t))] + 1 \in 0 .. BUCKET_SIZE
    BY <2>1, <2>2, RoomInSlot
  <2> QED
    BY <1>6, <2>1, <2>3 DEF PlaceInHead, Reserve, TypeOK
<1>7. ASSUME NEW t \in Thread, PlaceInNext(t) PROVE TypeOK'
  <2>1. nxt[t][1] \in BucketIds
    BY <1>7, PlaceTypes DEF PlaceInNext, RoomInNext, BucketIds
  <2>2. count[nxt[t][1]] # BUCKET_SIZE
    BY <1>7 DEF PlaceInNext, RoomInNext
  <2>3. count[nxt[t][1]] \in Slot /\ count[nxt[t][1]] + 1 \in 0 .. BUCKET_SIZE
    BY <2>1, <2>2, RoomInSlot
  <2> QED
    BY <1>7, <2>1, <2>3 DEF PlaceInNext, Reserve, TypeOK
<1>8. ASSUME NEW t \in Thread, PlaceInNew(t) PROVE TypeOK'
  <2>1. /\ Curr(t) \in Heads
        /\ NewBucket(t) \in OverflowIds
    BY <1>8, PlaceTypes DEF PlaceInNew
  <2>2. <<NewBucket(t)>> \o nxt[t] \in Seq(OverflowIds)
    BY <2>1, ConcatProperties DEF TypeOK
  <2>3. <<NewBucket(t), 0>> \in BucketIds \X Slot /\ 1 \in 0 .. BUCKET_SIZE
    BY <2>1, ConstantsAssumption DEF BucketIds, Slot
  <2>4. bufs' \in [Thread -> Nat] /\ bufCount' \in [Thread -> 0 .. OVERFLOW_BUF_SIZE]
    <3>1. bufs[t] + 1 \in Nat /\ 1 \in 0 .. OVERFLOW_BUF_SIZE
      BY ConstantsAssumption DEF TypeOK
    <3>2. ~BufferFull(t) => bufCount[t] + 1 \in 0 .. OVERFLOW_BUF_SIZE
      BY ConstantsAssumption DEF BufferFull, TypeOK
    <3> QED  BY <1>8, <3>1, <3>2 DEF PlaceInNew, GetNewBucket, TypeOK
  <2> QED
    BY <1>8, <2>1, <2>2, <2>3, <2>4 DEF PlaceInNew, Linked, TypeOK
<1>9. ASSUME NEW t \in Thread, Store(t) PROVE TypeOK'
  <2>1. CurrTuple(t) \in RPos
    BY <1>9, CurrInTable DEF Store, PhaseInv, IndexInSlice, IndexOK
  <2> QED  BY <1>9, <2>1 DEF Store, TypeOK
<1>10. ASSUME NEW t \in Thread, Unlock(t) PROVE TypeOK'
  <2>1. i[t] + 1 \in Nat
    BY DEF TypeOK
  <2> QED  BY <1>10, <2>1 DEF Unlock, TypeOK
<1>11. ASSUME NEW t \in Thread, EndBuild(t) PROVE TypeOK'
  BY <1>11 DEF EndBuild, TypeOK
<1>12. ASSUME NEW t \in Thread, ProbeTuple(t) PROVE TypeOK'
  <2>1. First(NumS, t) + i[t] \in SPos
    <3>1. NumS \in Nat /\ i[t] \in Nat /\ i[t] < SliceLen(NumS, t)
      BY <1>12, ConstantsAssumption DEF ProbeTuple, TypeOK
    <3> QED  BY <3>1, SliceBounds DEF SPos
  <2>2. Found(relS[First(NumS, t) + i[t]]) \in Nat
    BY <2>1, FoundType DEF TypeOK
  <2>3. i[t] + 1 \in Nat /\ matches[t] + Found(relS[First(NumS, t) + i[t]]) \in Nat
    BY <2>2 DEF TypeOK
  <2> QED  BY <1>12, <2>3 DEF ProbeTuple, TypeOK
<1>13. ASSUME NEW t \in Thread, EndProbe(t) PROVE TypeOK'
  BY <1>13 DEF EndProbe, TypeOK
<1>14. CASE UNCHANGED vars
  BY <1>14 DEF vars, TypeOK
<1> QED
  BY <1>1, <1>2, <1>3, <1>4, <1>5, <1>6, <1>7, <1>8, <1>9, <1>10, <1>11, <1>12, <1>13, <1>14
     DEF Next, ThreadStep, Insert, Terminated

-----------------------------------------------------------------------------
(* PhaseInv is preserved.                                                  *)

LEMMA InitPhase == Init => PhaseInv
BY ConstantsAssumption
   DEF Init, PhaseInv, InStep, TableSet, IndexInSlice, IndexOK, Phase, Critical,
       Probing, Thread

\* A step of one thread keeps it in its phase and leaves the others alone.
LEMMA ThreadStaysInPhase ==
  ASSUME TypeOK, NEW t \in Thread, ThreadStep(t)
  PROVE  /\ \A u \in Thread : Phase(u)' = Phase(u)
         /\ \A u \in Thread : u # t => pc'[u] = pc[u] /\ i'[u] = i[u] /\ bufs'[u] = bufs[u]
         /\ run' = run
<1> USE DEF Goto, Critical, input, table, locals, probe
<1>1. /\ \A u \in Thread : u # t => pc'[u] = pc[u] /\ i'[u] = i[u] /\ bufs'[u] = bufs[u]
      /\ run' = run
  <2>1. DOMAIN pc = Thread /\ DOMAIN i = Thread /\ DOMAIN bufs = Thread
    BY DEF TypeOK
  <2>2. CASE Allocate(t) \/ TakeTable(t) \/ EndBuild(t)
    BY <2>1, <2>2 DEF Allocate, TakeTable, EndBuild
  <2>3. CASE Lock(t) \/ ReadNext(t) \/ Store(t) \/ Unlock(t)
    BY <2>1, <2>3 DEF Lock, ReadNext, Store, Unlock
  <2>4. CASE PlaceInHead(t) \/ PlaceInNext(t)
    BY <2>1, <2>4 DEF PlaceInHead, PlaceInNext
  <2>5. CASE PlaceInNew(t)
    BY <2>1, <2>5 DEF PlaceInNew, GetNewBucket
  <2>6. CASE ProbeTuple(t) \/ EndProbe(t)
    BY <2>1, <2>6 DEF ProbeTuple, EndProbe
  <2> QED  BY <2>2, <2>3, <2>4, <2>5, <2>6 DEF ThreadStep, Insert
<1>2. Phase(t)' = Phase(t)
  <2>0. DOMAIN pc = Thread
    BY DEF TypeOK
  <2>1. CASE Allocate(t)
    BY <2>0, <2>1 DEF Allocate, Phase
  <2>2. CASE TakeTable(t)
    BY <2>0, <2>2 DEF TakeTable, Phase
  <2>3. CASE Insert(t)
    <3>1. pc[t] \in {"build"} \cup Critical /\ pc'[t] \in {"build"} \cup Critical
      BY <2>0, <2>3 DEF Insert, Lock, ReadNext, PlaceInHead, PlaceInNext, PlaceInNew, Store, Unlock
    <3> QED  BY <3>1 DEF Phase
  <2>4. CASE EndBuild(t)
    BY <2>0, <2>4 DEF EndBuild, Phase
  <2>5. CASE ProbeTuple(t)
    BY <2>0, <2>5 DEF ProbeTuple, Phase
  <2>6. CASE EndProbe(t)
    BY <2>0, <2>6 DEF EndProbe, Phase
  <2> QED  BY <2>1, <2>2, <2>3, <2>4, <2>5, <2>6 DEF ThreadStep
<1>3. ASSUME NEW u \in Thread, u # t PROVE Phase(u)' = Phase(u)
  BY <1>1, <1>3 DEF Phase
<1> QED  BY <1>1, <1>2, <1>3

\* The threads that leave a barrier together come from the same one and go
\* on to the same place.
LEMMA ReleaseInStep ==
  ASSUME TypeOK, PhaseInv, ReleaseBarrier
  PROVE  /\ InStep'
         /\ \A t, u \in Thread : pc[t] = pc[u]
         /\ \A t \in Thread : pc'[t] = AfterBarrier(t)
<1>1. \A t \in Thread : /\ pc[t] \in Barriers
                        /\ pc'[t] = AfterBarrier(t)
                        /\ run'[t] = IF pc[t] = "probeEnd" THEN run[t] + 1 ELSE run[t]
  BY DEF ReleaseBarrier, AllArrived
<1>2. \A t, u \in Thread : pc[t] = pc[u] /\ run[t] = run[u]
  BY <1>1 DEF PhaseInv, InStep, Phase, Barriers, Critical
<1>3. \A t, u \in Thread : AfterBarrier(t) = AfterBarrier(u) /\ run'[t] = run'[u]
  BY <1>1, <1>2 DEF AfterBarrier, Barriers
<1>4. \A t, u \in Thread : pc'[t] = pc'[u]
  BY <1>1, <1>3
<1>5. InStep'
  BY <1>3, <1>4 DEF InStep, Phase
<1> QED  BY <1>1, <1>2, <1>5

LEMMA PhaseStep ==
  ASSUME TypeOK, PhaseInv, [Next]_vars
  PROVE  PhaseInv'
<1> USE DEF Goto, Critical, input, table, locals, probe
<1>1. CASE ReleaseBarrier
  <2>1. InStep'
    BY <1>1, ReleaseInStep
  <2>2. \A t \in Thread : pc[t] \in Barriers /\ pc'[t] = AfterBarrier(t)
    BY <1>1 DEF ReleaseBarrier, AllArrived
  <2>3. TableSet'
    <3>1. 0 \in Thread
      BY ConstantsAssumption DEF Thread
    <3> QED
      BY <1>1, <2>2, <3>1 DEF ReleaseBarrier, AllArrived, AfterBarrier, Barriers, PhaseInv, TableSet
  <2>4. IndexInSlice'
    <3> SUFFICES ASSUME NEW t \in Thread PROVE IndexOK(t)'
      BY DEF IndexInSlice
    <3>1. SliceLen(NumR, t) \in Nat /\ SliceLen(NumS, t) \in Nat
      BY SliceBounds, ConstantsAssumption
    <3>2. i'[t] = IF pc[t] \in {"taken", "probeStart"} THEN 0 ELSE i[t]
      BY <1>1 DEF ReleaseBarrier, AllArrived
    <3>3. run'[t] = IF pc[t] = "probeEnd" THEN run[t] + 1 ELSE run[t]
      BY <1>1 DEF ReleaseBarrier, AllArrived
    <3>4. bufs' = bufs
      BY <1>1 DEF ReleaseBarrier, AllArrived
    <3>5. IndexOK(t) /\ i[t] \in Nat /\ run[t] \in Nat /\ RUN_NUMS \in Nat \ {0}
      BY ConstantsAssumption DEF PhaseInv, IndexInSlice, TypeOK
    <3>6. (SliceLen(NumR, t))' = SliceLen(NumR, t) /\ (SliceLen(NumS, t))' = SliceLen(NumS, t)
      BY DEF SliceLen, Share
    <3> QED
      BY <2>2, <3>1, <3>2, <3>3, <3>4, <3>5, <3>6
         DEF AfterBarrier, Barriers, IndexOK, Probing
  <2> QED  BY <2>1, <2>3, <2>4 DEF PhaseInv, IndexInSlice
<1>2. ASSUME NEW t \in Thread, ThreadStep(t) PROVE PhaseInv'
  <2>1. InStep'
    BY <1>2, ThreadStaysInPhase DEF PhaseInv, InStep
  <2>2. TableSet'
    <3> 0 \in Thread
      BY ConstantsAssumption DEF Thread
    <3>1. CASE Allocate(t)
      BY <3>1 DEF Allocate, PhaseInv, TableSet, TypeOK
    <3>2. CASE TakeTable(t)
      <4>1. Phase(0) = Phase(t)
        BY DEF PhaseInv, InStep
      <4>2. pc[0] # "allocate"
        BY <3>2, <4>1 DEF TakeTable, Phase
      <4>3. ht = "table"
        BY <4>2 DEF PhaseInv, TableSet
      <4> QED  BY <3>2, <4>2, <4>3 DEF TakeTable, PhaseInv, TableSet, TypeOK
    <3>3. CASE Insert(t) \/ EndBuild(t)
      <4>1. /\ ht' = ht /\ myHt' = myHt
            /\ pc[t] \in {"build", "locked", "place", "store", "unlock"}
            /\ \E s \in ControlStates : pc' = [pc EXCEPT ![t] = s]
        BY <3>3 DEF Insert, Lock, ReadNext, PlaceInHead, PlaceInNext, PlaceInNew, Store, Unlock,
                    EndBuild, ControlStates, Barriers
      <4> QED  BY <4>1 DEF PhaseInv, TableSet, TypeOK
    <3>4. CASE ProbeTuple(t) \/ EndProbe(t)
      BY <3>4 DEF ProbeTuple, EndProbe, PhaseInv, TableSet, TypeOK
    <3> QED  BY <1>2, <3>1, <3>2, <3>3, <3>4 DEF ThreadStep
  <2>3. IndexInSlice'
    <3> SUFFICES ASSUME NEW u \in Thread PROVE IndexOK(u)'
      BY DEF IndexInSlice
    <3>1. /\ IndexOK(u) /\ i[u] \in Nat /\ bufs[u] \in Nat /\ run' = run
          /\ (SliceLen(NumR, u))' = SliceLen(NumR, u) /\ (SliceLen(NumS, u))' = SliceLen(NumS, u)
          /\ SliceLen(NumR, u) \in Nat /\ SliceLen(NumS, u) \in Nat
      BY <1>2, ThreadStaysInPhase, SliceBounds, ConstantsAssumption
         DEF PhaseInv, IndexInSlice, TypeOK, SliceLen, Share
    <3>2. CASE u # t
      BY <1>2, <3>1, <3>2, ThreadStaysInPhase DEF IndexOK, Probing
    <3>3. CASE u = t
      <4>1. CASE Allocate(t)
        BY <3>1, <3>3, <4>1 DEF Allocate, IndexOK, Probing, TypeOK
      <4>2. CASE TakeTable(t) \/ Lock(t) \/ ReadNext(t) \/ Store(t) \/ EndBuild(t) \/ EndProbe(t)
        <5>1. DOMAIN pc = Thread /\ DOMAIN i = Thread /\ DOMAIN bufs = Thread
          BY DEF TypeOK
        <5>2. CASE TakeTable(t) \/ EndBuild(t) \/ EndProbe(t)
          BY <3>1, <3>3, <5>1, <5>2 DEF TakeTable, EndBuild, EndProbe, IndexOK, Probing
        <5>3. CASE Lock(t) \/ ReadNext(t) \/ Store(t)
          BY <3>1, <3>3, <5>1, <5>3 DEF Lock, ReadNext, Store, IndexOK, Probing
        <5> QED  BY <4>2, <5>2, <5>3
      <4>3. CASE PlaceInHead(t) \/ PlaceInNext(t)
        BY <3>1, <3>3, <4>3 DEF PlaceInHead, PlaceInNext, IndexOK, Probing, TypeOK
      <4>4. CASE PlaceInNew(t)
        BY <3>1, <3>3, <4>4 DEF PlaceInNew, GetNewBucket, IndexOK, Probing, TypeOK
      <4>5. CASE Unlock(t)
        <5>1. /\ pc[t] = "unlock" /\ pc'[t] = "build" /\ i'[t] = i[t] + 1
              /\ bufs' = bufs /\ run' = run
          BY <4>5 DEF Unlock, Goto, TypeOK
        <5> QED  BY <3>1, <3>3, <5>1 DEF IndexOK, Critical, Probing
      <4>6. CASE ProbeTuple(t)
        <5>1. /\ pc[t] = "probe" /\ pc' = pc /\ i'[t] = i[t] + 1
              /\ i[t] < SliceLen(NumS, t) /\ bufs' = bufs /\ run' = run
          BY <4>6 DEF ProbeTuple, TypeOK
        <5> QED  BY <3>1, <3>3, <5>1 DEF IndexOK, Critical, Probing
      <4> QED  BY <1>2, <4>1, <4>2, <4>3, <4>4, <4>5, <4>6 DEF ThreadStep, Insert
    <3> QED  BY <3>2, <3>3
  <2> QED  BY <2>1, <2>2, <2>3 DEF PhaseInv
<1>3. CASE UNCHANGED vars
  <2>1. pc' = pc /\ i' = i /\ bufs' = bufs /\ run' = run /\ ht' = ht /\ myHt' = myHt
    BY <1>3 DEF vars
  <2>2. InStep'
    <3>1. \A t \in Thread : Phase(t)' = Phase(t)
      BY <2>1 DEF Phase
    <3> QED  BY <2>1, <3>1 DEF PhaseInv, InStep
  <2>3. TableSet'
    BY <2>1 DEF PhaseInv, TableSet
  <2>4. IndexInSlice'
    BY <2>1 DEF PhaseInv, IndexInSlice, IndexOK, Probing
  <2> QED  BY <2>2, <2>3, <2>4 DEF PhaseInv
<1> QED
  <2>1. CASE Next
    BY <1>1, <1>2, <1>3, <2>1 DEF Next, Terminated
  <2> QED  BY <1>3, <2>1

-----------------------------------------------------------------------------
(* The latch of a head bucket.                                             *)

LEMMA InitLatch == Init => LatchExclusion
BY DEF Init, LatchExclusion, InCritical, Critical, Heads

\* A step that neither takes nor releases a latch keeps the critical threads
\* critical, and at the same bucket.
LEMMA LatchKept ==
  ASSUME LatchExclusion, latch' = latch,
         \A t \in Thread : InCritical(t)' <=> InCritical(t),
         \A t \in Thread : InCritical(t) => Curr(t)' = Curr(t)
  PROVE  LatchExclusion'
BY DEF LatchExclusion

LEMMA LatchStep ==
  ASSUME TypeOK, PhaseInv, LatchExclusion, [Next]_vars
  PROVE  LatchExclusion'
<1> USE DEF Goto, input, table, locals, probe
<1>1. CASE ReleaseBarrier
  <2>1. \A t \in Thread : pc[t] \in Barriers /\ pc'[t] = AfterBarrier(t)
    BY <1>1 DEF ReleaseBarrier, AllArrived
  <2>2. \A t \in Thread : ~InCritical(t) /\ ~InCritical(t)'
    BY <2>1 DEF InCritical, Critical, Barriers, AfterBarrier
  <2>3. latch' = latch
    BY <1>1 DEF ReleaseBarrier, AllArrived
  <2> QED  BY <2>2, <2>3, LatchKept
<1>2. ASSUME NEW t \in Thread, Lock(t) PROVE LatchExclusion'
  <2>1. /\ Curr(t) \in Heads /\ latch[Curr(t)] = 0
        /\ latch' = [latch EXCEPT ![Curr(t)] = 1]
        /\ \A u \in Thread : Curr(u)' = Curr(u)
    BY <1>2, CurrInTable DEF Lock, Curr, CurrTuple, First, Share
  <2>2. \A u \in Thread : InCritical(u)' <=> InCritical(u) \/ u = t
    BY <1>2 DEF Lock, InCritical, Critical, TypeOK
  <2>3. \A u \in Thread : InCritical(u) => Curr(u) # Curr(t)
    BY <2>1 DEF LatchExclusion
  <2>4. \A h \in Heads : latch'[h] = IF h = Curr(t) THEN 1 ELSE latch[h]
    BY <2>1 DEF TypeOK
  <2> QED  BY <2>1, <2>2, <2>3, <2>4 DEF LatchExclusion
<1>3. ASSUME NEW t \in Thread, Unlock(t) PROVE LatchExclusion'
  <2>1. /\ InCritical(t) /\ latch' = [latch EXCEPT ![Curr(t)] = 0]
        /\ \A u \in Thread : u # t => Curr(u)' = Curr(u)
    BY <1>3 DEF Unlock, InCritical, Critical, Curr, CurrTuple, First, Share, TypeOK
  <2>2. \A u \in Thread : InCritical(u)' <=> InCritical(u) /\ u # t
    BY <1>3 DEF Unlock, InCritical, Critical, TypeOK
  <2>3. \A u \in Thread : u # t /\ InCritical(u) => Curr(u) # Curr(t)
    BY <2>1 DEF LatchExclusion
  <2>4. \A h \in Heads : latch'[h] = IF h = Curr(t) THEN 0 ELSE latch[h]
    BY <2>1 DEF TypeOK
  <2> QED  BY <2>1, <2>2, <2>3, <2>4 DEF LatchExclusion
<1>4. ASSUME NEW t \in Thread, Allocate(t) \/ TakeTable(t) \/ EndBuild(t) PROVE LatchExclusion'
  <2>1. latch' = latch /\ relR' = relR /\ i' = i
    BY <1>4 DEF Allocate, TakeTable, EndBuild
  <2>2. \A u \in Thread : InCritical(u)' <=> InCritical(u)
    BY <1>4 DEF Allocate, TakeTable, EndBuild, InCritical, Critical, TypeOK
  <2> QED  BY <2>1, <2>2, LatchKept DEF Curr, CurrTuple, First, Share
<1>5. ASSUME NEW t \in Thread,
             ReadNext(t) \/ PlaceInHead(t) \/ PlaceInNext(t) \/ PlaceInNew(t) \/ Store(t)
      PROVE  LatchExclusion'
  <2>1. latch' = latch /\ relR' = relR /\ i' = i
    BY <1>5 DEF ReadNext, PlaceInHead, PlaceInNext, PlaceInNew, Store
  <2>2. \A u \in Thread : InCritical(u)' <=> InCritical(u)
    BY <1>5 DEF ReadNext, PlaceInHead, PlaceInNext, PlaceInNew, Store, InCritical, Critical, TypeOK
  <2> QED  BY <2>1, <2>2, LatchKept DEF Curr, CurrTuple, First, Share
<1>6. ASSUME NEW t \in Thread, ProbeTuple(t) \/ EndProbe(t) PROVE LatchExclusion'
  <2>1. latch' = latch /\ relR' = relR /\ \A u \in Thread : InCritical(u) => i'[u] = i[u]
    BY <1>6 DEF ProbeTuple, EndProbe, InCritical, Critical, TypeOK
  <2>2. \A u \in Thread : InCritical(u)' <=> InCritical(u)
    BY <1>6 DEF ProbeTuple, EndProbe, InCritical, Critical, TypeOK
  <2> QED  BY <2>1, <2>2, LatchKept DEF Curr, CurrTuple, First, Share
<1>7. CASE UNCHANGED vars
  <2>1. pc' = pc /\ latch' = latch /\ relR' = relR /\ i' = i
    BY <1>7 DEF vars
  <2> QED  BY <2>1, LatchKept DEF InCritical, Curr, CurrTuple, First, Share
<1> QED
  BY <1>1, <1>2, <1>3, <1>4, <1>5, <1>6, <1>7 DEF Next, ThreadStep, Insert, Terminated

-----------------------------------------------------------------------------
\* TypeOK, the phases and the latches hold in every reachable state.
THEOREM InductiveInvariant == Spec => [](TypeOK /\ PhaseInv /\ LatchExclusion)
<1>1. Init => TypeOK /\ PhaseInv /\ LatchExclusion
  BY InitType, InitPhase, InitLatch
<1>2. TypeOK /\ PhaseInv /\ LatchExclusion /\ [Next]_vars
        => (TypeOK /\ PhaseInv /\ LatchExclusion)'
  BY TypeStep, PhaseStep, LatchStep
<1> QED  BY <1>1, <1>2, PTL DEF Spec

\* Each variable keeps its type, for any number of threads and tuples: no
\* bucket overflows and no thread runs out of bucket names.
THEOREM TypeCorrect == Spec => []TypeOK
BY InductiveInvariant, PTL

\* At most one thread is between lock and unlock of a head bucket, and its
\* latch says so.
THEOREM LatchCorrect == Spec => []LatchExclusion
BY InductiveInvariant, PTL

\* No thread builds before thread 0 has published the table to it.
THEOREM AllocationCorrect == Spec => []BuildsIntoAllocatedTable
<1>1. PhaseInv => BuildsIntoAllocatedTable
  <2> SUFFICES ASSUME PhaseInv, NEW t \in Thread,
                      pc[t] \in {"taken", "build"} \union Critical
               PROVE  ht = "table" /\ myHt[t] = "table"
    BY DEF BuildsIntoAllocatedTable
  <2>1. 0 \in Thread
    BY ConstantsAssumption DEF Thread
  <2>2. Phase(0) = Phase(t)
    BY <2>1 DEF PhaseInv, InStep
  <2>3. pc[0] # "allocate"
    BY <2>2 DEF Phase, Critical
  <2> QED  BY <2>3 DEF PhaseInv, TableSet, Critical
<1> QED  BY <1>1, InductiveInvariant, PTL

-----------------------------------------------------------------------------
(* The table that the threads build.  First the slices: no two threads     *)
(* have a position of R in common.                                         *)

\* The slice of a thread ends where the next one's starts, at the latest.
LEMMA SlicesInOrder ==
  ASSUME NEW n \in Nat, NEW t \in Thread, NEW u \in Thread, t < u
  PROVE  First(n, t) + SliceLen(n, t) <= First(n, u)
<1>1. t \in Nat /\ u \in Nat /\ t + 1 <= u /\ t # NumThreads - 1 /\ NumThreads \in Nat
  BY ConstantsAssumption DEF Thread
<1>2. Share(n) \in Nat
  BY ShareFits, <1>1 DEF Thread
<1>3. SliceLen(n, t) = Share(n)
  BY <1>1 DEF SliceLen
<1>4. Share(n) * t + Share(n) = Share(n) * (t + 1)
  BY <1>1, <1>2, Z3
<1>5. Share(n) * (t + 1) <= Share(n) * u
  BY <1>1, <1>2, Z3
<1> QED  BY <1>3, <1>4, <1>5 DEF First

\* No tuple is in the slices of two threads.
LEMMA SlicesApart ==
  ASSUME NEW n \in Nat, NEW t \in Thread, NEW u \in Thread, NEW p \in Nat,
         InSlice(n, t, p), InSlice(n, u, p)
  PROVE  t = u
<1>1. /\ First(n, t) \in Nat /\ SliceLen(n, t) \in Nat
      /\ First(n, u) \in Nat /\ SliceLen(n, u) \in Nat
  BY SliceBounds
<1>2. t \in Int /\ u \in Int
  BY ConstantsAssumption DEF Thread
<1>3. ~(t < u)
  BY <1>1, SlicesInOrder DEF InSlice
<1>4. ~(u < t)
  BY <1>1, SlicesInOrder DEF InSlice
<1> QED  BY <1>2, <1>3, <1>4

\* Every tuple is in the slice of some thread.
LEMMA SlicesCover ==
  ASSUME NEW n \in Nat, NEW p \in 0 .. n - 1
  PROVE  \E t \in Thread : InSlice(n, t, p)
<1>1. NumThreads \in Nat /\ NumThreads > 0
  BY ConstantsAssumption
<1> DEFINE last == NumThreads - 1
<1>2. last \in Thread /\ last \in 0 .. NumThreads /\ last \in Nat
  BY <1>1 DEF Thread
<1>3. Share(n) \in Nat /\ Share(n) * last \in Nat /\ Share(n) * last <= n
  BY <1>2, ShareFits
<1>4. CASE p >= Share(n) * last
  <2>1. InSlice(n, last, p)
    BY <1>3, <1>4 DEF InSlice, First, SliceLen
  <2> QED  BY <1>2, <2>1
<1>5. CASE p < Share(n) * last
  <2>1. Share(n) > 0
    BY <1>2, <1>3, <1>5, Z3
  <2> DEFINE s == Share(n)
             t == p \div s
  <2> HIDE DEF s
  <2>2. t \in Nat /\ s * t <= p /\ p < s * t + s
    BY <1>3, <2>1, Z3 DEF s
  <2>3. t < last
    <3> SUFFICES ASSUME last <= t PROVE FALSE
      BY <1>2, <2>2
    <3>1. s * last <= s * t
      BY <1>2, <1>3, <2>2, Z3 DEF s
    <3> QED  BY <1>3, <1>5, <2>2, <3>1 DEF s
  <2>4. t \in Thread /\ t # last
    BY <1>1, <2>2, <2>3 DEF Thread
  <2>5. InSlice(n, t, p)
    BY <2>2, <2>4 DEF InSlice, First, SliceLen, s
  <2> QED  BY <2>4, <2>5
<1> QED  BY <1>3, <1>4, <1>5

-----------------------------------------------------------------------------
(* Buckets and chains.                                                     *)

\* The head buckets and the overflow buckets are different buckets.
LEMMA HeadsApart ==
  /\ \A h \in Heads : HeadBucket(h) \in BucketIds /\ HeadBucket(h) \notin OverflowIds
  /\ \A h, g \in Heads : HeadBucket(h) = HeadBucket(g) => h = g
  /\ OverflowIds \subseteq BucketIds
BY ConstantsAssumption DEF HeadBucket, TableOwner, OverflowIds, Thread, BucketIds, HeadIds

\* A chain is a sequence of overflow buckets.
LEMMA ChainType ==
  ASSUME TypeOK, NEW h \in Heads
  PROVE  /\ Len(chain[h]) \in Nat
         /\ DOMAIN chain[h] = 1 .. Len(chain[h])
         /\ \A n \in DOMAIN chain[h] : chain[h][n] \in OverflowIds
         /\ chain[h] # <<>> <=> 1 \in DOMAIN chain[h]
<1>1. chain[h] \in Seq(OverflowIds)
  BY DEF TypeOK
<1> QED  BY <1>1, LenProperties, EmptySeq

\* The list behind a new first bucket.
LEMMA PushFront ==
  ASSUME NEW S, NEW c \in Seq(S), NEW b \in S
  PROVE  /\ DOMAIN (<<b>> \o c) = 1 .. Len(c) + 1
         /\ (<<b>> \o c)[1] = b
         /\ \A n \in 1 .. Len(c) : (<<b>> \o c)[n + 1] = c[n]
         /\ \A n \in 2 .. Len(c) + 1 : n - 1 \in 1 .. Len(c) /\ (<<b>> \o c)[n] = c[n - 1]
<1>1. <<b>> \in Seq(S) /\ Len(<<b>>) = 1 /\ <<b>>[1] = b
  OBVIOUS
<1>2. Len(c) \in Nat
  BY LenProperties
<1>3. /\ Len(<<b>> \o c) = Len(c) + 1
      /\ \A n \in 1 .. Len(c) + 1 : (<<b>> \o c)[n] = IF n <= 1 THEN <<b>>[n] ELSE c[n - 1]
  BY <1>1, <1>2, ConcatProperties
<1>4. DOMAIN (<<b>> \o c) = 1 .. Len(c) + 1
  BY <1>1, <1>3, ConcatProperties, LenProperties
<1>5. \A n \in 2 .. Len(c) + 1 : n - 1 \in 1 .. Len(c) /\ (<<b>> \o c)[n] = c[n - 1]
  BY <1>2, <1>3
<1>6. \A n \in 1 .. Len(c) : (<<b>> \o c)[n + 1] = c[n]
  BY <1>2, <1>3
<1> QED  BY <1>1, <1>2, <1>3, <1>4, <1>5, <1>6

\* No bucket is behind two heads.
LEMMA WalksApart ==
  ASSUME TypeOK, ChainsFillFromTheFront, NEW h \in Heads, NEW g \in Heads,
         NEW b \in Walk(h), b \in Walk(g)
  PROVE  h = g
<1>1. CASE b = HeadBucket(h)
  BY <1>1, HeadsApart, ChainType DEF Walk
<1>2. CASE b # HeadBucket(h)
  <2>1. PICK m \in DOMAIN chain[h] : b = chain[h][m]
    BY <1>2 DEF Walk
  <2>2. b # HeadBucket(g)
    BY <2>1, HeadsApart, ChainType
  <2>3. PICK n \in DOMAIN chain[g] : b = chain[g][n]
    BY <2>2 DEF Walk
  <2>4. chain[h][m] = chain[g][n]
    BY <2>1, <2>3
  <2>5. chain[h][m] = chain[g][n] => h = g /\ m = n
    BY DEF ChainsFillFromTheFront
  <2> QED  BY <2>4, <2>5
<1> QED  BY <1>1, <1>2

\* get_new_bucket: the bucket is in no chain and counts nothing.
LEMMA NewBucketIsNew ==
  ASSUME TypeOK, PhaseInv, Linkage, NEW t \in Thread, pc[t] = "place"
  PROVE  /\ NewBucket(t) \in OverflowIds
         /\ \A h \in Heads : \A n \in DOMAIN chain[h] : chain[h][n] # NewBucket(t)
         /\ count[NewBucket(t)] = 0
<1>1. NewBucket(t) \in OverflowIds
  BY PlaceTypes
<1>2. ~HandedOut(NewBucket(t))
  <2>1. bufs[t] \in Nat /\ bufCount[t] \in Nat
    BY ConstantsAssumption DEF TypeOK
  <2> QED  BY <2>1 DEF HandedOut, NewBucket
<1>3. \A h \in Heads : \A n \in DOMAIN chain[h] : chain[h][n] # NewBucket(t)
  BY <1>2 DEF Linkage
<1>4. ~(count[NewBucket(t)] > 0)
  BY <1>1, <1>3 DEF Linkage
<1>5. count[NewBucket(t)] \in 0 .. BUCKET_SIZE
  BY <1>1, HeadsApart DEF TypeOK
<1> QED  BY <1>1, <1>3, <1>4, <1>5, ConstantsAssumption

-----------------------------------------------------------------------------
(* The chains.                                                             *)

LEMMA InitChains == Init => ChainsFillFromTheFront /\ Linkage
<1> SUFFICES ASSUME Init PROVE ChainsFillFromTheFront /\ Linkage
  OBVIOUS
<1>1. \A h \in Heads : chain[h] = <<>> /\ DOMAIN chain[h] = {}
  BY DEF Init
<1>2. \A b \in OverflowIds : count[b] = 0
  BY HeadsApart DEF Init
<1>3. ChainsFillFromTheFront
  BY <1>1 DEF ChainsFillFromTheFront
<1>4. Linkage
  BY <1>1, <1>2 DEF Init, Linkage
<1> QED  BY <1>3, <1>4

\* Raising the count of a head that is not full.
LEMMA ChainsInHead ==
  ASSUME TypeOK, PhaseInv, ChainsFillFromTheFront, Linkage,
         NEW t \in Thread, PlaceInHead(t)
  PROVE  ChainsFillFromTheFront' /\ Linkage'
<1>1. PICK c \in Heads : c = Curr(t)
  BY PlaceTypes DEF PlaceInHead, Goto
<1>2. /\ chain' = chain /\ bufs' = bufs /\ bufCount' = bufCount
      /\ pc' = [pc EXCEPT ![t] = "store"]
      /\ count' = [count EXCEPT ![HeadBucket(c)] = @ + 1]
      /\ count[HeadBucket(c)] # BUCKET_SIZE
  BY <1>1 DEF PlaceInHead, HeadIsFull, Reserve, Goto, locals, table
<1>3. chain[c] = <<>>
  BY <1>1, <1>2 DEF ChainsFillFromTheFront
<1>4. \A b \in OverflowIds : count'[b] = count[b]
  BY <1>2, HeadsApart DEF TypeOK
<1>5. \A h \in Heads : h # c => count'[HeadBucket(h)] = count[HeadBucket(h)]
  BY <1>2, HeadsApart DEF TypeOK
<1>6. ChainsFillFromTheFront'
  BY <1>2, <1>3, <1>4, <1>5, ChainType DEF ChainsFillFromTheFront
<1>7. \A u \in Thread : pc'[u] = "allocate" => pc[u] = "allocate"
  BY <1>2 DEF TypeOK
<1>8. Linkage'
  BY <1>2, <1>4, <1>7 DEF Linkage, HandedOut
<1> QED  BY <1>6, <1>8

\* Raising the count of the first overflow bucket, which has room.
LEMMA ChainsInNext ==
  ASSUME TypeOK, PhaseInv, ChainsFillFromTheFront, Linkage, ReadsAreFresh,
         NEW t \in Thread, PlaceInNext(t)
  PROVE  ChainsFillFromTheFront' /\ Linkage'
<1>1. PICK c \in Heads : c = Curr(t)
  BY PlaceTypes DEF PlaceInNext, Goto
<1>2. PICK b : b = nxt[t][1]
  OBVIOUS
<1>3. nxt[t] = chain[c] /\ chain[c] # <<>>
  BY <1>1 DEF PlaceInNext, Goto, RoomInNext, ReadsAreFresh
<1>4. 1 \in DOMAIN chain[c] /\ b = chain[c][1] /\ b \in OverflowIds
  BY <1>2, <1>3, ChainType
<1>5. /\ chain' = chain /\ bufs' = bufs /\ bufCount' = bufCount
      /\ pc' = [pc EXCEPT ![t] = "store"]
      /\ count' = [count EXCEPT ![b] = @ + 1]
  BY <1>2 DEF PlaceInNext, Reserve, Goto, locals, table
<1>6. /\ \A h \in Heads : count'[HeadBucket(h)] = count[HeadBucket(h)]
      /\ \A a \in OverflowIds : a # b => count'[a] = count[a]
      /\ count[b] \in Nat /\ count'[b] = count[b] + 1
  BY <1>4, <1>5, HeadsApart, ConstantsAssumption DEF TypeOK
<1>7. \A h \in Heads : \A n \in DOMAIN chain[h] : chain[h][n] = b => h = c /\ n = 1
  BY <1>4 DEF ChainsFillFromTheFront
<1>8. ChainsFillFromTheFront'
  <2> SUFFICES ASSUME NEW h \in Heads
               PROVE  /\ chain[h] # <<>> => count'[HeadBucket(h)] = BUCKET_SIZE
                      /\ \A n \in DOMAIN chain[h] : count'[chain[h][n]] > 0
                      /\ \A n \in DOMAIN chain[h] \ {1} : count'[chain[h][n]] = BUCKET_SIZE
    BY <1>5 DEF ChainsFillFromTheFront
  <2>1. chain[h] # <<>> => count'[HeadBucket(h)] = BUCKET_SIZE
    BY <1>6 DEF ChainsFillFromTheFront
  <2>2. ASSUME NEW n \in DOMAIN chain[h] PROVE count'[chain[h][n]] > 0
    BY <1>6, ChainType DEF ChainsFillFromTheFront
  <2>3. ASSUME NEW n \in DOMAIN chain[h] \ {1} PROVE count'[chain[h][n]] = BUCKET_SIZE
    BY <1>6, <1>7, ChainType DEF ChainsFillFromTheFront
  <2> QED  BY <2>1, <2>2, <2>3
<1>9. \A u \in Thread : pc'[u] = "allocate" => pc[u] = "allocate"
  BY <1>5 DEF TypeOK
<1>10. Linkage'
  <2>1. \A a \in OverflowIds : count'[a] > 0 => a = b \/ count[a] > 0
    BY <1>6
  <2>2. \A a \in OverflowIds : count'[a] > 0 => \E h \in Heads : \E n \in DOMAIN chain[h] : chain[h][n] = a
    BY <2>1, <1>4 DEF Linkage
  <2> QED  BY <1>5, <1>9, <2>2 DEF Linkage, HandedOut
<1> QED  BY <1>8, <1>10

\* A new bucket goes in front of buckets that are full.
LEMMA ChainsInNew ==
  ASSUME TypeOK, PhaseInv, ChainsFillFromTheFront, Linkage, ReadsAreFresh,
         NEW t \in Thread, PlaceInNew(t)
  PROVE  ChainsFillFromTheFront' /\ Linkage'
<1>1. PICK c \in Heads : c = Curr(t)
  BY PlaceTypes DEF PlaceInNew, Goto
<1>2. PICK b \in OverflowIds :
        /\ b = NewBucket(t)
        /\ \A h \in Heads : \A n \in DOMAIN chain[h] : chain[h][n] # b
  BY NewBucketIsNew DEF PlaceInNew, Goto
<1>3. nxt[t] = chain[c] /\ count[HeadBucket(c)] = BUCKET_SIZE
  BY <1>1 DEF PlaceInNew, Goto, HeadIsFull, ReadsAreFresh
<1>4. /\ chain' = [chain EXCEPT ![c] = <<b>> \o chain[c]]
      /\ count' = [count EXCEPT ![b] = 1]
      /\ pc' = [pc EXCEPT ![t] = "store"]
  BY <1>1, <1>2, <1>3 DEF PlaceInNew, Goto, Linked
<1> DEFINE new == chain'[c]
<1>5. /\ \A h \in Heads : h # c => chain'[h] = chain[h]
      /\ new = <<b>> \o chain[c]
      /\ Len(chain[c]) \in Nat
      /\ DOMAIN new = 1 .. Len(chain[c]) + 1
      /\ new[1] = b
      /\ \A n \in 1 .. Len(chain[c]) : new[n + 1] = chain[c][n]
      /\ \A n \in 2 .. Len(chain[c]) + 1 : n - 1 \in DOMAIN chain[c] /\ new[n] = chain[c][n - 1]
  <2>1. chain[c] \in Seq(OverflowIds)
    BY DEF TypeOK
  <2>2. new = <<b>> \o chain[c] /\ \A h \in Heads : h # c => chain'[h] = chain[h]
    BY <1>4 DEF TypeOK
  <2> HIDE DEF new
  <2> QED  BY <2>1, <2>2, PushFront, ChainType
<1> HIDE DEF new
<1>6. /\ \A h \in Heads : count'[HeadBucket(h)] = count[HeadBucket(h)]
      /\ \A a \in OverflowIds : a # b => count'[a] = count[a]
      /\ count'[b] = 1
  BY <1>4, HeadsApart DEF TypeOK
<1>7. \A n \in DOMAIN chain[c] : count[chain[c][n]] = BUCKET_SIZE
  <2>1. chain[c] # <<>> => count[chain[c][1]] = BUCKET_SIZE
    BY <1>3 DEF PlaceInNew, RoomInNext
  <2> QED  BY <2>1, ChainType DEF ChainsFillFromTheFront
<1>8. \A n \in DOMAIN new \ {1} : n - 1 \in DOMAIN chain[c] /\ new[n] = chain[c][n - 1] /\ new[n] # b
  BY <1>2, <1>5
<1>9. ASSUME NEW h \in Heads, h # c, NEW m \in DOMAIN chain[h], NEW n \in DOMAIN new
      PROVE  chain[h][m] # new[n]
  <2>1. CASE n = 1
    BY <1>2, <1>5, <2>1
  <2>2. CASE n # 1
    <3>1. n - 1 \in DOMAIN chain[c] /\ new[n] = chain[c][n - 1]
      BY <1>8, <2>2
    <3>2. chain[h][m] = chain[c][n - 1] => h = c
      BY <3>1 DEF ChainsFillFromTheFront
    <3> QED  BY <1>9, <3>1, <3>2
  <2> QED  BY <2>1, <2>2
<1>10. ASSUME NEW m \in DOMAIN new, NEW n \in DOMAIN new, new[m] = new[n] PROVE m = n
  <2>1. CASE m = 1 \/ n = 1
    BY <1>5, <1>8, <1>10, <2>1
  <2>2. CASE m # 1 /\ n # 1
    <3>1. /\ m - 1 \in DOMAIN chain[c] /\ n - 1 \in DOMAIN chain[c]
          /\ chain[c][m - 1] = chain[c][n - 1]
      BY <1>8, <1>10, <2>2
    <3>2. m - 1 = n - 1
      BY <3>1 DEF ChainsFillFromTheFront
    <3> QED  BY <1>5, <3>2
  <2> QED  BY <2>1, <2>2
<1>11. ChainsFillFromTheFront'
  <2> SUFFICES ASSUME NEW h \in Heads
               PROVE  /\ chain'[h] # <<>> => count'[HeadBucket(h)] = BUCKET_SIZE
                      /\ \A n \in DOMAIN chain'[h] : count'[chain'[h][n]] > 0
                      /\ \A n \in DOMAIN chain'[h] \ {1} : count'[chain'[h][n]] = BUCKET_SIZE
                      /\ \A g \in Heads : \A m \in DOMAIN chain'[h], n \in DOMAIN chain'[g] :
                           chain'[h][m] = chain'[g][n] => h = g /\ m = n
    BY DEF ChainsFillFromTheFront
  <2>1. CASE h # c
    <3>1. \A n \in DOMAIN chain[h] : count'[chain[h][n]] = count[chain[h][n]]
      BY <1>2, <1>6, ChainType
    <3>2. ASSUME NEW g \in Heads, NEW m \in DOMAIN chain[h], NEW n \in DOMAIN chain'[g],
                 chain[h][m] = chain'[g][n]
          PROVE  h = g /\ m = n
      <4>1. CASE g # c
        BY <1>5, <3>2, <4>1 DEF ChainsFillFromTheFront
      <4>2. CASE g = c
        BY <1>9, <2>1, <3>2, <4>2 DEF new
      <4> QED  BY <4>1, <4>2
    <3>3. chain'[h] = chain[h]
      BY <1>5, <2>1
    <3>4. chain[h] # <<>> => count'[HeadBucket(h)] = BUCKET_SIZE
      BY <1>6, <2>1 DEF ChainsFillFromTheFront
    <3>5. /\ \A n \in DOMAIN chain[h] : count'[chain[h][n]] > 0
          /\ \A n \in DOMAIN chain[h] \ {1} : count'[chain[h][n]] = BUCKET_SIZE
      BY <3>1 DEF ChainsFillFromTheFront
    <3> QED  BY <3>2, <3>3, <3>4, <3>5
  <2>2. CASE h = c
    <3>1. \A n \in DOMAIN new \ {1} : count'[new[n]] = BUCKET_SIZE
      BY <1>6, <1>7, <1>8, ChainType
    <3>2. \A n \in DOMAIN new : count'[new[n]] > 0
      BY <1>5, <1>6, <3>1, ConstantsAssumption
    <3>3. ASSUME NEW g \in Heads, NEW m \in DOMAIN new, NEW n \in DOMAIN chain'[g],
                 new[m] = chain'[g][n]
          PROVE  c = g /\ m = n
      <4>1. CASE g # c
        BY <1>5, <1>9, <3>3, <4>1
      <4>2. CASE g = c
        BY <1>10, <3>3, <4>2 DEF new
      <4> QED  BY <4>1, <4>2
    <3> QED  BY <1>3, <1>6, <2>2, <3>1, <3>2, <3>3 DEF new
  <2> QED  BY <2>1, <2>2
<1>12. \A u \in Thread : pc'[u] = "allocate" => pc[u] = "allocate" /\ u # t
  BY <1>4 DEF TypeOK
<1>13. /\ \A a \in OverflowIds : HandedOut(a) => HandedOut(a)'
       /\ HandedOut(b)'
       /\ \A u \in Thread : u # t => bufs'[u] = bufs[u]
  <2>0. \A a \in OverflowIds : a[1] \in Thread /\ a[2] \in Nat /\ a[3] \in 0 .. OVERFLOW_BUF_SIZE - 1
    BY ConstantsAssumption DEF OverflowIds
  <2>1. bufs[t] \in Nat /\ bufCount[t] \in 0 .. OVERFLOW_BUF_SIZE
    BY DEF TypeOK
  <2>2. CASE BufferFull(t)
    <3>1. /\ bufs' = [bufs EXCEPT ![t] = @ + 1]
          /\ bufCount' = [bufCount EXCEPT ![t] = 1]
          /\ b = <<t, bufs[t] + 1, 0>>
      BY <1>2, <2>2 DEF PlaceInNew, GetNewBucket, NewBucket
    <3>2. /\ bufs'[t] = bufs[t] + 1 /\ bufCount'[t] = 1
          /\ \A u \in Thread : u # t => bufs'[u] = bufs[u] /\ bufCount'[u] = bufCount[u]
      BY <3>1 DEF TypeOK
    <3>3. HandedOut(b)' /\ \A u \in Thread : u # t => bufs'[u] = bufs[u]
      BY <2>1, <3>1, <3>2 DEF HandedOut
    <3>4. ASSUME NEW a \in OverflowIds, HandedOut(a) PROVE HandedOut(a)'
      BY <2>0, <2>1, <3>2, <3>4 DEF HandedOut
    <3> QED  BY <3>3, <3>4
  <2>3. CASE ~BufferFull(t)
    <3>1. /\ bufs' = bufs
          /\ bufCount' = [bufCount EXCEPT ![t] = @ + 1]
          /\ b = <<t, bufs[t], bufCount[t]>>
      BY <1>2, <2>3 DEF PlaceInNew, GetNewBucket, NewBucket
    <3>2. /\ bufCount'[t] = bufCount[t] + 1
          /\ \A u \in Thread : u # t => bufCount'[u] = bufCount[u]
      BY <3>1 DEF TypeOK
    <3>3. HandedOut(b)' /\ \A u \in Thread : u # t => bufs'[u] = bufs[u]
      BY <2>1, <3>1, <3>2 DEF HandedOut
    <3>4. ASSUME NEW a \in OverflowIds, HandedOut(a) PROVE HandedOut(a)'
      <4>1. CASE a[1] = t
        <5>1. a[3] \in Int /\ bufCount[t] \in Int
          BY <2>0, <2>1, ConstantsAssumption
        <5> QED  BY <3>1, <3>2, <3>4, <4>1, <5>1 DEF HandedOut
      <4>2. CASE a[1] # t
        BY <2>0, <3>1, <3>2, <3>4, <4>2 DEF HandedOut
      <4> QED  BY <4>1, <4>2
    <3> QED  BY <3>3, <3>4
  <2> QED  BY <2>2, <2>3
<1>14. Linkage'
  <2>1. \A u \in Thread : pc'[u] = "allocate" => bufs'[u] = 0
    BY <1>12, <1>13 DEF Linkage
  <2>2. ASSUME NEW h \in Heads, NEW n \in DOMAIN chain'[h]
        PROVE  \E a \in OverflowIds : a = chain'[h][n] /\ HandedOut(a)'
    <3>1. CASE h # c
      <4>1. chain'[h][n] \in OverflowIds /\ HandedOut(chain[h][n]) /\ chain'[h][n] = chain[h][n]
        BY <1>5, <2>2, <3>1, ChainType DEF Linkage
      <4> QED  BY <1>13, <4>1
    <3>2. CASE h = c /\ n = 1
      <4>1. chain'[h][n] = b
        BY <1>5, <3>2 DEF new
      <4> QED  BY <1>13, <4>1
    <3>3. CASE h = c /\ n # 1
      <4>1. /\ n - 1 \in DOMAIN chain[c] /\ chain'[h][n] = chain[c][n - 1]
        BY <1>8, <2>2, <3>3 DEF new
      <4>2. chain[c][n - 1] \in OverflowIds /\ HandedOut(chain[c][n - 1])
        BY <4>1, ChainType DEF Linkage
      <4> QED  BY <1>13, <4>1, <4>2
    <3> QED  BY <3>1, <3>2, <3>3
  <2>3. ASSUME NEW a \in OverflowIds, count'[a] > 0
        PROVE  \E h \in Heads : \E n \in DOMAIN chain'[h] : chain'[h][n] = a
    <3>1. CASE a = b
      BY <1>5, <3>1 DEF new
    <3>2. CASE a # b
      <4>0. PICK h \in Heads : \E n \in DOMAIN chain[h] : chain[h][n] = a
        BY <1>6, <2>3, <3>2 DEF Linkage
      <4>1. PICK n \in DOMAIN chain[h] : chain[h][n] = a
        BY <4>0
      <4>2. CASE h # c
        BY <1>5, <4>1, <4>2
      <4>3. CASE h = c
        <5>1. n \in 1 .. Len(chain[c]) /\ n + 1 \in DOMAIN new /\ new[n + 1] = a
          BY <1>5, <4>1, <4>3, ChainType
        <5> QED  BY <5>1 DEF new
      <4> QED  BY <4>2, <4>3
    <3> QED  BY <3>1, <3>2
  <2>4. \A h \in Heads : \A n \in DOMAIN chain'[h] : (HandedOut(chain[h][n]))'
    BY <2>2 DEF HandedOut
  <2> QED  BY <2>1, <2>3, <2>4 DEF Linkage
<1> QED  BY <1>11, <1>14

\* No other step touches the chains or the counts; only Allocate starts a
\* buffer, and its thread has no bucket yet.
LEMMA ChainsStep ==
  ASSUME TypeOK, PhaseInv, ChainsFillFromTheFront, Linkage, ReadsAreFresh, [Next]_vars
  PROVE  ChainsFillFromTheFront' /\ Linkage'
<1> USE DEF Goto, input, table, locals, probe
<1>1. ASSUME chain' = chain, count' = count, bufs' = bufs, bufCount' = bufCount,
             \A t \in Thread : pc'[t] = "allocate" => pc[t] = "allocate"
      PROVE  ChainsFillFromTheFront' /\ Linkage'
  BY <1>1 DEF ChainsFillFromTheFront, Linkage, HandedOut
<1>2. CASE ReleaseBarrier
  <2>1. \A t \in Thread : pc'[t] # "allocate"
    BY <1>2 DEF ReleaseBarrier, AllArrived, AfterBarrier, Barriers
  <2> QED  BY <1>1, <1>2, <2>1 DEF ReleaseBarrier
<1>3. ASSUME NEW t \in Thread, Allocate(t) PROVE ChainsFillFromTheFront' /\ Linkage'
  <2>1. /\ chain' = chain /\ count' = count
        /\ bufs' = [bufs EXCEPT ![t] = 1] /\ bufCount' = [bufCount EXCEPT ![t] = 0]
        /\ pc' = [pc EXCEPT ![t] = "allocated"] /\ pc[t] = "allocate"
    BY <1>3 DEF Allocate
  <2>2. ChainsFillFromTheFront'
    BY <2>1 DEF ChainsFillFromTheFront
  <2>3. ASSUME NEW h \in Heads, NEW n \in DOMAIN chain[h] PROVE HandedOut(chain[h][n])'
    <3>1. PICK b \in OverflowIds : b = chain[h][n]
      BY <2>3, ChainType
    <3>2. HandedOut(b) /\ b[1] \in Thread /\ b[2] \in Nat \ {0}
      BY <2>3, <3>1 DEF Linkage, OverflowIds
    <3>3. b[1] # t
      BY <2>1, <3>2 DEF Linkage, HandedOut
    <3> QED  BY <2>1, <3>1, <3>2, <3>3 DEF HandedOut, TypeOK
  <2>4. \A u \in Thread : pc'[u] = "allocate" => bufs'[u] = 0
    BY <2>1 DEF Linkage, TypeOK
  <2> QED  BY <2>1, <2>2, <2>3, <2>4 DEF Linkage
<1>4. ASSUME NEW t \in Thread, TakeTable(t) \/ Lock(t) \/ ReadNext(t) \/ Store(t) \/ Unlock(t)
      PROVE  ChainsFillFromTheFront' /\ Linkage'
  <2>1. chain' = chain /\ count' = count /\ bufs' = bufs /\ bufCount' = bufCount
    BY <1>4 DEF TakeTable, Lock, ReadNext, Store, Unlock
  <2>2. \A u \in Thread : pc'[u] = "allocate" => pc[u] = "allocate"
    BY <1>4 DEF TakeTable, Lock, ReadNext, Store, Unlock, TypeOK
  <2> QED  BY <1>1, <2>1, <2>2
<1>5. ASSUME NEW t \in Thread, EndBuild(t) \/ ProbeTuple(t) \/ EndProbe(t)
      PROVE  ChainsFillFromTheFront' /\ Linkage'
  <2>1. chain' = chain /\ count' = count /\ bufs' = bufs /\ bufCount' = bufCount
    BY <1>5 DEF EndBuild, ProbeTuple, EndProbe
  <2>2. \A u \in Thread : pc'[u] = "allocate" => pc[u] = "allocate"
    BY <1>5 DEF EndBuild, ProbeTuple, EndProbe, TypeOK
  <2> QED  BY <1>1, <2>1, <2>2
<1>6. ASSUME NEW t \in Thread, PlaceInHead(t) \/ PlaceInNext(t) \/ PlaceInNew(t)
      PROVE  ChainsFillFromTheFront' /\ Linkage'
  BY <1>6, ChainsInHead, ChainsInNext, ChainsInNew
<1>7. CASE UNCHANGED vars
  BY <1>1, <1>7 DEF vars
<1> QED
  BY <1>2, <1>3, <1>4, <1>5, <1>6, <1>7 DEF Next, ThreadStep, Insert, Terminated

-----------------------------------------------------------------------------
(* One step of the insertion: what it does to the table.                   *)

\* The three places a tuple can go have this in common: the next free slot
\* of a bucket behind the thread's head is reserved, that bucket may be new
\* there, and nothing else changes.
Reserves(t, b) ==
  /\ pc[t] = "place" /\ pc' = [pc EXCEPT ![t] = "store"]
  /\ count[b] \in Slot /\ count' = [count EXCEPT ![b] = count[b] + 1]
  /\ dest' = [dest EXCEPT ![t] = <<b, count[b]>>]
  /\ b \in Walk(Curr(t))'
  /\ \A h \in Heads : Walk(h) \subseteq Walk(h)'
  /\ \A h \in Heads : h # Curr(t) => chain'[h] = chain[h]
  /\ relR' = relR /\ i' = i /\ slots' = slots /\ nxt' = nxt

LEMMA PlaceReserves ==
  ASSUME TypeOK, PhaseInv, ChainsFillFromTheFront, Linkage, ReadsAreFresh,
         NEW t \in Thread, PlaceInHead(t) \/ PlaceInNext(t) \/ PlaceInNew(t)
  PROVE  \E b \in BucketIds : Reserves(t, b)
<1> USE DEF Goto, input, table, locals, probe
<1>1. pc[t] = "place" /\ pc' = [pc EXCEPT ![t] = "store"]
  BY DEF PlaceInHead, PlaceInNext, PlaceInNew
<1>2. PICK c \in Heads : c = Curr(t)
  BY <1>1, PlaceTypes
<1>3. nxt[t] = chain[c]
  BY <1>1, <1>2 DEF ReadsAreFresh
<1>4. CASE PlaceInHead(t)
  <2>1. PICK b \in BucketIds : b = HeadBucket(c)
    BY HeadsApart
  <2>2. count[b] \in Slot
    <3>1. count[b] # BUCKET_SIZE
      BY <1>2, <1>4, <2>1 DEF PlaceInHead, HeadIsFull
    <3> QED  BY <2>1, <3>1, RoomInSlot
  <2>3. \A h \in Heads : Walk(h)' = Walk(h)
    BY <1>4 DEF PlaceInHead, Walk
  <2>4. b \in Walk(Curr(t))'
    BY <1>2, <1>4, <2>1 DEF PlaceInHead, Walk, Curr, CurrTuple
  <2> QED
    BY <1>1, <1>2, <1>4, <2>1, <2>2, <2>3, <2>4 DEF PlaceInHead, Reserve, Reserves
<1>5. CASE PlaceInNext(t)
  <2>1. chain[c] # <<>> /\ count[nxt[t][1]] # BUCKET_SIZE
    BY <1>3, <1>5 DEF PlaceInNext, RoomInNext
  <2>2. PICK b \in BucketIds : b = nxt[t][1] /\ b \in {chain[c][n] : n \in DOMAIN chain[c]}
    BY <1>3, <2>1, ChainType, HeadsApart
  <2>3. count[b] \in Slot
    BY <2>1, <2>2, RoomInSlot
  <2>4. \A h \in Heads : Walk(h)' = Walk(h)
    BY <1>5 DEF PlaceInNext, Walk
  <2>5. b \in Walk(Curr(t))'
    BY <1>2, <1>5, <2>2 DEF PlaceInNext, Walk, Curr, CurrTuple
  <2> QED
    BY <1>1, <1>2, <1>5, <2>2, <2>3, <2>4, <2>5 DEF PlaceInNext, Reserve, Reserves
<1>6. CASE PlaceInNew(t)
  <2>1. PICK b \in OverflowIds : b = NewBucket(t) /\ count[b] = 0
    BY <1>1, NewBucketIsNew
  <2>2. b \in BucketIds /\ 0 \in Slot
    BY HeadsApart, ConstantsAssumption DEF Slot
  <2>3. /\ chain' = [chain EXCEPT ![c] = <<b>> \o chain[c]]
        /\ count' = [count EXCEPT ![b] = 1]
        /\ dest' = [dest EXCEPT ![t] = <<b, 0>>]
        /\ relR' = relR /\ i' = i /\ slots' = slots /\ nxt' = nxt
    BY <1>2, <1>3, <1>6, <2>1 DEF PlaceInNew, Linked
  <2>4. chain'[c] = <<b>> \o chain[c] /\ \A h \in Heads : h # c => chain'[h] = chain[h]
    BY <2>3 DEF TypeOK
  <2>5. chain[c] \in Seq(OverflowIds)
    BY DEF TypeOK
  <2>6. /\ 1 \in DOMAIN chain'[c] /\ chain'[c][1] = b
        /\ \A n \in DOMAIN chain[c] : n + 1 \in DOMAIN chain'[c] /\ chain'[c][n + 1] = chain[c][n]
    <3>1. PICK s \in Seq(OverflowIds) : s = chain[c]
      BY <2>5
    <3>2. /\ 1 \in DOMAIN (<<b>> \o s) /\ (<<b>> \o s)[1] = b
          /\ \A n \in DOMAIN s : n + 1 \in DOMAIN (<<b>> \o s) /\ (<<b>> \o s)[n + 1] = s[n]
      BY PushFront
    <3> QED  BY <2>4, <3>1, <3>2
  <2>7. \A h \in Heads : Walk(h) \subseteq Walk(h)'
    <3> SUFFICES ASSUME NEW h \in Heads, NEW a \in Walk(h) PROVE a \in Walk(h)'
      OBVIOUS
    <3>1. CASE h # c
      BY <2>4, <3>1 DEF Walk
    <3>2. CASE h = c
      BY <2>6, <3>2 DEF Walk
    <3> QED  BY <3>1, <3>2
  <2>8. b \in Walk(Curr(t))'
    <3>1. Curr(t)' = c
      BY <1>2, <2>3 DEF Curr, CurrTuple, First, Share
    <3>2. b \in Walk(c)'
      BY <2>6 DEF Walk
    <3> QED  BY <3>1, <3>2
  <2>9. /\ count[b] \in Slot /\ count' = [count EXCEPT ![b] = count[b] + 1]
        /\ dest' = [dest EXCEPT ![t] = <<b, count[b]>>]
    BY <2>1, <2>2, <2>3
  <2> QED
    BY <1>1, <1>2, <2>2, <2>3, <2>4, <2>7, <2>8, <2>9 DEF Reserves
<1> QED  BY <1>4, <1>5, <1>6

\* The steps that leave buckets, counts and lists as they are.
LEMMA OtherSteps ==
  ASSUME TypeOK, [Next]_vars,
         ~\E t \in Thread : PlaceInHead(t) \/ PlaceInNext(t) \/ PlaceInNew(t)
  PROVE  /\ relR' = relR /\ chain' = chain /\ count' = count /\ dest' = dest
         /\ \A h \in Heads : Walk(h)' = Walk(h)
<1>1. relR' = relR /\ chain' = chain /\ count' = count /\ dest' = dest
  <2> USE DEF input, table, locals, probe
  <2>1. CASE ReleaseBarrier \/ UNCHANGED vars
    BY <2>1 DEF ReleaseBarrier, vars
  <2>2. ASSUME NEW t \in Thread,
               Allocate(t) \/ TakeTable(t) \/ Lock(t) \/ ReadNext(t) \/ Store(t) \/ Unlock(t)
        PROVE  relR' = relR /\ chain' = chain /\ count' = count /\ dest' = dest
    BY <2>2 DEF Allocate, TakeTable, Lock, ReadNext, Store, Unlock
  <2>3. ASSUME NEW t \in Thread, EndBuild(t) \/ ProbeTuple(t) \/ EndProbe(t)
        PROVE  relR' = relR /\ chain' = chain /\ count' = count /\ dest' = dest
    BY <2>3 DEF EndBuild, ProbeTuple, EndProbe
  <2> QED  BY <2>1, <2>2, <2>3 DEF Next, ThreadStep, Insert, Terminated
<1> QED  BY <1>1 DEF Walk

\* Counts never fall.
LEMMA CountsGrow ==
  ASSUME TypeOK, NEW t \in Thread, NEW b \in BucketIds, Reserves(t, b)
  PROVE  \A a \in BucketIds : count[a] <= count'[a]
<1>1. \A a \in BucketIds : count[a] \in Int
  BY ConstantsAssumption DEF TypeOK
<1> QED  BY <1>1 DEF Reserves, TypeOK

-----------------------------------------------------------------------------
(* What a thread has read under its latch stays true.                      *)

LEMMA InitReads == Init => ReadsAreFresh
BY DEF Init, ReadsAreFresh

LEMMA ReadsStep ==
  ASSUME TypeOK, PhaseInv, LatchExclusion, BuildInv, [Next]_vars
  PROVE  ReadsAreFresh'
<1> USE DEF Goto, input, table, locals, probe
<1> SUFFICES ASSUME NEW u \in Thread
             PROVE  /\ pc'[u] = "place" => nxt'[u] = chain'[Curr(u)']
                    /\ pc'[u] = "store" => /\ dest'[u][1] \in Walk(Curr(u))'
                                           /\ dest'[u][2] < count'[dest'[u][1]]
  BY DEF ReadsAreFresh
<1>1. ASSUME pc[u] \in {"place", "store"}, pc'[u] = pc[u], nxt'[u] = nxt[u], dest'[u] = dest[u],
             Curr(u)' = Curr(u), chain'[Curr(u)] = chain[Curr(u)],
             \A b \in BucketIds : count[b] <= count'[b]
      PROVE  /\ pc'[u] = "place" => nxt'[u] = chain'[Curr(u)']
             /\ pc'[u] = "store" => /\ dest'[u][1] \in Walk(Curr(u))'
                                    /\ dest'[u][2] < count'[dest'[u][1]]
  <2>1. CASE pc[u] = "place"
    BY <1>1, <2>1 DEF BuildInv, ReadsAreFresh
  <2>2. CASE pc[u] = "store"
    <3>1. /\ dest[u][1] \in BucketIds /\ dest[u][2] \in Int
          /\ count[dest[u][1]] \in Int /\ count'[dest[u][1]] \in Int
      <4>1. dest[u] \in BucketIds \X Slot
        BY DEF TypeOK
      <4>2. dest[u][1] \in BucketIds /\ dest[u][2] \in Int
        BY <4>1 DEF Slot
      <4>3. \A b \in BucketIds : count[b] \in Int /\ count'[b] \in Int
        <5>1. TypeOK'
          BY TypeStep
        <5> QED  BY <5>1, ConstantsAssumption DEF TypeOK
      <4> QED  BY <4>2, <4>3
    <3>2. dest[u][1] \in Walk(Curr(u)) /\ dest[u][2] < count[dest[u][1]]
      BY <2>2 DEF BuildInv, ReadsAreFresh
    <3>3. dest[u][1] \in Walk(Curr(u))'
      BY <1>1, <3>2 DEF Walk
    <3> QED  BY <1>1, <2>2, <3>1, <3>2, <3>3
  <2> QED  BY <1>1, <2>1, <2>2
<1>2. ASSUME NEW t \in Thread, PlaceInHead(t) \/ PlaceInNext(t) \/ PlaceInNew(t)
      PROVE  /\ pc'[u] = "place" => nxt'[u] = chain'[Curr(u)']
             /\ pc'[u] = "store" => /\ dest'[u][1] \in Walk(Curr(u))'
                                    /\ dest'[u][2] < count'[dest'[u][1]]
  <2>1. PICK b \in BucketIds : Reserves(t, b)
    BY <1>2, PlaceReserves DEF BuildInv
  <2>2. CASE u = t
    <3>1. pc'[u] = "store" /\ dest'[u] = <<b, count[b]>> /\ count'[b] = count[b] + 1
      BY <2>1, <2>2 DEF Reserves, TypeOK
    <3>2. count[b] \in Int
      BY <2>1 DEF Reserves, Slot
    <3> QED  BY <2>1, <2>2, <3>1, <3>2 DEF Reserves
  <2>3. CASE u # t /\ pc[u] \in {"place", "store"}
    <3>1. /\ pc'[u] = pc[u] /\ nxt'[u] = nxt[u] /\ dest'[u] = dest[u] /\ Curr(u)' = Curr(u)
      BY <2>1, <2>3 DEF Reserves, TypeOK, Curr, CurrTuple, First, Share
    <3>2. Curr(u) \in Heads /\ Curr(u) # Curr(t)
      <4>1. InCritical(u) /\ InCritical(t)
        BY <2>1, <2>3 DEF Reserves, InCritical, Critical
      <4>2. i[u] < SliceLen(NumR, u)
        BY <2>3 DEF PhaseInv, IndexInSlice, IndexOK, Critical
      <4>3. Curr(u) \in Heads
        BY <4>2, CurrInTable
      <4>4. Curr(u) # Curr(t)
        BY <2>3, <4>1 DEF LatchExclusion
      <4> QED  BY <4>3, <4>4
    <3>3. chain'[Curr(u)] = chain[Curr(u)]
      BY <2>1, <3>2 DEF Reserves
    <3> QED  BY <1>1, <2>1, <2>3, <3>1, <3>3, CountsGrow
  <2>4. CASE u # t /\ pc[u] \notin {"place", "store"}
    BY <2>1, <2>4 DEF Reserves, TypeOK
  <2> QED  BY <2>2, <2>3, <2>4
<1>3. CASE ~\E t \in Thread : PlaceInHead(t) \/ PlaceInNext(t) \/ PlaceInNew(t)
  <2>1. relR' = relR /\ chain' = chain /\ count' = count /\ dest' = dest
    BY <1>3, OtherSteps
  <2>2. \A b \in BucketIds : count[b] <= count'[b]
    BY <2>1, ConstantsAssumption DEF TypeOK
  <2>3. CASE ReadNext(u)
    <3>1. pc'[u] = "place" /\ nxt'[u] = chain[Curr(u)] /\ Curr(u)' = Curr(u)
      BY <2>1, <2>3 DEF ReadNext, TypeOK, Curr, CurrTuple, First, Share
    <3> QED  BY <2>1, <3>1
  <2>4. CASE ~ReadNext(u) /\ pc'[u] \in {"place", "store"}
    <3>1. pc'[u] = pc[u] /\ nxt'[u] = nxt[u] /\ i'[u] = i[u]
      <4>1. CASE ReleaseBarrier \/ UNCHANGED vars
        BY <2>4, <4>1 DEF ReleaseBarrier, AllArrived, Barriers, AfterBarrier, vars
      <4>2. ASSUME NEW t \in Thread,
                   Allocate(t) \/ TakeTable(t) \/ Lock(t) \/ ReadNext(t) \/ Store(t) \/ Unlock(t)
            PROVE  pc'[u] = pc[u] /\ nxt'[u] = nxt[u] /\ i'[u] = i[u]
        BY <2>4, <4>2 DEF Allocate, TakeTable, Lock, ReadNext, Store, Unlock, TypeOK
      <4>3. ASSUME NEW t \in Thread, EndBuild(t) \/ ProbeTuple(t) \/ EndProbe(t)
            PROVE  pc'[u] = pc[u] /\ nxt'[u] = nxt[u] /\ i'[u] = i[u]
        BY <2>4, <4>3 DEF EndBuild, ProbeTuple, EndProbe, TypeOK
      <4> QED  BY <1>3, <4>1, <4>2, <4>3 DEF Next, ThreadStep, Insert, Terminated
    <3>2. Curr(u)' = Curr(u)
      BY <2>1, <3>1 DEF Curr, CurrTuple, First, Share
    <3> QED  BY <1>1, <2>1, <2>2, <2>4, <3>1, <3>2
  <2> QED  BY <2>3, <2>4
<1> QED  BY <1>2, <1>3

-----------------------------------------------------------------------------
(* Slots and counts.                                                       *)

LEMMA InitSlots == Init => SlotsFilled
<1> SUFFICES ASSUME Init, NEW d \in BucketIds \X Slot
             PROVE  slots[d] = NONE /\ ~(d[2] < count[d[1]])
  BY DEF SlotsFilled
<1> QED  BY ConstantsAssumption DEF Init, Slot

\* Two threads never have the same place reserved: their heads differ, so
\* their buckets do.
LEMMA DestsApart ==
  ASSUME TypeOK, PhaseInv, LatchExclusion, BuildInv,
         NEW t \in Thread, NEW u \in Thread, t # u, pc[t] = "store", pc[u] = "store"
  PROVE  dest[t] # dest[u]
<1>1. InCritical(t) /\ InCritical(u)
  BY DEF InCritical, Critical
<1>2. Curr(t) # Curr(u)
  BY <1>1 DEF LatchExclusion
<1>3. Curr(t) \in Heads /\ Curr(u) \in Heads
  BY CurrInTable DEF PhaseInv, IndexInSlice, IndexOK, Critical
<1>4. dest[t][1] \in Walk(Curr(t)) /\ dest[u][1] \in Walk(Curr(u))
  BY DEF BuildInv, ReadsAreFresh
<1> QED  BY <1>2, <1>3, <1>4, WalksApart DEF BuildInv

\* The place a thread writes was reserved by it, and is empty.
LEMMA DestIsFree ==
  ASSUME TypeOK, BuildInv, NEW t \in Thread, pc[t] = "store"
  PROVE  /\ dest[t] \in BucketIds \X Slot
         /\ slots[dest[t]] = NONE
         /\ dest[t][2] < count[dest[t][1]]
         /\ dest[t][1] \in Walk(Curr(t))
<1>1. dest[t] \in BucketIds \X Slot
  BY DEF TypeOK
<1>2. dest[t][2] < count[dest[t][1]] /\ dest[t][1] \in Walk(Curr(t))
  BY DEF BuildInv, ReadsAreFresh
<1> QED  BY <1>1, <1>2 DEF BuildInv, SlotsFilled

LEMMA SlotsStep ==
  ASSUME TypeOK, PhaseInv, LatchExclusion, BuildInv, [Next]_vars
  PROVE  SlotsFilled'
<1> USE DEF Goto, input, table, locals, probe
<1> SUFFICES ASSUME NEW d \in BucketIds \X Slot
             PROVE  slots'[d] # NONE <=>
                      d[2] < count'[d[1]] /\ \A t \in Thread : pc'[t] = "store" => dest'[t] # d
  BY DEF SlotsFilled
<1> DEFINE reserved == \E t \in Thread : pc[t] = "store" /\ dest[t] = d
<1>1. slots[d] # NONE <=> d[2] < count[d[1]] /\ ~reserved
  BY DEF BuildInv, SlotsFilled
<1> HIDE DEF reserved
<1>2. ASSUME NEW t \in Thread, PlaceInHead(t) \/ PlaceInNext(t) \/ PlaceInNew(t)
      PROVE  slots'[d] # NONE <=>
               d[2] < count'[d[1]] /\ \A u \in Thread : pc'[u] = "store" => dest'[u] # d
  <2>1. PICK b \in BucketIds : Reserves(t, b)
    BY <1>2, PlaceReserves DEF BuildInv
  <2>2. slots' = slots /\ d[1] \in BucketIds /\ d[2] \in Int /\ count[d[1]] \in Int /\ count[b] \in Int
    BY <2>1, ConstantsAssumption DEF Reserves, TypeOK, Slot
  <2>3. /\ pc[t] = "place" /\ pc'[t] = "store" /\ dest'[t] = <<b, count[b]>>
        /\ \A u \in Thread : u # t => pc'[u] = pc[u] /\ dest'[u] = dest[u]
    BY <2>1 DEF Reserves, TypeOK
  <2>4. CASE d = <<b, count[b]>>
    <3>1. slots[d] = NONE
      BY <1>1, <2>2, <2>4
    <3> QED  BY <2>2, <2>3, <2>4, <3>1
  <2>5. CASE d # <<b, count[b]>>
    <3>1. (\A u \in Thread : pc'[u] = "store" => dest'[u] # d) <=> ~reserved
      BY <2>3, <2>5 DEF reserved
    <3>2. d[1] = b => d[2] # count[b]
      BY <2>5
    <3>3. d[2] < count'[d[1]] <=> d[2] < count[d[1]]
      <4>1. count'[b] = count[b] + 1 /\ (d[1] # b => count'[d[1]] = count[d[1]])
        BY <2>1, <2>2 DEF Reserves, TypeOK
      <4> QED  BY <2>2, <3>2, <4>1
    <3> QED  BY <1>1, <2>2, <3>1, <3>3
  <2> QED  BY <2>4, <2>5
<1>3. ASSUME NEW t \in Thread, Store(t)
      PROVE  slots'[d] # NONE <=>
               d[2] < count'[d[1]] /\ \A u \in Thread : pc'[u] = "store" => dest'[u] # d
  <2>1. /\ pc[t] = "store" /\ pc' = [pc EXCEPT ![t] = "unlock"]
        /\ slots' = [slots EXCEPT ![dest[t]] = CurrTuple(t)]
        /\ count' = count /\ dest' = dest
    BY <1>3 DEF Store
  <2>2. pc'[t] # "store" /\ \A u \in Thread : u # t => pc'[u] = pc[u]
    BY <2>1 DEF TypeOK
  <2>3. CurrTuple(t) # NONE
    BY <2>1, CurrInTable, ConstantsAssumption DEF PhaseInv, IndexInSlice, IndexOK, Critical, RPos, NONE
  <2>4. CASE d = dest[t]
    <3>1. slots'[d] = CurrTuple(t) /\ d[2] < count[d[1]]
      BY <2>1, <2>4, DestIsFree DEF TypeOK
    <3>2. \A u \in Thread : pc'[u] = "store" => dest[u] # d
      BY <2>1, <2>2, <2>4, DestsApart
    <3> QED  BY <2>1, <2>3, <3>1, <3>2
  <2>5. CASE d # dest[t]
    <3>1. slots'[d] = slots[d]
      BY <2>1, <2>5 DEF TypeOK
    <3>2. (\A u \in Thread : pc'[u] = "store" => dest'[u] # d) <=> ~reserved
      BY <2>1, <2>2, <2>5 DEF reserved
    <3> QED  BY <1>1, <2>1, <3>1, <3>2
  <2> QED  BY <2>4, <2>5
<1>4. ASSUME ~\E t \in Thread : PlaceInHead(t) \/ PlaceInNext(t) \/ PlaceInNew(t),
             ~\E t \in Thread : Store(t)
      PROVE  slots'[d] # NONE <=>
               d[2] < count'[d[1]] /\ \A u \in Thread : pc'[u] = "store" => dest'[u] # d
  <2>1. count' = count /\ dest' = dest
    BY <1>4, OtherSteps
  <2>2. slots' = slots /\ \A u \in Thread : pc'[u] = "store" <=> pc[u] = "store"
    <3>1. CASE ReleaseBarrier \/ UNCHANGED vars
      BY <3>1 DEF ReleaseBarrier, AllArrived, Barriers, AfterBarrier, vars
    <3>2. ASSUME NEW t \in Thread,
                 Allocate(t) \/ TakeTable(t) \/ Lock(t) \/ ReadNext(t) \/ Unlock(t)
          PROVE  slots' = slots /\ \A u \in Thread : pc'[u] = "store" <=> pc[u] = "store"
      BY <3>2 DEF Allocate, TakeTable, Lock, ReadNext, Unlock, TypeOK
    <3>3. ASSUME NEW t \in Thread, EndBuild(t) \/ ProbeTuple(t) \/ EndProbe(t)
          PROVE  slots' = slots /\ \A u \in Thread : pc'[u] = "store" <=> pc[u] = "store"
      BY <3>3 DEF EndBuild, ProbeTuple, EndProbe, TypeOK
    <3> QED  BY <1>4, <3>1, <3>2, <3>3 DEF Next, ThreadStep, Insert, Terminated
  <2> QED  BY <1>1, <2>1, <2>2 DEF reserved
<1> QED  BY <1>2, <1>3, <1>4

-----------------------------------------------------------------------------
(* The tuples.                                                             *)

LEMMA InitTuples == Init => EveryTupleOnce
<1> SUFFICES ASSUME Init, NEW t \in Thread, NEW p \in RPos
             PROVE  ~HasWritten(t, p) /\ PlacesOf(p) = {}
  BY DEF EveryTupleOnce
<1>1. ~HasWritten(t, p)
  BY DEF Init, HasWritten, Critical, Probing
<1>2. p # NONE
  BY ConstantsAssumption DEF RPos, NONE
<1> QED  BY <1>1, <1>2 DEF Init, PlacesOf

\* The head bucket of a tuple of R.
LEMMA HeadOf ==
  ASSUME TypeOK, NEW p \in RPos
  PROVE  HASH(relR[p]) \in Heads /\ p \in Nat /\ p # NONE /\ NumR \in Nat
<1>1. relR[p] \in Key
  BY DEF TypeOK
<1>2. NumR \in Nat
  BY ConstantsAssumption
<1>3. p \in Nat /\ p # NONE
  BY <1>2 DEF RPos, NONE
<1> QED  BY <1>1, <1>2, <1>3, HashAssumption

\* A step that writes no tuple, and takes none for written.
LEMMA TuplesKept ==
  ASSUME TypeOK, TypeOK', EveryTupleOnce, slots' = slots, relR' = relR,
         \A h \in Heads : Walk(h) \subseteq Walk(h)',
         \A b \in BucketIds : count[b] <= count'[b],
         \A t \in Thread : \A p \in RPos :
           InSlice(NumR, t, p) => (HasWritten(t, p)' <=> HasWritten(t, p))
  PROVE  EveryTupleOnce'
<1> SUFFICES ASSUME NEW t \in Thread, NEW p \in RPos, InSlice(NumR, t, p)
             PROVE  IF HasWritten(t, p)'
                    THEN \E d \in Walk(HASH(relR[p]))' \X Slot :
                           PlacesOf(p)' = {d} /\ d[2] < count'[d[1]]
                    ELSE PlacesOf(p)' = {}
  BY DEF EveryTupleOnce, InSlice, First, SliceLen, Share
<1>1. PlacesOf(p)' = PlacesOf(p)
  BY DEF PlacesOf
<1>2. HasWritten(t, p)' <=> HasWritten(t, p)
  OBVIOUS
<1>3. CASE ~HasWritten(t, p)
  BY <1>1, <1>2, <1>3 DEF EveryTupleOnce
<1>4. CASE HasWritten(t, p)
  <2>1. PICK d \in Walk(HASH(relR[p])) \X Slot : PlacesOf(p) = {d} /\ d[2] < count[d[1]]
    BY <1>4 DEF EveryTupleOnce
  <2>2. d \in BucketIds \X Slot
    BY <2>1 DEF PlacesOf
  <2>3. d[2] < count'[d[1]]
    <3>1. d[1] \in BucketIds /\ d[2] \in Int
      BY <2>2 DEF Slot
    <3>2. count[d[1]] \in Int /\ count'[d[1]] \in Int /\ count[d[1]] <= count'[d[1]]
      BY <3>1, ConstantsAssumption DEF TypeOK
    <3> QED  BY <2>1, <3>1, <3>2
  <2>4. d \in Walk(HASH(relR[p]))' \X Slot
    <3>1. Walk(HASH(relR[p])) \subseteq Walk(HASH(relR[p]))'
      BY HeadOf
    <3>2. d \in Walk(HASH(relR[p])) \X Slot
      BY <2>1
    <3> QED  BY <3>1, <3>2
  <2> QED  BY <1>1, <1>2, <1>4, <2>1, <2>3, <2>4
<1> QED  BY <1>3, <1>4

\* Store writes the current tuple, which no slot held, into an empty slot.
LEMMA TuplesStore ==
  ASSUME TypeOK, PhaseInv, LatchExclusion, BuildInv, NEW t \in Thread, Store(t)
  PROVE  EveryTupleOnce'
<1> USE DEF Goto, input, table, locals, probe
<1>1. PICK q \in RPos : q = CurrTuple(t)
  BY CurrInTable DEF Store, PhaseInv, IndexInSlice, IndexOK, Critical
<1>2. /\ pc[t] = "store" /\ pc' = [pc EXCEPT ![t] = "unlock"]
      /\ slots' = [slots EXCEPT ![dest[t]] = q]
      /\ count' = count /\ relR' = relR /\ i' = i /\ chain' = chain
  BY <1>1 DEF Store
<1>3. PICK e \in BucketIds \X Slot :
        /\ e = dest[t] /\ slots[e] = NONE /\ e[2] < count[e[1]] /\ e[1] \in Walk(Curr(t))
  BY <1>2, DestIsFree
<1>4. InSlice(NumR, t, q)
  <2>1. NumR \in Nat /\ i[t] \in Nat
    BY ConstantsAssumption DEF TypeOK
  <2>2. First(NumR, t) \in Nat /\ SliceLen(NumR, t) \in Nat
    BY <2>1, SliceBounds
  <2>3. i[t] < SliceLen(NumR, t)
    BY <1>2 DEF PhaseInv, IndexInSlice, IndexOK, Critical
  <2> QED  BY <1>1, <2>1, <2>2, <2>3 DEF CurrTuple, InSlice
<1>5. \A p \in RPos : p # q => PlacesOf(p)' = PlacesOf(p)
  <2>1. \A p \in RPos : p # NONE
    BY HeadOf
  <2> QED  BY <1>2, <1>3, <2>1 DEF PlacesOf, TypeOK
<1>6. PlacesOf(q) = {}
  <2>1. ~HasWritten(t, q)
    <3>1. q \in Int
      BY ConstantsAssumption DEF RPos
    <3> QED  BY <1>1, <1>2, <3>1 DEF HasWritten, Probing
  <2> QED  BY <1>4, <2>1 DEF BuildInv, EveryTupleOnce
<1>7. PlacesOf(q)' = {e}
  BY <1>2, <1>3, <1>6 DEF PlacesOf, TypeOK
<1> SUFFICES ASSUME NEW u \in Thread, NEW p \in RPos, InSlice(NumR, u, p)
             PROVE  IF HasWritten(u, p)'
                    THEN \E d \in Walk(HASH(relR[p]))' \X Slot :
                           PlacesOf(p)' = {d} /\ d[2] < count'[d[1]]
                    ELSE PlacesOf(p)' = {}
  BY DEF EveryTupleOnce, InSlice, First, SliceLen, Share
<1>8. CASE p = q
  <2>1. u = t
    BY <1>4, <1>8, HeadOf, SlicesApart
  <2>2. HasWritten(u, p)'
    <3>1. CurrTuple(t)' = q /\ pc'[t] = "unlock"
      BY <1>1, <1>2 DEF CurrTuple, First, Share, TypeOK
    <3> QED  BY <1>8, <2>1, <3>1 DEF HasWritten
  <2>3. e \in Walk(HASH(relR[p]))' \X Slot
    <3>1. Walk(HASH(relR[p]))' = Walk(Curr(t))
      BY <1>1, <1>2, <1>8 DEF Walk, Curr
    <3> QED  BY <1>3, <3>1
  <2> QED  BY <1>2, <1>3, <1>7, <1>8, <2>2, <2>3
<1>9. CASE p # q
  <2>1. HasWritten(u, p)' <=> HasWritten(u, p)
    <3>1. CurrTuple(u)' = CurrTuple(u)
      BY <1>2 DEF CurrTuple, First, Share
    <3>2. u # t => pc'[u] = pc[u]
      BY <1>2 DEF TypeOK
    <3>3. pc'[t] = "unlock"
      BY <1>2 DEF TypeOK
    <3> QED  BY <1>1, <1>2, <1>9, <3>1, <3>2, <3>3 DEF HasWritten, Critical, Probing
  <2>2. Walk(HASH(relR[p]))' = Walk(HASH(relR[p]))
    BY <1>2 DEF Walk
  <2> QED  BY <1>2, <1>5, <1>9, <2>1, <2>2 DEF BuildInv, EveryTupleOnce
<1> QED  BY <1>8, <1>9

LEMMA TuplesStep ==
  ASSUME TypeOK, PhaseInv, LatchExclusion, BuildInv, [Next]_vars
  PROVE  EveryTupleOnce'
<1> USE DEF Goto, input, table, locals, probe
<1>1. ASSUME NEW t \in Thread, Store(t) PROVE EveryTupleOnce'
  BY <1>1, TuplesStore
<1>2. TypeOK' /\ \A p \in RPos : p \in Int
  BY TypeStep, HeadOf
<1>3. ASSUME NEW t \in Thread, PlaceInHead(t) \/ PlaceInNext(t) \/ PlaceInNew(t)
      PROVE  EveryTupleOnce'
  <2>1. PICK b \in BucketIds : Reserves(t, b)
    BY <1>3, PlaceReserves DEF BuildInv
  <2>2. \A u \in Thread : CurrTuple(u)' = CurrTuple(u)
    BY <2>1 DEF Reserves, CurrTuple, First, Share
  <2>3. pc[t] = "place" /\ pc'[t] = "store" /\ \A u \in Thread : u # t => pc'[u] = pc[u]
    BY <2>1 DEF Reserves, TypeOK
  <2>4. \A u \in Thread : \A p \in RPos : HasWritten(u, p)' <=> HasWritten(u, p)
    BY <2>2, <2>3 DEF HasWritten, Critical, Probing
  <2> QED  BY <1>2, <2>1, <2>4, CountsGrow, TuplesKept DEF Reserves, BuildInv
<1>4. ASSUME ~\E t \in Thread : PlaceInHead(t) \/ PlaceInNext(t) \/ PlaceInNew(t),
             slots' = slots,
             \A t \in Thread : \A p \in RPos :
               InSlice(NumR, t, p) => (HasWritten(t, p)' <=> HasWritten(t, p))
      PROVE  EveryTupleOnce'
  <2>1. /\ relR' = relR /\ count' = count
        /\ \A h \in Heads : Walk(h)' = Walk(h)
    BY <1>4, OtherSteps
  <2>2. \A b \in BucketIds : count[b] <= count'[b]
    BY <2>1, ConstantsAssumption DEF TypeOK
  <2> QED  BY <1>2, <1>4, <2>1, <2>2, TuplesKept DEF BuildInv
<1>5. ASSUME NEW t \in Thread, NEW p \in RPos, InSlice(NumR, t, p)
      PROVE  /\ First(NumR, t) \in Int /\ SliceLen(NumR, t) \in Int /\ p \in Int
             /\ First(NumR, t) <= p /\ p < First(NumR, t) + SliceLen(NumR, t)
  BY <1>2, <1>5, SliceBounds, ConstantsAssumption DEF InSlice
<1> DEFINE Same == \A t \in Thread : \A p \in RPos :
                     InSlice(NumR, t, p) => (HasWritten(t, p)' <=> HasWritten(t, p))
<1>6. ASSUME relR' = relR,
             NEW t \in Thread, \A u \in Thread : u # t => pc'[u] = pc[u] /\ i'[u] = i[u],
             \A p \in RPos : InSlice(NumR, t, p) => (HasWritten(t, p)' <=> HasWritten(t, p))
      PROVE  Same
  <2>1. \A u \in Thread : u # t => CurrTuple(u)' = CurrTuple(u)
    BY <1>6 DEF CurrTuple, First, Share
  <2> QED  BY <1>6, <2>1 DEF HasWritten
<1>7. CASE ReleaseBarrier
  <2>1. \A t \in Thread : /\ pc[t] \in Barriers /\ pc'[t] = AfterBarrier(t)
                          /\ pc[t] = "taken" => i'[t] = 0
    BY <1>7 DEF ReleaseBarrier, AllArrived
  <2>2. Same
    <3> SUFFICES ASSUME NEW t \in Thread, NEW p \in RPos, InSlice(NumR, t, p)
                 PROVE  HasWritten(t, p)' <=> HasWritten(t, p)
      OBVIOUS
    <3>1. CASE pc[t] = "taken"
      <4>1. CurrTuple(t)' = First(NumR, t) /\ ~(p < First(NumR, t))
        BY <1>5, <2>1, <3>1 DEF CurrTuple, First, Share
      <4> QED  BY <2>1, <3>1, <4>1 DEF AfterBarrier, HasWritten, Critical, Probing
    <3>2. CASE pc[t] # "taken"
      BY <2>1, <3>2 DEF Barriers, AfterBarrier, HasWritten, Critical, Probing
    <3> QED  BY <3>1, <3>2
  <2>3. slots' = slots /\ ~\E t \in Thread : PlaceInHead(t) \/ PlaceInNext(t) \/ PlaceInNew(t)
    BY <1>7, <2>1 DEF ReleaseBarrier, PlaceInHead, PlaceInNext, PlaceInNew, Barriers
  <2> QED  BY <1>4, <2>2, <2>3
<1>8. ASSUME NEW t \in Thread, Unlock(t) PROVE EveryTupleOnce'
  <2>1. /\ pc[t] = "unlock" /\ pc'[t] = "build" /\ i'[t] = i[t] + 1 /\ relR' = relR /\ slots' = slots
        /\ \A u \in Thread : u # t => pc'[u] = pc[u] /\ i'[u] = i[u]
    BY <1>8 DEF Unlock, TypeOK
  <2>2. CurrTuple(t)' = CurrTuple(t) + 1 /\ CurrTuple(t) \in Int
    <3>1. i[t] \in Int /\ First(NumR, t) \in Int
      BY SliceBounds, ConstantsAssumption DEF TypeOK
    <3> QED  BY <2>1, <3>1 DEF CurrTuple, First, Share
  <2>3. \A p \in RPos : HasWritten(t, p)' <=> HasWritten(t, p)
    BY <1>2, <2>1, <2>2 DEF HasWritten, Critical, Probing
  <2>4. ~\E u \in Thread : PlaceInHead(u) \/ PlaceInNext(u) \/ PlaceInNew(u)
    BY <1>8, <2>1 DEF PlaceInHead, PlaceInNext, PlaceInNew, TypeOK
  <2> QED  BY <1>4, <1>6, <2>1, <2>3, <2>4
<1>9. ASSUME NEW t \in Thread, EndBuild(t) PROVE EveryTupleOnce'
  <2>1. /\ pc[t] = "build" /\ pc'[t] = "built" /\ i' = i /\ i[t] = SliceLen(NumR, t)
        /\ relR' = relR /\ slots' = slots
        /\ \A u \in Thread : u # t => pc'[u] = pc[u] /\ i'[u] = i[u]
    BY <1>9 DEF EndBuild, TypeOK
  <2>2. \A p \in RPos : InSlice(NumR, t, p) => HasWritten(t, p)' /\ HasWritten(t, p)
    BY <1>5, <2>1 DEF HasWritten, CurrTuple
  <2>3. ~\E u \in Thread : PlaceInHead(u) \/ PlaceInNext(u) \/ PlaceInNew(u)
    BY <1>9, <2>1 DEF PlaceInHead, PlaceInNext, PlaceInNew, TypeOK
  <2> QED  BY <1>4, <1>6, <2>1, <2>2, <2>3
<1>10. ASSUME NEW t \in Thread,
              \/ Allocate(t) \/ TakeTable(t) \/ Lock(t) \/ ReadNext(t)
              \/ ProbeTuple(t) \/ EndProbe(t)
       PROVE  EveryTupleOnce'
  <2>1. /\ relR' = relR /\ slots' = slots
        /\ \A u \in Thread : u # t => pc'[u] = pc[u] /\ i'[u] = i[u]
    BY <1>10 DEF Allocate, TakeTable, Lock, ReadNext, ProbeTuple, EndProbe, TypeOK
  <2>2. \A p \in RPos : HasWritten(t, p)' <=> HasWritten(t, p)
    <3>1. CASE Lock(t) \/ ReadNext(t)
      <4>1. pc[t] \in {"build", "locked"} /\ pc'[t] \in {"locked", "place"} /\ CurrTuple(t)' = CurrTuple(t)
        BY <3>1 DEF Lock, ReadNext, TypeOK, CurrTuple, First, Share
      <4> QED  BY <4>1 DEF HasWritten, Critical, Probing
    <3>2. CASE Allocate(t) \/ TakeTable(t)
      <4>1. pc[t] \in {"allocate", "take"} /\ pc'[t] \in {"allocated", "taken"}
        BY <3>2 DEF Allocate, TakeTable, TypeOK
      <4> QED  BY <4>1 DEF HasWritten, Critical, Probing
    <3>3. CASE ProbeTuple(t) \/ EndProbe(t)
      <4>1. pc[t] \in Probing /\ pc'[t] \in Probing
        BY <3>3 DEF ProbeTuple, EndProbe, TypeOK, Probing
      <4> QED  BY <4>1 DEF HasWritten
    <3> QED  BY <1>10, <3>1, <3>2, <3>3
  <2>3. ~\E u \in Thread : PlaceInHead(u) \/ PlaceInNext(u) \/ PlaceInNew(u)
    <3>1. pc'[t] # "store" \/ pc'[t] = pc[t]
      BY <1>10 DEF Allocate, TakeTable, Lock, ReadNext, ProbeTuple, EndProbe, TypeOK
    <3>2. ASSUME NEW u \in Thread, PlaceInHead(u) \/ PlaceInNext(u) \/ PlaceInNew(u)
          PROVE  pc[u] = "place" /\ pc'[u] = "store"
      <4>1. DOMAIN pc = Thread
        BY DEF TypeOK
      <4> QED  BY <3>2, <4>1 DEF PlaceInHead, PlaceInNext, PlaceInNew
    <3> QED  BY <2>1, <3>1, <3>2
  <2> QED  BY <1>4, <1>6, <2>1, <2>2, <2>3
<1>11. CASE UNCHANGED vars
  <2>1. pc' = pc /\ i' = i /\ slots' = slots
    BY <1>11 DEF vars
  <2>2. Same
    BY <2>1 DEF HasWritten, CurrTuple, First, Share
  <2>3. ~\E u \in Thread : PlaceInHead(u) \/ PlaceInNext(u) \/ PlaceInNew(u)
    BY <2>1 DEF PlaceInHead, PlaceInNext, PlaceInNew, TypeOK
  <2> QED  BY <1>4, <2>1, <2>2, <2>3
<1> QED
  BY <1>1, <1>3, <1>7, <1>8, <1>9, <1>10, <1>11 DEF Next, ThreadStep, Insert, Terminated

-----------------------------------------------------------------------------
\* The chains, the reads, the slots and the tuples, together with the
\* invariants of NPJProofs, hold in every reachable state.
THEOREM BuildInductive == Spec => [](TypeOK /\ PhaseInv /\ LatchExclusion /\ BuildInv)
<1>1. Init => TypeOK /\ PhaseInv /\ LatchExclusion /\ BuildInv
  BY InitType, InitPhase, InitLatch, InitChains, InitReads, InitSlots, InitTuples DEF BuildInv
<1>2. ASSUME TypeOK, PhaseInv, LatchExclusion, BuildInv, [Next]_vars
      PROVE  (TypeOK /\ PhaseInv /\ LatchExclusion /\ BuildInv)'
  <2>1. (TypeOK /\ PhaseInv /\ LatchExclusion)'
    BY <1>2, TypeStep, PhaseStep, LatchStep
  <2>2. (ChainsFillFromTheFront /\ Linkage)'
    BY <1>2, ChainsStep DEF BuildInv
  <2>3. (ReadsAreFresh /\ SlotsFilled /\ EveryTupleOnce)'
    BY <1>2, ReadsStep, SlotsStep, TuplesStep
  <2> QED  BY <2>1, <2>2, <2>3 DEF BuildInv
<1> QED  BY <1>1, <1>2, PTL DEF Spec

\* An insertion may look no further than the first overflow bucket: behind a
\* head every bucket but the first is full, and no bucket is linked twice.
THEOREM ChainsCorrect == Spec => []ChainsFillFromTheFront
<1>1. BuildInv => ChainsFillFromTheFront
  BY DEF BuildInv
<1> QED  BY <1>1, BuildInductive, PTL

\* No interleaving of the threads loses a tuple of R or stores one twice.
THEOREM BuildCorrect == Spec => []EveryTupleOnce
<1>1. BuildInv => EveryTupleOnce
  BY DEF BuildInv
<1> QED  BY <1>1, BuildInductive, PTL
-----------------------------------------------------------------------------
(* The sum of the threads' counters.                                       *)

\* The lengths of the intervals the sums are made of.
LEMMA Interval ==
  ASSUME NEW a \in Nat, NEW c \in Nat
  PROVE  IsFiniteSet(a + 1 .. a + c) /\ Cardinality(a + 1 .. a + c) = c
<1>1. a + 1 \in Int /\ a + c \in Int
  OBVIOUS
<1>2. /\ IsFiniteSet(a + 1 .. a + c)
      /\ Cardinality(a + 1 .. a + c) = IF a + 1 > a + c THEN 0 ELSE (a + c) - (a + 1) + 1
  BY <1>1, FS_Interval
<1> QED  BY <1>2

Units(f) == UNION {{t} \X (1 .. f[t]) : t \in Thread}

LEMMA UnitsFinite ==
  ASSUME NEW f \in [Thread -> Nat]
  PROVE  IsFiniteSet(Units(f)) /\ Total(f) = Cardinality(Units(f)) /\ Total(f) \in Nat
<1> DEFINE parts == {{t} \X (1 .. f[t]) : t \in Thread}
           g == [t \in Thread |-> {t} \X (1 .. f[t])]
<1>1. IsFiniteSet(Thread)
  BY FS_Interval, ConstantsAssumption DEF Thread
<1>2. IsFiniteSet(parts)
  <2>1. g \in Surjection(Thread, parts)
    BY Fun_IsSurj
  <2> QED  BY <1>1, <2>1, FS_Surjection
<1>3. ASSUME NEW part \in parts PROVE IsFiniteSet(part)
  <2>1. PICK t \in Thread : part = {t} \X (1 .. f[t])
    OBVIOUS
  <2>2. IsFiniteSet(0 + 1 .. 0 + f[t])
    BY Interval
  <2>3. 0 + 1 .. 0 + f[t] = 1 .. f[t]
    OBVIOUS
  <2>4. IsFiniteSet({t}) /\ IsFiniteSet(1 .. f[t])
    BY <2>2, <2>3, FS_Singleton
  <2> QED  BY <2>1, <2>4, FS_Product
<1>4. IsFiniteSet(Units(f))
  BY <1>2, <1>3, FS_UNION DEF Units
<1> QED  BY <1>4, FS_CardinalityType DEF Total, Units

\* One thread counts c more.
LEMMA TotalAdd ==
  ASSUME NEW f \in [Thread -> Nat], NEW g \in [Thread -> Nat], NEW t \in Thread, NEW c \in Nat,
         g[t] = f[t] + c, \A u \in Thread : u # t => g[u] = f[u]
  PROVE  Total(g) = Total(f) + c
<1> DEFINE new == {t} \X (f[t] + 1 .. f[t] + c)
<1>1. f[t] \in Nat
  OBVIOUS
<1>2. IsFiniteSet(new) /\ Cardinality(new) = c
  <2>1. IsFiniteSet(f[t] + 1 .. f[t] + c) /\ Cardinality(f[t] + 1 .. f[t] + c) = c
    BY <1>1, Interval
  <2>2. IsFiniteSet({t}) /\ Cardinality({t}) = 1
    BY FS_Singleton
  <2> QED  BY <2>1, <2>2, FS_Product
<1>3. Units(g) = Units(f) \cup new
  <2>1. \A x : x \in Units(g) <=> \E u \in Thread : x \in {u} \X (1 .. g[u])
    BY DEF Units
  <2>2. \A x : x \in Units(f) <=> \E u \in Thread : x \in {u} \X (1 .. f[u])
    BY DEF Units
  <2>3. 1 .. g[t] = (1 .. f[t]) \cup (f[t] + 1 .. f[t] + c)
    BY <1>1
  <2>4. {t} \X (1 .. g[t]) = ({t} \X (1 .. f[t])) \cup new
    BY <2>3
  <2>5. \A u \in Thread : u # t => {u} \X (1 .. g[u]) = {u} \X (1 .. f[u])
    OBVIOUS
  <2> HIDE DEF new
  <2> QED  BY <2>1, <2>2, <2>4, <2>5
<1>4. Units(f) \cap new = {}
  <2> SUFFICES ASSUME NEW x \in Units(f), x \in new PROVE FALSE
    OBVIOUS
  <2>1. PICK u \in Thread : x \in {u} \X (1 .. f[u])
    BY DEF Units
  <2>2. u = t /\ x[2] \in 1 .. f[t] /\ x[2] \in f[t] + 1 .. f[t] + c
    BY <2>1
  <2> QED  BY <1>1, <2>2
<1> HIDE DEF new
<1>5. Cardinality({}) = 0
  BY FS_EmptySet
<1>6. Cardinality(Units(g)) = Cardinality(Units(f)) + c
  <2>1. IsFiniteSet(Units(f)) /\ Cardinality(Units(f)) \in Nat
    BY UnitsFinite
  <2>2. Cardinality(Units(f) \cup new)
          = Cardinality(Units(f)) + Cardinality(new) - Cardinality(Units(f) \cap new)
    BY <1>2, <2>1, FS_Union
  <2> QED  BY <1>2, <1>3, <1>4, <1>5, <2>1, <2>2
<1> QED  BY <1>6, UnitsFinite

\* Nobody has counted anything.
LEMMA TotalZero ==
  ASSUME NEW f \in [Thread -> Nat], \A t \in Thread : f[t] = 0
  PROVE  Total(f) = 0
<1>1. \A t \in Thread : {t} \X (1 .. f[t]) = {}
  OBVIOUS
<1>2. Units(f) = {}
  BY <1>1 DEF Units
<1> QED  BY <1>2, FS_EmptySet DEF Total, Units

-----------------------------------------------------------------------------
(* The pairs of the join.                                                  *)

Matching(j) == {p \in RPos : relR[p] = relS[j]}

LEMMA PairsFinite ==
  /\ IsFiniteSet(RPos) /\ IsFiniteSet(JoinPairs)
  /\ \A X : IsFiniteSet(PairsIn(X)) /\ Cardinality(PairsIn(X)) \in Nat
  /\ \A j : IsFiniteSet(Matching(j)) /\ Cardinality(Matching(j)) \in Nat
<1>1. IsFiniteSet(RPos) /\ IsFiniteSet(SPos)
  BY FS_Interval, ConstantsAssumption DEF RPos, SPos
<1>2. IsFiniteSet(RPos \X SPos)
  BY <1>1, FS_Product
<1>3. IsFiniteSet(JoinPairs)
  <2>1. JoinPairs \in SUBSET (RPos \X SPos)
    BY DEF JoinPairs
  <2> QED  BY <1>2, <2>1, FS_Subset
<1>4. ASSUME NEW X PROVE IsFiniteSet(PairsIn(X)) /\ Cardinality(PairsIn(X)) \in Nat
  <2>1. PairsIn(X) \in SUBSET JoinPairs
    BY DEF PairsIn
  <2> QED  BY <1>3, <2>1, FS_Subset, FS_CardinalityType
<1>5. ASSUME NEW j PROVE IsFiniteSet(Matching(j)) /\ Cardinality(Matching(j)) \in Nat
  <2>1. Matching(j) \in SUBSET RPos
    BY DEF Matching
  <2> QED  BY <1>1, <2>1, FS_Subset, FS_CardinalityType
<1> QED  BY <1>1, <1>3, <1>4, <1>5

LEMMA NoPairs == Cardinality(PairsIn({})) = 0
<1>1. PairsIn({}) = {}
  BY DEF PairsIn
<1> QED  BY <1>1, FS_EmptySet

\* One more position of S adds the tuples of R that match it.
LEMMA PairsAdd ==
  ASSUME NEW X, NEW j \in SPos, j \notin X
  PROVE  Cardinality(PairsIn(X \cup {j})) = Cardinality(PairsIn(X)) + Cardinality(Matching(j))
<1> DEFINE new == Matching(j) \X {j}
<1>1. PairsIn(X \cup {j}) = PairsIn(X) \cup new
  <2>1. \A q \in JoinPairs : q[2] = j => q \in new
    BY DEF JoinPairs, Matching
  <2>2. new \subseteq JoinPairs /\ \A q \in new : q[2] = j
    BY DEF JoinPairs, Matching
  <2> HIDE DEF new
  <2> QED  BY <2>1, <2>2 DEF PairsIn
<1>2. PairsIn(X) \cap new = {}
  BY DEF PairsIn
<1>3. IsFiniteSet(new) /\ Cardinality(new) = Cardinality(Matching(j))
  <2>1. IsFiniteSet({j}) /\ Cardinality({j}) = 1
    BY FS_Singleton
  <2>2. IsFiniteSet(Matching(j)) /\ Cardinality(Matching(j)) \in Nat
    BY PairsFinite
  <2> QED  BY <2>1, <2>2, FS_Product
<1> HIDE DEF new
<1>4. Cardinality(PairsIn(X) \cup new)
        = Cardinality(PairsIn(X)) + Cardinality(new) - Cardinality(PairsIn(X) \cap new)
  BY <1>3, PairsFinite, FS_Union
<1>5. Cardinality(PairsIn(X)) \in Nat /\ Cardinality(Matching(j)) \in Nat
  BY PairsFinite
<1>6. Cardinality(PairsIn(X) \cap new) = 0
  BY <1>2, FS_EmptySet
<1>7. Cardinality(PairsIn(X \cup {j})) = Cardinality(PairsIn(X) \cup new)
  BY <1>1
<1>8. Cardinality(PairsIn(X) \cup new) = Cardinality(PairsIn(X)) + Cardinality(Matching(j))
  BY <1>3, <1>4, <1>5, <1>6
<1> QED  BY <1>7, <1>8

-----------------------------------------------------------------------------
(* The probe of one key.                                                   *)

\* The walk along the chain of a key counts each tuple of R with that key
\* once, when the whole of R has been built in.
LEMMA FoundMatches ==
  ASSUME TypeOK, BuildInv, ~SINGLE_TUPLE_PER_BUCKET,
         \A t \in Thread : pc[t] \in Probing, NEW key \in Key
  PROVE  Found(key) = Cardinality({p \in RPos : relR[p] = key})
<1> DEFINE h == HASH(key)
           D == {d \in Walk(h) \X Slot : d[2] < count[d[1]] /\ KeyAt(d[1], d[2]) = key}
           M == {p \in RPos : relR[p] = key}
           f == [d \in D |-> slots[d]]
<1>1. h \in Heads
  BY HashAssumption
<1>2. Walk(h) \subseteq BucketIds
  BY <1>1, HeadsApart, ChainType DEF Walk
<1>3. \A p \in RPos : \E d \in Walk(HASH(relR[p])) \X Slot :
        PlacesOf(p) = {d} /\ d[2] < count[d[1]]
  <2> SUFFICES ASSUME NEW p \in RPos
               PROVE  \E d \in Walk(HASH(relR[p])) \X Slot :
                        PlacesOf(p) = {d} /\ d[2] < count[d[1]]
    OBVIOUS
  <2>1. PICK t \in Thread : InSlice(NumR, t, p)
    BY SlicesCover, ConstantsAssumption DEF RPos
  <2>2. HasWritten(t, p)
    BY DEF HasWritten
  <2> QED  BY <2>1, <2>2 DEF BuildInv, EveryTupleOnce
<1>4. ASSUME NEW d \in D
      PROVE  d \in BucketIds \X Slot /\ slots[d] \in RPos /\ relR[slots[d]] = key
  <2>1. d \in BucketIds \X Slot /\ d = <<d[1], d[2]>>
    BY <1>2, <1>4
  <2>2. \A t \in Thread : pc[t] # "store"
    BY DEF Probing
  <2>3. slots[d] # NONE
    BY <1>4, <2>1, <2>2 DEF BuildInv, SlotsFilled
  <2>4. slots[d] \in RPos
    BY <2>1, <2>3 DEF TypeOK
  <2>5. KeyAt(d[1], d[2]) = relR[slots[d]]
    BY <2>1, <2>3 DEF KeyAt
  <2> QED  BY <1>4, <2>1, <2>4, <2>5
<1>5. f \in [D -> M]
  BY <1>4
<1>6. ASSUME NEW d \in D, NEW e \in D, f[d] = f[e] PROVE d = e
  <2>1. d \in PlacesOf(slots[d]) /\ e \in PlacesOf(slots[d]) /\ slots[d] \in RPos
    BY <1>4, <1>6 DEF PlacesOf
  <2> QED  BY <1>3, <2>1
<1>7. ASSUME NEW p \in M PROVE \E d \in D : f[d] = p
  <2>1. PICK d \in Walk(h) \X Slot : PlacesOf(p) = {d} /\ d[2] < count[d[1]]
    BY <1>3, <1>7
  <2>2. slots[d] = p /\ p # NONE /\ d = <<d[1], d[2]>>
    BY <2>1, HeadOf DEF PlacesOf
  <2>3. KeyAt(d[1], d[2]) = key
    BY <1>7, <2>2 DEF KeyAt
  <2> QED  BY <2>1, <2>2, <2>3
<1> HIDE DEF D, M, f
<1>8. f \in Surjection(D, M) /\ f \in Injection(D, M)
  BY <1>5, <1>6, <1>7, Fun_IsSurj, Fun_IsInj
<1>9. IsFiniteSet(M)
  <2>1. M \in SUBSET RPos
    BY DEF M
  <2> QED  BY <2>1, PairsFinite, FS_Subset
<1>10. Cardinality(D) = Cardinality(M)
  BY <1>8, <1>9, FS_Injection
<1> QED  BY <1>10 DEF Found, D, M

-----------------------------------------------------------------------------
(* The steps of the probe, seen from the counters.                         *)

Counts == [t \in Thread |-> CountedBy(t)]
Seen == UNION {Counted(t) : t \in Thread}

LEMMA CountsType ==
  ASSUME TypeOK
  PROVE  Counts \in [Thread -> Nat]
BY DEF Counts, CountedBy, TypeOK

\* While one thread is in the probe loop, all of them are.
LEMMA ProbeTogether ==
  ASSUME TypeOK, PhaseInv, NEW t \in Thread, pc[t] \in {"probe", "probeEnd"}
  PROVE  /\ \A u \in Thread : pc[u] \in {"probe", "probeEnd"} /\ run[u] = run[0]
         /\ run[0] = run[t] /\ run[0] \in Nat /\ run[0] < RUN_NUMS
<1>1. 0 \in Thread
  BY ConstantsAssumption DEF Thread
<1>2. \A u \in Thread : Phase(u) = 6 /\ run[u] = run[t]
  <2>1. Phase(t) = 6
    BY DEF Phase, Critical
  <2> QED  BY <2>1 DEF PhaseInv, InStep
<1>3. \A u \in Thread : pc[u] \in {"probe", "probeEnd"}
  BY <1>2 DEF Phase, Critical, TypeOK, ControlStates, Barriers
<1>4. run[t] < RUN_NUMS
  BY DEF PhaseInv, IndexInSlice, IndexOK
<1>5. run[t] \in Nat
  BY DEF TypeOK
<1> QED  BY <1>1, <1>2, <1>3, <1>4, <1>5

\* By then every tuple of R is in the table.
LEMMA AllStored ==
  ASSUME TypeOK, BuildInv, \A t \in Thread : pc[t] \in Probing
  PROVE  StoredPos = RPos
<1> SUFFICES ASSUME NEW p \in RPos PROVE PlacesOf(p) # {}
  BY DEF StoredPos
<1>1. PICK t \in Thread : InSlice(NumR, t, p)
  BY SlicesCover, ConstantsAssumption DEF RPos
<1>2. HasWritten(t, p)
  BY DEF HasWritten
<1> QED  BY <1>1, <1>2 DEF BuildInv, EveryTupleOnce

\* What a thread has counted is a stretch of its slice.
LEMMA CountedInSlice ==
  ASSUME TypeOK, PhaseInv, CountInv, NEW t \in Thread
  PROVE  /\ Counted(t) \subseteq SPos
         /\ \A j \in Counted(t) : j \in Nat /\ InSlice(NumS, t, j)
         /\ First(NumS, t) \in Nat /\ SliceLen(NumS, t) \in Nat
         /\ First(NumS, t) + SliceLen(NumS, t) <= NumS
         /\ NumS \in Nat /\ i[t] \in Nat
<1>1. NumS \in Nat /\ i[t] \in Nat
  BY ConstantsAssumption DEF TypeOK
<1>2. /\ First(NumS, t) \in Nat /\ SliceLen(NumS, t) \in Nat
      /\ First(NumS, t) + SliceLen(NumS, t) <= NumS
  BY <1>1, SliceBounds
<1>3. pc[t] \in {"probe", "probeEnd"} => i[t] <= SliceLen(NumS, t)
  BY <1>2 DEF PhaseInv, IndexInSlice, IndexOK, CountInv
<1>4. ASSUME NEW j \in Counted(t) PROVE j \in Nat /\ InSlice(NumS, t, j) /\ j \in SPos
  <2>1. pc[t] \in {"probe", "probeEnd"} /\ j \in First(NumS, t) .. First(NumS, t) + i[t] - 1
    BY DEF Counted, Stretch
  <2> QED  BY <1>1, <1>2, <1>3, <2>1 DEF InSlice, SPos
<1> QED  BY <1>1, <1>2, <1>4

\* ProbeTuple counts the matches of a position nobody has counted.
LEMMA LookupEffect ==
  ASSUME TypeOK, PhaseInv, BuildInv, CountInv, ~SINGLE_TUPLE_PER_BUCKET,
         NEW t \in Thread, ProbeTuple(t)
  PROVE  \E j \in SPos :
           /\ j \notin Seen /\ Seen' = Seen \cup {j}
           /\ j \notin Stretch(t, i[t]) /\ Stretch(t, i[t] + 1) = Stretch(t, i[t]) \cup {j}
           /\ matches' = [matches EXCEPT ![t] = matches[t] + Cardinality(Matching(j))]
           /\ Total(Counts)' = Total(Counts) + Cardinality(Matching(j))
<1>1. /\ pc[t] = "probe" /\ pc' = pc /\ i[t] < SliceLen(NumS, t)
      /\ i' = [i EXCEPT ![t] = @ + 1]
      /\ matches' = [matches EXCEPT ![t] = matches[t] + Found(relS[First(NumS, t) + i[t]])]
  BY DEF ProbeTuple
<1>2. \A u \in Thread : pc[u] \in {"probe", "probeEnd"}
  BY <1>1, ProbeTogether
<1>3. /\ First(NumS, t) \in Nat /\ SliceLen(NumS, t) \in Nat
      /\ First(NumS, t) + SliceLen(NumS, t) <= NumS /\ NumS \in Nat /\ i[t] \in Nat
  BY CountedInSlice
<1>4. PICK j \in SPos : j = First(NumS, t) + i[t]
  BY <1>1, <1>3 DEF SPos
<1>5. j \in Nat /\ InSlice(NumS, t, j)
  BY <1>1, <1>3, <1>4 DEF InSlice
<1>6. j \notin Stretch(t, i[t]) /\ Stretch(t, i[t] + 1) = Stretch(t, i[t]) \cup {j}
  BY <1>3, <1>4 DEF Stretch
<1>7. /\ Counted(t)' = Counted(t) \cup {j} /\ j \notin Counted(t)
      /\ \A u \in Thread : u # t => Counted(u)' = Counted(u)
  <2>1. Counted(t) = Stretch(t, i[t])
    BY <1>1 DEF Counted
  <2>2. Counted(t)' = Stretch(t, i[t] + 1)
    BY <1>1, <1>3 DEF Counted, Stretch, First, Share, TypeOK
  <2>3. ASSUME NEW u \in Thread, u # t PROVE Counted(u)' = Counted(u)
    <3>1. i'[u] = i[u] /\ pc'[u] = pc[u]
      BY <1>1, <2>3 DEF TypeOK
    <3> QED  BY <3>1 DEF Counted, Stretch, First, Share
  <2> QED  BY <1>6, <2>1, <2>2, <2>3
<1>8. j \notin Seen
  <2> SUFFICES ASSUME NEW u \in Thread, j \in Counted(u) PROVE FALSE
    BY DEF Seen
  <2>1. InSlice(NumS, u, j)
    BY CountedInSlice
  <2>2. u = t
    BY <1>3, <1>5, <2>1, SlicesApart
  <2> QED  BY <1>7, <2>2
<1>9. Seen' = Seen \cup {j}
  <2>1. \A x : x \in Seen' <=> \E u \in Thread : x \in Counted(u)'
    BY DEF Seen
  <2>2. \A x : x \in Seen <=> \E u \in Thread : x \in Counted(u)
    BY DEF Seen
  <2> QED  BY <1>7, <2>1, <2>2
<1>10. Found(relS[First(NumS, t) + i[t]]) = Cardinality(Matching(j))
  <2>1. relS[j] \in Key
    BY DEF TypeOK
  <2>2. \A u \in Thread : pc[u] \in Probing
    BY <1>2 DEF Probing
  <2> QED  BY <1>4, <2>1, <2>2, FoundMatches DEF Matching
<1>11. matches' = [matches EXCEPT ![t] = matches[t] + Cardinality(Matching(j))]
  BY <1>1, <1>10
<1>12. Total(Counts)' = Total(Counts) + Cardinality(Matching(j))
  <2>1. PICK f \in [Thread -> Nat] : f = Counts
    BY CountsType
  <2>2. PICK g \in [Thread -> Nat] : g = Counts'
    <3>1. [Next]_vars
      BY DEF Next, ThreadStep
    <3>2. TypeOK'
      BY <3>1, TypeStep
    <3> QED  BY <3>2 DEF Counts, CountedBy, TypeOK
  <2>3. g[t] = f[t] + Cardinality(Matching(j)) /\ \A u \in Thread : u # t => g[u] = f[u]
    BY <1>1, <1>11, <2>1, <2>2 DEF Counts, CountedBy, TypeOK
  <2>4. Total(g) = Total(f) + Cardinality(Matching(j))
    BY <2>3, TotalAdd, PairsFinite
  <2>5. Total(Counts)' = Total(g)
    BY <2>2 DEF Total
  <2> QED  BY <2>1, <2>4, <2>5
<1> QED  BY <1>6, <1>8, <1>9, <1>11, <1>12

\* The sums agree where the counters do.
LEMMA SameCounts ==
  ASSUME \A t \in Thread : Counted(t)' = Counted(t) /\ CountedBy(t)' = CountedBy(t)
  PROVE  Seen' = Seen /\ Total(Counts)' = Total(Counts)
<1>1. Seen' = Seen
  <2>1. \A x : x \in Seen' <=> \E u \in Thread : x \in Counted(u)'
    BY DEF Seen
  <2>2. \A x : x \in Seen <=> \E u \in Thread : x \in Counted(u)
    BY DEF Seen
  <2> QED  BY <2>1, <2>2
<1>2. Counts' = Counts
  BY DEF Counts
<1>3. Total(Counts)' = Total(Counts)
  BY <1>2 DEF Total
<1> QED  BY <1>1, <1>3

\* The barrier at the end of a repetition: all of S has been counted, and
\* what is reported is what has been counted.
LEMMA EndRunEffect ==
  ASSUME TypeOK, PhaseInv, CountInv, ReleaseBarrier, NEW s \in Thread, pc[s] = "probeEnd"
  PROVE  /\ \A t \in Thread : pc[t] = "probeEnd" /\ run'[t] = run[0] + 1 /\ pc'[t] \in {"probeStart", "done"}
         /\ run[0] \in Nat /\ run[0] < RUN_NUMS
         /\ Seen = SPos /\ Seen' = {}
         /\ Total(num_results) = Total(Counts) /\ Total(Counts)' = 0
         /\ num_results' = num_results
<1>1. \A t \in Thread : /\ pc[t] = "probeEnd" /\ pc'[t] \in {"probeStart", "done"}
                        /\ run'[t] = run[t] + 1
  BY ReleaseInStep DEF ReleaseBarrier, AfterBarrier
<1>2. run[0] \in Nat /\ run[0] < RUN_NUMS /\ \A t \in Thread : run'[t] = run[0] + 1
  BY <1>1, ProbeTogether
<1>3. num_results' = num_results
  BY DEF ReleaseBarrier
<1>4. Seen = SPos
  <2>1. Seen \subseteq SPos
    BY CountedInSlice DEF Seen
  <2>2. ASSUME NEW j \in SPos PROVE j \in Seen
    <3>1. NumS \in Nat /\ j \in Int
      BY ConstantsAssumption DEF SPos
    <3>2. PICK t \in Thread : InSlice(NumS, t, j)
      BY <3>1, SlicesCover DEF SPos
    <3>3. First(NumS, t) \in Nat /\ SliceLen(NumS, t) \in Nat
      BY CountedInSlice
    <3>4. Counted(t) = Stretch(t, SliceLen(NumS, t))
      BY <1>1 DEF Counted, CountInv
    <3>5. j \in Counted(t)
      BY <3>1, <3>2, <3>3, <3>4 DEF InSlice, Stretch
    <3> QED  BY <3>5 DEF Seen
  <2> QED  BY <2>1, <2>2
<1>5. Seen' = {}
  <2>1. \A t \in Thread : Counted(t)' = {}
    BY <1>1 DEF Counted
  <2> QED  BY <2>1 DEF Seen
<1>6. Total(num_results) = Total(Counts)
  <2>1. \A t \in Thread : Counts[t] = num_results[t]
    BY <1>1 DEF Counts, CountedBy, CountInv
  <2>2. Counts = num_results
    BY <2>1 DEF Counts, TypeOK
  <2> QED  BY <2>2
<1>7. Total(Counts)' = 0
  <2> DEFINE zero == [t \in Thread |-> 0]
  <2>1. \A t \in Thread : CountedBy(t)' = 0
    BY <1>1 DEF CountedBy
  <2>2. Counts' = zero
    BY <2>1 DEF Counts
  <2>3. zero \in [Thread -> Nat] /\ \A t \in Thread : zero[t] = 0
    OBVIOUS
  <2> HIDE DEF zero
  <2>4. Total(zero) = 0
    BY <2>3, TotalZero
  <2> QED  BY <2>2, <2>4 DEF Total
<1> QED  BY <1>1, <1>2, <1>3, <1>4, <1>5, <1>6, <1>7

\* No other step changes the counts; a thread that ends a later repetition
\* reports the number it has already reported.
LEMMA QuietEffect ==
  ASSUME TypeOK, PhaseInv, CountInv, [Next]_vars,
         ~\E t \in Thread : ProbeTuple(t),
         ReleaseBarrier => \A t \in Thread : pc[t] # "probeEnd"
  PROVE  /\ Seen' = Seen /\ Total(Counts)' = Total(Counts)
         /\ run' = run
         /\ run[0] > 0 => num_results' = num_results
<1> USE DEF Goto, Critical, input, table, locals, probe
<1>1. CASE ReleaseBarrier
  <2>1. \A t \in Thread : /\ pc[t] \in Barriers /\ pc[t] # "probeEnd" /\ pc'[t] = AfterBarrier(t)
                          /\ pc[t] = "probeStart" => i'[t] = 0 /\ matches'[t] = 0
    BY <1>1, ReleaseInStep DEF ReleaseBarrier, AllArrived
  <2>2. ASSUME NEW t \in Thread PROVE Counted(t)' = Counted(t) /\ CountedBy(t)' = CountedBy(t)
    <3>1. CASE pc[t] = "probeStart"
      <4>1. pc'[t] = "probe"
        BY <2>1, <3>1 DEF AfterBarrier
      <4>2. Counted(t)' = First(NumS, t) .. First(NumS, t) + 0 - 1
        BY <2>1, <3>1, <4>1 DEF Counted, Stretch, First, Share
      <4>3. First(NumS, t) \in Nat
        BY CountedInSlice
      <4>4. Counted(t)' = {}
        BY <4>2, <4>3
      <4> QED  BY <2>1, <3>1, <4>1, <4>4 DEF Counted, CountedBy
    <3>2. CASE pc[t] # "probeStart"
      <4>1. pc[t] \notin {"probe", "probeEnd"} /\ pc'[t] \notin {"probe", "probeEnd"}
        BY <2>1, <3>2 DEF Barriers, AfterBarrier
      <4> QED  BY <4>1 DEF Counted, CountedBy
    <3> QED  BY <3>1, <3>2
  <2>3. run' = run
    BY <1>1, <2>1 DEF ReleaseBarrier, TypeOK
  <2> QED  BY <1>1, <2>2, <2>3, SameCounts DEF ReleaseBarrier
<1>2. ASSUME NEW t \in Thread, EndProbe(t)
      PROVE  /\ Seen' = Seen /\ Total(Counts)' = Total(Counts) /\ run' = run
             /\ run[0] > 0 => num_results' = num_results
  <2>1. /\ pc[t] = "probe" /\ pc' = [pc EXCEPT ![t] = "probeEnd"] /\ i[t] = SliceLen(NumS, t)
        /\ num_results' = [num_results EXCEPT ![t] = matches[t]]
        /\ i' = i /\ matches' = matches /\ run' = run
    BY <1>2 DEF EndProbe
  <2>2. \A u \in Thread : Counted(u)' = Counted(u) /\ CountedBy(u)' = CountedBy(u)
    BY <2>1 DEF Counted, CountedBy, Stretch, First, Share, TypeOK
  <2>3. ASSUME run[0] > 0 PROVE num_results' = num_results
    <3>1. run[t] > 0
      BY <2>1, <2>3, ProbeTogether
    <3>2. num_results[t] = matches[t]
      BY <2>1, <3>1 DEF CountInv
    <3> QED  BY <2>1, <3>2 DEF TypeOK
  <2> QED  BY <2>1, <2>2, <2>3, SameCounts
<1>3. ASSUME run' = run, num_results' = num_results, matches' = matches, i' = i,
             \A t \in Thread : \/ pc'[t] = pc[t]
                               \/ /\ pc[t] \notin {"probe", "probeEnd"}
                                  /\ pc'[t] \notin {"probe", "probeEnd"}
      PROVE  /\ Seen' = Seen /\ Total(Counts)' = Total(Counts) /\ run' = run
             /\ run[0] > 0 => num_results' = num_results
  <2>1. \A u \in Thread : Counted(u)' = Counted(u) /\ CountedBy(u)' = CountedBy(u)
    BY <1>3 DEF Counted, CountedBy, Stretch, First, Share
  <2> QED  BY <1>3, <2>1, SameCounts
<1>4. ASSUME NEW t \in Thread,
             Allocate(t) \/ TakeTable(t) \/ Lock(t) \/ ReadNext(t) \/ Store(t) \/ EndBuild(t)
      PROVE  /\ Seen' = Seen /\ Total(Counts)' = Total(Counts) /\ run' = run
             /\ run[0] > 0 => num_results' = num_results
  <2>1. /\ run' = run /\ num_results' = num_results /\ matches' = matches /\ i' = i
        /\ pc[t] \notin {"probe", "probeEnd"} /\ pc'[t] \notin {"probe", "probeEnd"}
        /\ \A u \in Thread : u # t => pc'[u] = pc[u]
    BY <1>4 DEF Allocate, TakeTable, Lock, ReadNext, Store, EndBuild, TypeOK
  <2> QED  BY <1>3, <2>1
<1>5. ASSUME NEW t \in Thread, PlaceInHead(t) \/ PlaceInNext(t) \/ PlaceInNew(t)
      PROVE  /\ Seen' = Seen /\ Total(Counts)' = Total(Counts) /\ run' = run
             /\ run[0] > 0 => num_results' = num_results
  <2>1. /\ run' = run /\ num_results' = num_results /\ matches' = matches /\ i' = i
        /\ pc[t] \notin {"probe", "probeEnd"} /\ pc'[t] \notin {"probe", "probeEnd"}
        /\ \A u \in Thread : u # t => pc'[u] = pc[u]
    BY <1>5 DEF PlaceInHead, PlaceInNext, PlaceInNew, TypeOK
  <2> QED  BY <1>3, <2>1
<1>6. ASSUME NEW t \in Thread, Unlock(t)
      PROVE  /\ Seen' = Seen /\ Total(Counts)' = Total(Counts) /\ run' = run
             /\ run[0] > 0 => num_results' = num_results
  <2>1. /\ run' = run /\ num_results' = num_results /\ matches' = matches
        /\ pc[t] \notin {"probe", "probeEnd"} /\ pc'[t] \notin {"probe", "probeEnd"}
        /\ \A u \in Thread : u # t => pc'[u] = pc[u] /\ i'[u] = i[u]
    BY <1>6 DEF Unlock, TypeOK
  <2>2. \A u \in Thread : Counted(u)' = Counted(u) /\ CountedBy(u)' = CountedBy(u)
    BY <2>1 DEF Counted, CountedBy, Stretch, First, Share
  <2> QED  BY <2>1, <2>2, SameCounts
<1>7. CASE UNCHANGED vars
  <2>1. run' = run /\ num_results' = num_results /\ matches' = matches /\ i' = i /\ pc' = pc
    BY <1>7 DEF vars
  <2> QED  BY <1>3, <2>1
<1> QED
  BY <1>1, <1>2, <1>4, <1>5, <1>6, <1>7 DEF Next, ThreadStep, Insert, Terminated

-----------------------------------------------------------------------------
(* CountInv and SumInv are inductive.                                      *)

LEMMA InitJoin == Init => JoinInv
<1> SUFFICES ASSUME Init PROVE JoinInv
  OBVIOUS
<1>1. 0 \in Thread
  BY ConstantsAssumption DEF Thread
<1>2. CountInv
  BY DEF Init, CountInv
<1>3. Counts \in [Thread -> Nat] /\ \A t \in Thread : Counts[t] = 0
  BY DEF Init, Counts, CountedBy
<1>4. Seen = {}
  BY DEF Init, Seen, Counted
<1>5. SumInv
  <2>1. Total(Counts) = 0 /\ Cardinality(PairsIn(Seen)) = 0
    BY <1>3, <1>4, TotalZero, NoPairs
  <2>2. ~(run[0] > 0)
    BY <1>1 DEF Init
  <2> QED  BY <2>1, <2>2 DEF SumInv, Counts, Seen
<1> QED  BY <1>2, <1>5 DEF JoinInv

\* The relations are never written.
LEMMA InputKept ==
  ASSUME TypeOK, [Next]_vars
  PROVE  /\ relR' = relR /\ relS' = relS /\ JoinPairs' = JoinPairs
         /\ \A X : PairsIn(X)' = PairsIn(X)
         /\ \A t \in Thread : \A n : Stretch(t, n)' = Stretch(t, n)
<1>1. relR' = relR /\ relS' = relS
  <2> USE DEF input, table, locals, probe
  <2>1. CASE ReleaseBarrier \/ UNCHANGED vars
    BY <2>1 DEF ReleaseBarrier, vars
  <2>2. ASSUME NEW t \in Thread,
               Allocate(t) \/ TakeTable(t) \/ Lock(t) \/ ReadNext(t) \/ Store(t) \/ Unlock(t)
        PROVE  relR' = relR /\ relS' = relS
    BY <2>2 DEF Allocate, TakeTable, Lock, ReadNext, Store, Unlock
  <2>3. ASSUME NEW t \in Thread, PlaceInHead(t) \/ PlaceInNext(t) \/ PlaceInNew(t)
        PROVE  relR' = relR /\ relS' = relS
    BY <2>3 DEF PlaceInHead, PlaceInNext, PlaceInNew
  <2>4. ASSUME NEW t \in Thread, EndBuild(t) \/ ProbeTuple(t) \/ EndProbe(t)
        PROVE  relR' = relR /\ relS' = relS
    BY <2>4 DEF EndBuild, ProbeTuple, EndProbe
  <2> QED  BY <2>1, <2>2, <2>3, <2>4 DEF Next, ThreadStep, Insert, Terminated
<1>2. JoinPairs' = JoinPairs
  BY <1>1 DEF JoinPairs
<1>3. \A X : PairsIn(X)' = PairsIn(X)
  BY <1>2 DEF PairsIn
<1>4. \A t \in Thread : \A n : Stretch(t, n)' = Stretch(t, n)
  BY DEF Stretch, First, Share
<1> QED  BY <1>1, <1>2, <1>3, <1>4

LEMMA CountStep ==
  ASSUME TypeOK, PhaseInv, BuildInv, CountInv, ~SINGLE_TUPLE_PER_BUCKET, [Next]_vars
  PROVE  CountInv'
<1> USE DEF Goto, Critical, input, table, locals, probe
<1> DEFINE Below(t, n) == Cardinality(PairsIn(Stretch(t, n)))
           OK(t) == /\ pc'[t] = "probe" => matches'[t] = Below(t, i'[t])
                    /\ pc'[t] = "probeEnd" => i'[t] = SliceLen(NumS, t) /\ matches'[t] = num_results'[t]
                    /\ pc'[t] = "probeEnd" \/ run'[t] > 0 => num_results'[t] = Below(t, SliceLen(NumS, t))
                    /\ pc'[t] = "done" => run'[t] > 0
<1> SUFFICES ASSUME NEW u \in Thread PROVE OK(u)
  <2>1. \A t \in Thread : SliceLen(NumS, t)' = SliceLen(NumS, t)
    BY DEF SliceLen, Share
  <2> QED  BY <2>1, InputKept DEF CountInv
<1> HIDE DEF Below
<1>1. /\ pc[u] = "probe" => matches[u] = Below(u, i[u])
      /\ pc[u] = "probeEnd" => i[u] = SliceLen(NumS, u) /\ matches[u] = num_results[u]
      /\ pc[u] = "probeEnd" \/ run[u] > 0 => num_results[u] = Below(u, SliceLen(NumS, u))
      /\ pc[u] = "done" => run[u] > 0
  BY DEF CountInv, Below
<1>2. ASSUME run' = run, num_results' = num_results,
             \/ pc'[u] = pc[u] /\ i'[u] = i[u] /\ matches'[u] = matches[u]
             \/ pc'[u] \notin {"probe", "probeEnd", "done"}
      PROVE  OK(u)
  BY <1>1, <1>2
<1>3. CASE ReleaseBarrier
  <2>1. /\ pc[u] \in Barriers /\ pc'[u] = AfterBarrier(u) /\ num_results' = num_results
        /\ run'[u] = IF pc[u] = "probeEnd" THEN run[u] + 1 ELSE run[u]
        /\ pc[u] = "probeStart" => i'[u] = 0 /\ matches'[u] = 0
    BY <1>3 DEF ReleaseBarrier, AllArrived
  <2>2. CASE pc[u] = "probeEnd"
    <3>1. pc'[u] \in {"probeStart", "done"} /\ run'[u] > 0
      BY <2>1, <2>2, <1>3, EndRunEffect
    <3> QED  BY <1>1, <2>1, <2>2, <3>1
  <2>3. CASE pc[u] = "probeStart"
    <3>1. Stretch(u, 0) = {}
      <4>1. First(NumS, u) \in Nat
        BY CountedInSlice
      <4> QED  BY <4>1 DEF Stretch
    <3>2. Below(u, 0) = 0
      BY <3>1, NoPairs DEF Below
    <3>3. pc'[u] = "probe"
      BY <2>1, <2>3 DEF AfterBarrier
    <3> QED  BY <1>1, <2>1, <2>3, <3>2, <3>3
  <2>4. CASE pc[u] \notin {"probeEnd", "probeStart"}
    <3>1. pc'[u] \notin {"probe", "probeEnd", "done"}
      BY <2>1, <2>4 DEF Barriers, AfterBarrier
    <3> QED  BY <1>1, <2>1, <2>4, <3>1
  <2> QED  BY <2>2, <2>3, <2>4
<1>4. ASSUME NEW t \in Thread, ProbeTuple(t) PROVE OK(u)
  <2>1. PICK j \in SPos :
           /\ j \notin Stretch(t, i[t]) /\ Stretch(t, i[t] + 1) = Stretch(t, i[t]) \cup {j}
           /\ matches' = [matches EXCEPT ![t] = matches[t] + Cardinality(Matching(j))]
    BY <1>4, LookupEffect
  <2>2. /\ pc[t] = "probe" /\ pc' = pc /\ i' = [i EXCEPT ![t] = @ + 1]
        /\ run' = run /\ num_results' = num_results
    BY <1>4 DEF ProbeTuple
  <2>3. CASE u # t
    BY <1>2, <2>1, <2>2, <2>3 DEF TypeOK
  <2>4. CASE u = t
    <3>1. Below(t, i[t] + 1) = Below(t, i[t]) + Cardinality(Matching(j))
      BY <2>1, PairsAdd DEF Below
    <3>2. i'[t] = i[t] + 1 /\ matches'[t] = matches[t] + Cardinality(Matching(j))
      BY <2>1, <2>2 DEF TypeOK
    <3> QED  BY <1>1, <2>2, <2>4, <3>1, <3>2
  <2> QED  BY <2>3, <2>4
<1>5. ASSUME NEW t \in Thread, EndProbe(t) PROVE OK(u)
  <2>1. /\ pc[t] = "probe" /\ pc' = [pc EXCEPT ![t] = "probeEnd"] /\ i[t] = SliceLen(NumS, t)
        /\ num_results' = [num_results EXCEPT ![t] = matches[t]]
        /\ i' = i /\ matches' = matches /\ run' = run
    BY <1>5 DEF EndProbe
  <2>2. CASE u # t
    BY <1>1, <2>1, <2>2 DEF TypeOK
  <2>3. CASE u = t
    <3>1. pc'[t] = "probeEnd" /\ num_results'[t] = matches[t]
      BY <2>1 DEF TypeOK
    <3> QED  BY <1>1, <2>1, <2>3, <3>1
  <2> QED  BY <2>2, <2>3
<1>6. ASSUME NEW t \in Thread,
             \/ Allocate(t) \/ TakeTable(t) \/ Lock(t) \/ ReadNext(t)
             \/ Store(t) \/ Unlock(t) \/ EndBuild(t)
      PROVE  OK(u)
  <2>1. /\ run' = run /\ num_results' = num_results /\ matches' = matches
        /\ pc'[t] \notin {"probe", "probeEnd", "done"}
        /\ u # t => pc'[u] = pc[u] /\ i'[u] = i[u]
    BY <1>6 DEF Allocate, TakeTable, Lock, ReadNext, Store, Unlock, EndBuild, TypeOK
  <2> QED  BY <1>2, <2>1
<1>7. ASSUME NEW t \in Thread, PlaceInHead(t) \/ PlaceInNext(t) \/ PlaceInNew(t) PROVE OK(u)
  <2>1. /\ run' = run /\ num_results' = num_results /\ matches' = matches
        /\ pc'[t] \notin {"probe", "probeEnd", "done"}
        /\ u # t => pc'[u] = pc[u] /\ i'[u] = i[u]
    BY <1>7 DEF PlaceInHead, PlaceInNext, PlaceInNew, TypeOK
  <2> QED  BY <1>2, <2>1
<1>8. CASE UNCHANGED vars
  BY <1>2, <1>8 DEF vars
<1> HIDE DEF OK
<1> QED
  BY <1>3, <1>4, <1>5, <1>6, <1>7, <1>8 DEF Next, ThreadStep, Insert, Terminated

LEMMA SumStep ==
  ASSUME TypeOK, PhaseInv, BuildInv, JoinInv, ~SINGLE_TUPLE_PER_BUCKET, [Next]_vars
  PROVE  SumInv'
<1>1. CountInv /\ 0 \in Thread
  BY ConstantsAssumption DEF JoinInv, Thread
<1>2. /\ Total(Counts) = Cardinality(PairsIn(Seen))
      /\ run[0] > 0 => Total(num_results) = Cardinality(JoinPairs)
  BY DEF JoinInv, SumInv, Counts, Seen
<1> SUFFICES /\ Total(Counts)' = Cardinality(PairsIn(Seen'))
             /\ run'[0] > 0 => Total(num_results') = Cardinality(JoinPairs)
  <2>1. Cardinality(PairsIn(Seen))' = Cardinality(PairsIn(Seen'))
    BY InputKept DEF PairsIn
  <2> QED  BY <2>1, InputKept DEF SumInv, Counts, Seen, Total
<1>3. CASE \E t \in Thread : ProbeTuple(t)
  <2>1. PICK t \in Thread : ProbeTuple(t)
    BY <1>3
  <2>2. PICK j \in SPos :
           /\ j \notin Seen /\ Seen' = Seen \cup {j}
           /\ Total(Counts)' = Total(Counts) + Cardinality(Matching(j))
    BY <1>1, <2>1, LookupEffect
  <2>3. Cardinality(PairsIn(Seen')) = Cardinality(PairsIn(Seen)) + Cardinality(Matching(j))
    BY <2>2, PairsAdd
  <2>4. run' = run /\ num_results' = num_results
    BY <2>1 DEF ProbeTuple, probe
  <2> QED  BY <1>2, <2>2, <2>3, <2>4
<1>4. CASE ReleaseBarrier /\ \E s \in Thread : pc[s] = "probeEnd"
  <2>1. /\ Seen = SPos /\ Seen' = {} /\ Total(num_results) = Total(Counts)
        /\ Total(Counts)' = 0 /\ num_results' = num_results
    BY <1>1, <1>4, EndRunEffect
  <2>2. PairsIn(SPos) = JoinPairs
    BY DEF PairsIn, JoinPairs
  <2>3. Cardinality(PairsIn(Seen')) = 0
    BY <2>1, NoPairs
  <2> QED  BY <1>2, <2>1, <2>2, <2>3
<1>5. CASE /\ ~\E t \in Thread : ProbeTuple(t)
           /\ ~(ReleaseBarrier /\ \E s \in Thread : pc[s] = "probeEnd")
  <2>1. /\ Seen' = Seen /\ Total(Counts)' = Total(Counts)
        /\ run' = run
        /\ run[0] > 0 => num_results' = num_results
    BY <1>1, <1>5, QuietEffect
  <2> QED  BY <1>2, <2>1
<1> QED  BY <1>3, <1>4, <1>5

-----------------------------------------------------------------------------
\* The counters and their sums, with the invariants they rest on, hold in
\* every reachable state, when a bucket counts its tuples.
THEOREM JoinInductive ==
  ASSUME ~SINGLE_TUPLE_PER_BUCKET
  PROVE  Spec => [](TypeOK /\ PhaseInv /\ BuildInv /\ JoinInv)
<1> DEFINE Inv == TypeOK /\ PhaseInv /\ LatchExclusion /\ BuildInv
<1>1. Spec => []Inv
  BY BuildInductive
<1>2. Init => JoinInv
  BY InitJoin
<1>3. ASSUME Inv, JoinInv, [Next]_vars PROVE JoinInv'
  BY <1>3, CountStep, SumStep DEF JoinInv
<1>4. Inv => TypeOK /\ PhaseInv /\ BuildInv
  OBVIOUS
<1> HIDE DEF Inv
<1> QED  BY <1>1, <1>2, <1>3, <1>4, PTL DEF Spec

\* The printed join result is the number of pairs with equal keys, for every
\* number of threads and repetitions.
THEOREM ResultCorrect ==
  ASSUME ~SINGLE_TUPLE_PER_BUCKET
  PROVE  Spec => []JoinResult
<1>1. ASSUME TypeOK, JoinInv PROVE JoinResult
  <2> SUFFICES ASSUME \A t \in Thread : pc[t] = "done"
               PROVE  Total(num_results) = Cardinality(JoinPairs)
    BY DEF JoinResult
  <2>1. 0 \in Thread
    BY ConstantsAssumption DEF Thread
  <2>2. run[0] > 0
    BY <1>1, <2>1 DEF JoinInv, CountInv
  <2> QED  BY <1>1, <2>2 DEF JoinInv, SumInv
<1> QED  BY <1>1, JoinInductive, PTL

-----------------------------------------------------------------------------
(* The refinement of HashJoin.                                             *)

\* Only Store changes what is stored.
LEMMA StoredKept ==
  ASSUME slots' = slots
  PROVE  StoredPos' = StoredPos
BY DEF StoredPos, PlacesOf

\* Store puts in one tuple that was not there.
LEMMA StoreInserts ==
  ASSUME TypeOK, PhaseInv, BuildInv, NEW t \in Thread, Store(t)
  PROVE  \E p \in RPos : p \notin StoredPos /\ StoredPos' = StoredPos \cup {p}
<1>1. PICK q \in RPos : q = CurrTuple(t)
  BY CurrInTable DEF Store, Goto, PhaseInv, IndexInSlice, IndexOK, Critical
<1>2. pc[t] = "store" /\ slots' = [slots EXCEPT ![dest[t]] = q]
  BY <1>1 DEF Store, Goto
<1>3. dest[t] \in BucketIds \X Slot /\ slots[dest[t]] = NONE
  BY <1>2, DestIsFree
<1>4. \A p \in RPos : p # q => PlacesOf(p)' = PlacesOf(p)
  <2>1. \A p \in RPos : p # NONE
    BY HeadOf
  <2> QED  BY <1>2, <1>3, <2>1 DEF PlacesOf, TypeOK
<1>5. dest[t] \in PlacesOf(q)'
  BY <1>2, <1>3 DEF PlacesOf, TypeOK
<1>6. q \notin StoredPos
  <2>1. ~HasWritten(t, q)
    <3>1. q \in Int
      BY ConstantsAssumption DEF RPos
    <3> QED  BY <1>1, <1>2, <3>1 DEF HasWritten, Critical, Probing
  <2>2. InSlice(NumR, t, q)
    <3>1. NumR \in Nat /\ i[t] \in Nat
      BY ConstantsAssumption DEF TypeOK
    <3>2. First(NumR, t) \in Nat /\ SliceLen(NumR, t) \in Nat
      BY <3>1, SliceBounds
    <3>3. i[t] < SliceLen(NumR, t)
      BY <1>2 DEF PhaseInv, IndexInSlice, IndexOK, Critical
    <3> QED  BY <1>1, <3>1, <3>2, <3>3 DEF CurrTuple, InSlice
  <2> QED  BY <2>1, <2>2 DEF StoredPos, BuildInv, EveryTupleOnce
<1>7. StoredPos' = StoredPos \cup {q}
  BY <1>4, <1>5 DEF StoredPos
<1> QED  BY <1>6, <1>7

\* Any step other than Store writes no slot.
LEMMA SlotsKept ==
  ASSUME TypeOK, [Next]_vars, ~\E t \in Thread : Store(t)
  PROVE  slots' = slots
<1> USE DEF input, table, locals, probe
<1>1. CASE ReleaseBarrier \/ UNCHANGED vars
  BY <1>1 DEF ReleaseBarrier, vars
<1>2. ASSUME NEW t \in Thread,
             Allocate(t) \/ TakeTable(t) \/ Lock(t) \/ ReadNext(t) \/ Unlock(t)
      PROVE  slots' = slots
  BY <1>2 DEF Allocate, TakeTable, Lock, ReadNext, Unlock
<1>3. ASSUME NEW t \in Thread, PlaceInHead(t) \/ PlaceInNext(t) \/ PlaceInNew(t)
      PROVE  slots' = slots
  BY <1>3 DEF PlaceInHead, PlaceInNext, PlaceInNew
<1>4. ASSUME NEW t \in Thread, EndBuild(t) \/ ProbeTuple(t) \/ EndProbe(t)
      PROVE  slots' = slots
  BY <1>4 DEF EndBuild, ProbeTuple, EndProbe
<1> QED  BY <1>1, <1>2, <1>3, <1>4 DEF Next, ThreadStep, Insert, Terminated

\* HashJoin counts with the same Cardinality.
LEMMA SameCardinality ==
  ASSUME NEW S
  PROVE  Promise!Cardinality(S) = Cardinality(S)
BY DEF Cardinality, Promise!Cardinality

\* The threads implement the sequential join.
THEOREM RefinementCorrect ==
  ASSUME ~SINGLE_TUPLE_PER_BUCKET
  PROVE  Spec => ImplementsHashJoin
<1> DEFINE Inv == TypeOK /\ PhaseInv /\ BuildInv /\ JoinInv
           result == IF run[0] = 0 THEN -1 ELSE Total(num_results)
<1>1. Init => Promise!Init
  <2> SUFFICES ASSUME Init PROVE Promise!Init
    OBVIOUS
  <2>1. StoredPos = {}
    <3>1. \A p \in RPos : p # NONE
      BY InitType, HeadOf
    <3> QED  BY <3>1 DEF Init, StoredPos, PlacesOf
  <2>2. Seen = {}
    BY DEF Init, Seen, Counted
  <2>3. Total(Counts) = 0
    <3>1. Counts \in [Thread -> Nat] /\ \A t \in Thread : Counts[t] = 0
      BY DEF Init, Counts, CountedBy
    <3> QED  BY <3>1, TotalZero
  <2>4. run[0] = 0
    BY ConstantsAssumption DEF Init, Thread
  <2>5. relR \in [0 .. NumR - 1 -> Key] /\ relS \in [0 .. NumS - 1 -> Key]
    BY DEF Init, RPos, SPos
  <2> QED
    BY <2>1, <2>2, <2>3, <2>4, <2>5
       DEF Promise!Init, Promise!RPos, Promise!SPos, Promise!NotYet, Seen, Counts
<1>2. Inv /\ [Next]_vars => [Promise!Next]_(Promise!vars)
  <2> SUFFICES ASSUME Inv, [Next]_vars PROVE [Promise!Next]_(Promise!vars)
    OBVIOUS
  <2>1. TypeOK /\ PhaseInv /\ BuildInv /\ CountInv /\ 0 \in Thread
    BY ConstantsAssumption DEF JoinInv, Thread
  <2>2. relR' = relR /\ relS' = relS
    BY <2>1, InputKept
  <2>3. ASSUME NEW t \in Thread, Store(t) PROVE \E p \in Promise!RPos : Promise!Insert(p)
    <3>1. PICK p \in RPos : p \notin StoredPos /\ StoredPos' = StoredPos \cup {p}
      BY <2>1, <2>3, StoreInserts
    <3>2. pc[t] = "store" /\ num_results' = num_results
      BY <2>3 DEF Store, Goto, probe
    <3>3. ~(\E u \in Thread : ProbeTuple(u)) /\ ~ReleaseBarrier
      <4>1. slots' # slots
        <5>1. StoredPos' # StoredPos
          BY <3>1
        <5> QED  BY <5>1, StoredKept
      <4> QED  BY <4>1 DEF ProbeTuple, ReleaseBarrier, table
    <3>4. Seen' = Seen /\ Total(Counts)' = Total(Counts) /\ run' = run
      BY <2>1, <3>3, QuietEffect
    <3>5. result' = result
      BY <3>2, <3>4 DEF Total
    <3>6. Promise!Insert(p)
      BY <2>2, <3>1, <3>4, <3>5 DEF Promise!Insert, Seen, Counts
    <3> QED  BY <3>1, <3>6 DEF Promise!RPos, RPos
  <2>4. ASSUME NEW t \in Thread, ProbeTuple(t) PROVE \E j \in Promise!SPos : Promise!Lookup(j)
    <3>1. PICK j \in SPos : /\ j \notin Seen /\ Seen' = Seen \cup {j}
                            /\ Total(Counts)' = Total(Counts) + Cardinality(Matching(j))
      BY <2>1, <2>4, LookupEffect
    <3>2. /\ pc[t] = "probe" /\ run' = run /\ num_results' = num_results /\ slots' = slots
      BY <2>4 DEF ProbeTuple, probe, table
    <3>3. run[0] < RUN_NUMS /\ \A u \in Thread : pc[u] \in Probing
      BY <2>1, <3>2, ProbeTogether DEF Probing
    <3>4. StoredPos = RPos /\ StoredPos' = StoredPos
      BY <2>1, <3>2, <3>3, AllStored, StoredKept
    <3>5. result' = result
      BY <3>2 DEF Total
    <3>6. Matching(j) = Promise!Matching(j) /\ RPos = Promise!RPos
      BY DEF Matching, Promise!Matching, RPos, Promise!RPos
    <3>7. Total(Counts)' = Total(Counts) + Promise!Cardinality(Promise!Matching(j))
      BY <3>1, <3>6, SameCardinality
    <3>8. StoredPos = Promise!RPos
      BY <3>4, <3>6
    <3>9. Promise!Lookup(j)
      BY <2>2, <3>1, <3>2, <3>3, <3>4, <3>5, <3>7, <3>8 DEF Promise!Lookup, Seen, Counts
    <3> QED  BY <3>1, <3>9 DEF Promise!SPos, SPos
  <2>5. ASSUME ReleaseBarrier, NEW s \in Thread, pc[s] = "probeEnd" PROVE Promise!EndRun
    <3>1. /\ \A t \in Thread : pc[t] = "probeEnd" /\ run'[t] = run[0] + 1
          /\ run[0] \in Nat /\ run[0] < RUN_NUMS
          /\ Seen = SPos /\ Seen' = {}
          /\ Total(num_results) = Total(Counts) /\ Total(Counts)' = 0
          /\ num_results' = num_results
      BY <2>1, <2>5, EndRunEffect
    <3>2. StoredPos = RPos /\ StoredPos' = StoredPos
      <4>1. slots' = slots
        BY <2>5 DEF ReleaseBarrier, table
      <4> QED  BY <2>1, <3>1, <4>1, AllStored, StoredKept DEF Probing
    <3>3. run'[0] = run[0] + 1 /\ result' = Total(Counts)
      <4>1. Total(num_results)' = Total(num_results)
        BY <3>1 DEF Total
      <4> QED  BY <2>1, <3>1, <4>1
    <3> QED
      BY <2>2, <3>1, <3>2, <3>3
         DEF Promise!EndRun, Promise!RPos, Promise!SPos, RPos, SPos, Seen, Counts
  <2>6. CASE /\ ~\E t \in Thread : Store(t)
             /\ ~\E t \in Thread : ProbeTuple(t)
             /\ ~(ReleaseBarrier /\ \E s \in Thread : pc[s] = "probeEnd")
    <3>1. /\ Seen' = Seen /\ Total(Counts)' = Total(Counts)
          /\ run' = run
          /\ run[0] > 0 => num_results' = num_results
      BY <2>1, <2>6, QuietEffect
    <3>2. StoredPos' = StoredPos
      BY <2>1, <2>6, SlotsKept, StoredKept
    <3>3. result' = result
      <4>1. run[0] \in Nat
        BY <2>1 DEF TypeOK
      <4> QED  BY <3>1, <4>1 DEF Total
    <3> QED  BY <2>2, <3>1, <3>2, <3>3 DEF Promise!vars, Seen, Counts
  <2> QED  BY <2>3, <2>4, <2>5, <2>6 DEF Promise!Next
<1>3. Spec => []Inv
  BY JoinInductive
<1> HIDE DEF Inv
<1> QED  BY <1>1, <1>2, <1>3, PTL DEF Spec, ImplementsHashJoin, Promise!Spec
=============================================================================
