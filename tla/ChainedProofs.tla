----------------------------- MODULE ChainedProofs --------------------------
(***************************************************************************)
(* Proofs about ChainedTable for every hash function, list, bucket size,   *)
(* over-allocation and segment of the tape.  They are about the tables     *)
(* that reduce their index modulo the size of the directory: the index of  *)
(* KapilChainedModelHashTable is whatever the model answers.               *)
(***************************************************************************)
EXTENDS ChainedProperties, BulkLoadProofs

-----------------------------------------------------------------------------
(* The buckets of a list.                                                  *)

LEMMA BucketList ==
  ASSUME TypeOK, NEW d \in Directory
  PROVE  /\ chain[d] \in Seq(TapeBuckets) /\ Len(chain[d]) \in Nat
         /\ DOMAIN chain[d] = 1 .. Len(chain[d])
         /\ Len(Buckets(d)) = Len(chain[d]) + 1
         /\ Buckets(d)[1] = DirBucket(d)
         /\ \A n \in 1 .. Len(chain[d]) : Buckets(d)[n + 1] = chain[d][n]
<1>1. chain[d] \in Seq(TapeBuckets)
  BY DEF TypeOK
<1>2. /\ Len(chain[d]) \in Nat /\ DOMAIN chain[d] = 1 .. Len(chain[d])
      /\ chain[d] \in [1 .. Len(chain[d]) -> TapeBuckets]
  BY <1>1, LenProperties
<1> DEFINE S == TapeBuckets \union {DirBucket(d)}
           s == <<DirBucket(d)>>
           c == chain[d]
<1>3. s \in Seq(S) /\ Len(s) = 1 /\ s[1] = DirBucket(d)
  OBVIOUS
<1>4. c \in Seq(S)
  BY <1>2, SeqDef
<1>5. /\ Len(s \o c) = Len(s) + Len(c)
      /\ \A n \in 1 .. Len(s) + Len(c) :
           (s \o c)[n] = IF n <= Len(s) THEN s[n] ELSE c[n - Len(s)]
  <2> HIDE DEF s, c, S
  <2> QED  BY <1>3, <1>4, ConcatProperties
<1>6. Buckets(d) = s \o c
  BY DEF Buckets
<1> HIDE DEF s, c
<1>7. Len(c) \in Nat
  BY <1>2 DEF c
<1>8. Len(Buckets(d)) = Len(c) + 1 /\ Buckets(d)[1] = DirBucket(d)
  BY <1>3, <1>5, <1>6, <1>7
<1>9. \A n \in 1 .. Len(c) : Buckets(d)[n + 1] = c[n]
  <2> SUFFICES ASSUME NEW n \in 1 .. Len(c) PROVE Buckets(d)[n + 1] = c[n]
    OBVIOUS
  <2>1. n + 1 \in 1 .. Len(s) + Len(c) /\ ~(n + 1 <= Len(s)) /\ (n + 1) - Len(s) = n
    BY <1>3, <1>7
  <2> QED  BY <1>5, <1>6, <2>1
<1> QED
  BY <1>1, <1>2, <1>8, <1>9 DEF c

\* The buckets of the lists are the buckets in use.
LEMMA BucketsOfLists ==
  ASSUME TypeOK
  PROVE  /\ \A d \in Directory : \A n \in 1 .. Len(Buckets(d)) : Buckets(d)[n] \in BucketsInUse
         /\ \A b \in BucketsInUse :
              \E d \in Directory : \E n \in 1 .. Len(Buckets(d)) : b = Buckets(d)[n]
<1>1. ASSUME NEW d \in Directory, NEW n \in 1 .. Len(Buckets(d))
      PROVE  Buckets(d)[n] \in BucketsInUse
  <2>1. CASE n = 1
    BY <2>1, BucketList DEF BucketsInUse
  <2>2. CASE n # 1
    <3>1. n - 1 \in 1 .. Len(chain[d]) /\ (n - 1) + 1 = n
      BY <2>2, BucketList
    <3>2. Buckets(d)[n] = chain[d][n - 1] /\ n - 1 \in DOMAIN chain[d]
      BY <3>1, BucketList
    <3> QED  BY <3>2 DEF BucketsInUse
  <2> QED  BY <2>1, <2>2
<1>2. ASSUME NEW b \in BucketsInUse
      PROVE  \E d \in Directory : \E n \in 1 .. Len(Buckets(d)) : b = Buckets(d)[n]
  <2>1. CASE \E d \in Directory : b = DirBucket(d)
    <3>1. PICK d \in Directory : b = DirBucket(d)
      BY <2>1
    <3>2. 1 \in 1 .. Len(Buckets(d)) /\ b = Buckets(d)[1]
      BY <3>1, BucketList
    <3> QED  BY <3>2
  <2>2. CASE \E d \in Directory : \E n \in DOMAIN chain[d] : b = chain[d][n]
    <3>1. PICK d \in Directory : \E n \in DOMAIN chain[d] : b = chain[d][n]
      BY <2>2
    <3>2. PICK n \in DOMAIN chain[d] : b = chain[d][n]
      BY <3>1
    <3>3. n \in 1 .. Len(chain[d]) /\ n + 1 \in 1 .. Len(Buckets(d))
      BY BucketList
    <3>4. b = Buckets(d)[n + 1]
      BY <3>2, <3>3, BucketList
    <3> QED  BY <3>3, <3>4
  <2> QED  BY <2>1, <2>2 DEF BucketsInUse
<1> QED
  BY <1>1, <1>2

\* No bucket is in two lists, or twice in one.
LEMMA BucketsApart ==
  ASSUME TypeOK, ListsFillFromTheFront,
         NEW d \in Directory, NEW e \in Directory,
         NEW m \in 1 .. Len(Buckets(d)), NEW n \in 1 .. Len(Buckets(e)),
         Buckets(d)[m] = Buckets(e)[n]
  PROVE  d = e /\ m = n
<1>1. ASSUME NEW c \in Directory, NEW q \in 1 .. Len(Buckets(c)), q # 1
      PROVE  /\ q - 1 \in DOMAIN chain[c] /\ Buckets(c)[q] = chain[c][q - 1]
             /\ \A f \in Directory : Buckets(c)[q] # DirBucket(f)
  <2>1. q - 1 \in 1 .. Len(chain[c]) /\ (q - 1) + 1 = q
    BY <1>1, BucketList
  <2>2. q - 1 \in DOMAIN chain[c] /\ Buckets(c)[q] = chain[c][q - 1]
    BY <2>1, BucketList
  <2>3. chain[c][q - 1] \in TapeBuckets
    BY <2>1, BucketList, ElementOfSeq
  <2>4. \A b \in TapeBuckets : b[1] \in 1 .. tape.segments
    BY DEF TapeBuckets
  <2>5. \A f \in Directory : DirBucket(f)[1] = 0
    BY DEF DirBucket
  <2> QED  BY <2>2, <2>3, <2>4, <2>5
<1>2. CASE m = 1 /\ n = 1
  <2>1. DirBucket(d) = DirBucket(e)
    BY <1>2, BucketList
  <2>2. <<0, d>> = <<0, e>>
    BY <2>1 DEF DirBucket
  <2> QED  BY <1>2, <2>2
<1>3. CASE (m = 1 /\ n # 1) \/ (m # 1 /\ n = 1)
  BY <1>1, <1>3, BucketList
<1>4. CASE m # 1 /\ n # 1
  <2>1. /\ m - 1 \in DOMAIN chain[d] /\ n - 1 \in DOMAIN chain[e]
        /\ chain[d][m - 1] = chain[e][n - 1]
    BY <1>1, <1>4
  <2>2. d = e /\ m - 1 = n - 1
    BY <2>1 DEF ListsFillFromTheFront
  <2> QED  BY <2>2, BucketList
<1> QED
  BY <1>2, <1>3, <1>4

\* A place of a list is a slot of a bucket in use.
LEMMA PlaceType ==
  ASSUME TypeOK, NEW d \in Directory, NEW p \in Places(d)
  PROVE  /\ p[1] \in 1 .. Len(Buckets(d)) /\ p[1] \in Nat /\ p[2] \in Slot /\ p[2] \in Nat
         /\ p = <<p[1], p[2]>>
         /\ <<Buckets(d)[p[1]], p[2]>> \in DOMAIN keys
         /\ KeyAt(d, p) \in Key \union {Sentinel}
<1>1. p[1] \in 1 .. Len(Buckets(d)) /\ p[2] \in Slot /\ p = <<p[1], p[2]>>
  BY DEF Places
<1>2. p[1] \in Nat /\ p[2] \in Nat
  BY <1>1, BucketList, BulkLoadAssumption DEF Slot
<1>3. <<Buckets(d)[p[1]], p[2]>> \in BucketsInUse \X Slot
  BY <1>1, BucketsOfLists
<1> QED
  BY <1>1, <1>2, <1>3 DEF TypeOK, KeyAt

LEMMA SlotNat == Slot \subseteq Nat /\ 0 \in Slot
BY BulkLoadAssumption DEF Slot

\* Walking order is a strict order of the places of a list.
LEMMA BeforeIsStrict ==
  ASSUME TypeOK, NEW d \in Directory, NEW p \in Places(d), NEW q \in Places(d), Before(p, q)
  PROVE  ~Before(q, p)
<1>1. p[1] \in Nat /\ p[2] \in Nat /\ q[1] \in Nat /\ q[2] \in Nat
  BY PlaceType
<1> QED
  BY <1>1 DEF Before

LEMMA IndexInDirectory ==
  ASSUME LoopInv, ~ModelIndex, Size > 0, NEW k \in Key
  PROVE  InsertIndex(k) \in Directory /\ LookupIndex(k) = InsertIndex(k)
<1> DEFINE z == Size
           h == HASH(k)
<1>1. z \in Nat \ {0} /\ h \in Nat
  BY ListType, ChainedAssumption
<1>2. h % z \in 0 .. z - 1
  <2> HIDE DEF z, h
  <2> QED  BY <1>1, Z3
<1> QED
  BY <1>2 DEF InsertIndex, LookupIndex, Directory

-----------------------------------------------------------------------------
(* An insertion into a free slot.                                          *)

\* What one sees of the lists after a slot was written.
LEMMA WriteSeen ==
  ASSUME TypeOK, ListsFillFromTheFront, NEW d \in Directory, NEW p \in Places(d), NEW c \in Key,
         keys' = [keys EXCEPT ![<<Buckets(d)[p[1]], p[2]>>] = c],
         chain' = chain, Size' = Size
  PROVE  /\ Directory' = Directory
         /\ \A e : Buckets(e)' = Buckets(e) /\ Places(e)' = Places(e)
         /\ KeyAt(d, p)' = c
         /\ \A e \in Directory : \A q \in Places(e) :
              e # d \/ q # p => KeyAt(e, q)' = KeyAt(e, q)
<1>1. /\ Directory' = Directory
      /\ \A e : Buckets(e)' = Buckets(e) /\ Places(e)' = Places(e)
  BY DEF Directory, Buckets, Places, DirBucket, Slot
<1>2. <<Buckets(d)[p[1]], p[2]>> \in DOMAIN keys
  BY PlaceType
<1>3. ASSUME NEW e \in Directory, NEW q \in Places(e)
      PROVE  KeyAt(e, q)' = IF e = d /\ q = p THEN c ELSE KeyAt(e, q)
  <2>1. KeyAt(e, q)' = keys'[<<Buckets(e)[q[1]], q[2]>>]
    BY <1>1 DEF KeyAt
  <2>2. <<Buckets(e)[q[1]], q[2]>> \in DOMAIN keys
    BY PlaceType
  <2>3. CASE e = d /\ q = p
    BY <1>2, <2>1, <2>3
  <2>4. CASE ~(e = d /\ q = p)
    <3>1. <<Buckets(e)[q[1]], q[2]>> # <<Buckets(d)[p[1]], p[2]>>
      <4> SUFFICES ASSUME Buckets(e)[q[1]] = Buckets(d)[p[1]], q[2] = p[2] PROVE FALSE
        OBVIOUS
      <4>1. e = d /\ q[1] = p[1]
        BY PlaceType, BucketsApart
      <4>2. q = <<q[1], q[2]>> /\ p = <<p[1], p[2]>>
        BY PlaceType
      <4> QED  BY <2>4, <4>1, <4>2
    <3> QED  BY <1>2, <2>1, <2>2, <2>4, <3>1 DEF KeyAt
  <2> QED  BY <2>3, <2>4
<1> QED
  BY <1>1, <1>3

LEMMA InsertListInv ==
  ASSUME TypeOK, ListInv, ~ModelIndex, More, Defined, Advance, InsertInList(InsertIndex(Current))
  PROVE  TypeOK' /\ ListInv'
<1> USE DEF ListInv
<1>0. PICK c, d : c = Current /\ d = InsertIndex(Current)
  OBVIOUS
<1>1. c \in Key \ Inserted /\ c # Sentinel /\ d \in Directory
  BY <1>0, CurrentIsNew, IndexInDirectory, BulkLoadAssumption DEF Defined
<1>2. /\ LoopInv' /\ Inserted' = Inserted \union {c}
      /\ Size' = Size /\ status' = status /\ data' = data
  BY <1>0, AdvanceLoop DEF Advance
<1>3. PICK p \in Free(d) :
        /\ FirstFree(d, p)
        /\ keys' = [keys EXCEPT ![<<Buckets(d)[p[1]], p[2]>>] = c]
        /\ chain' = chain /\ tape' = tape
  BY <1>0 DEF InsertInList
<1>4. p \in Places(d) /\ KeyAt(d, p) = Sentinel
  BY DEF Free
<1>5. /\ Directory' = Directory
      /\ \A e : Buckets(e)' = Buckets(e) /\ Places(e)' = Places(e)
      /\ KeyAt(d, p)' = c
      /\ \A e \in Directory : \A q \in Places(e) :
           e # d \/ q # p => KeyAt(e, q)' = KeyAt(e, q)
  BY <1>1, <1>2, <1>3, <1>4, WriteSeen
<1>6. BucketsInUse' = BucketsInUse /\ \A k : InsertIndex(k)' = InsertIndex(k)
  <2>1. BucketsInUse' = BucketsInUse
    BY <1>3, <1>5 DEF BucketsInUse, DirBucket
  <2>2. \A k : InsertIndex(k)' = InsertIndex(k)
    BY <1>2 DEF InsertIndex
  <2> QED  BY <2>1, <2>2
<1>7. TypeOK'
  <2>1. keys' \in [BucketsInUse \X Slot -> Key \union {Sentinel}]
    BY <1>1, <1>3 DEF TypeOK
  <2>2. i' \in 0 .. Len(data)'
    BY <1>2 DEF LoopInv
  <2> QED  BY <1>2, <1>3, <1>5, <1>6, <2>1, <2>2 DEF TypeOK, TapeBuckets
<1>8. ListsFillFromTheFront'
  <2>1. ASSUME NEW e \in Directory, NEW q \in Places(e), NEW r \in Places(e),
               Before(q, r), KeyAt(e, r)' # Sentinel
        PROVE  KeyAt(e, q)' # Sentinel
    <3>1. CASE e = d /\ r = p
      <4>1. q \notin Free(d)
        BY <1>1, <1>3, <2>1, <3>1, BeforeIsStrict DEF FirstFree
      <4>2. KeyAt(d, q) # Sentinel
        BY <2>1, <3>1, <4>1 DEF Free
      <4> QED  BY <1>1, <1>5, <2>1, <3>1, <4>2
    <3>2. CASE ~(e = d /\ r = p)
      <4>1. KeyAt(e, r) # Sentinel
        BY <1>5, <2>1, <3>2
      <4>2. KeyAt(e, q) # Sentinel
        BY <2>1, <4>1 DEF ListsFillFromTheFront
      <4> QED  BY <1>1, <1>5, <2>1, <4>2
    <3> QED  BY <3>1, <3>2
  <2>2. \A e \in Directory : \A q, r \in Places(e) : Before(q, r)' <=> Before(q, r)
    BY DEF Before
  <2> QED  BY <1>3, <1>5, <2>1, <2>2 DEF ListsFillFromTheFront
<1>9. TapeAhead'
  BY <1>3, <1>5 DEF TapeAhead
<1>10. ListsHoldInserted'
  <2>1. ASSUME NEW k \in Inserted PROVE Listed(k)'
    <3>1. k # Sentinel
      BY ElementsAreKeys, BulkLoadAssumption
    <3>2. PICK e \in Directory : e = InsertIndex(k) /\ \E q \in Places(e) : KeyAt(e, q) = k
      BY DEF ListsHoldInserted, Listed
    <3>3. PICK q \in Places(e) : KeyAt(e, q) = k
      BY <3>2
    <3>4. KeyAt(e, q)' = k
      BY <1>4, <1>5, <3>1, <3>3
    <3> QED  BY <1>5, <1>6, <3>2, <3>4 DEF Listed
  <2>2. Listed(c)'
    <3>1. KeyAt(d, p)' = c /\ p \in Places(d)
      BY <1>1, <1>4, <1>5
    <3>2. d = InsertIndex(c)
      BY <1>0
    <3> QED  BY <1>1, <1>5, <1>6, <3>1, <3>2 DEF Listed
  <2>3. \A q \in BucketsInUse \X Slot : keys'[q] \in Inserted \union {c} \union {Sentinel}
    BY <1>3 DEF ListsHoldInserted, TypeOK
  <2> QED  BY <1>2, <1>6, <2>1, <2>2, <2>3 DEF ListsHoldInserted, Slot
<1> QED
  BY <1>2, <1>7, <1>8, <1>9, <1>10

-----------------------------------------------------------------------------
(* An insertion into a new bucket.                                         *)

\* The bucket the tape hands out is an element of a segment, behind those
\* handed out before, and the tape moves on behind it.
LEMMA AllocatedIsNew ==
  ASSUME TypeOK, TapeAhead, tape' = Alloc
  PROVE  /\ Allocated \in (1 .. tape'.segments) \X (0 .. SegmentSize - 1)
         /\ Allocated \notin BucketsInUse
         /\ tape' \in [segments : Nat, index : 0 .. SegmentSize]
         /\ tape.segments <= tape'.segments
         /\ \A b \in TapeBuckets \union {Allocated} :
              \/ b[1] < tape.segments
              \/ b[1] = tape.segments /\ b[2] < tape.index
              \/ b = Allocated
              => b[1] < tape'.segments \/ (b[1] = tape'.segments /\ b[2] < tape'.index)
<1>1. /\ tape \in [segments : Nat, index : 0 .. SegmentSize]
      /\ tape.segments \in Nat /\ tape.index \in 0 .. SegmentSize
      /\ SegmentSize \in Nat \ {0}
  BY ChainedAssumption DEF TypeOK
<1>2. \A b \in TapeBuckets : b[1] \in 1 .. tape.segments /\ b[2] \in 0 .. SegmentSize - 1
  BY DEF TapeBuckets
<1>3. \A d \in Directory : \A n \in DOMAIN chain[d] : chain[d][n] \in TapeBuckets
  BY BucketList, ElementOfSeq
<1>4. ASSUME NEW s \in Nat, NEW x \in Nat, Allocated = <<s, x>>, s # 0,
             \A b \in TapeBuckets :
               ~((b[1] < tape.segments \/ (b[1] = tape.segments /\ b[2] < tape.index))
                   /\ b[1] = s /\ b[2] = x)
      PROVE  Allocated \notin BucketsInUse
  <2>1. \A d \in Directory : Allocated # DirBucket(d)
    BY <1>4 DEF DirBucket
  <2>2. \A d \in Directory : \A n \in DOMAIN chain[d] : Allocated # chain[d][n]
    BY <1>3, <1>4 DEF TapeAhead
  <2> QED  BY <2>1, <2>2 DEF BucketsInUse
<1>5. CASE NeedSegment
  <2>1. Allocated = <<tape.segments + 1, 0>> /\ tape' = [segments |-> tape.segments + 1, index |-> 1]
    BY <1>5 DEF Allocated, Alloc
  <2>2. Allocated \notin BucketsInUse
    BY <1>1, <1>2, <1>4, <2>1
  <2> QED  BY <1>1, <1>2, <2>1, <2>2
<1>6. CASE ~NeedSegment
  <2>1. /\ Allocated = <<tape.segments, tape.index>>
        /\ tape' = [segments |-> tape.segments, index |-> tape.index + 1]
        /\ tape.segments # 0 /\ tape.index # SegmentSize
    BY <1>1, <1>6 DEF Allocated, Alloc, NeedSegment
  <2>2. Allocated \notin BucketsInUse
    BY <1>1, <1>2, <1>4, <2>1
  <2> QED  BY <1>1, <1>2, <2>1, <2>2
<1> QED
  BY <1>5, <1>6

\* BucketList, for the state after a step as well.
Linked(e) ==
  /\ Len(chain[e]) \in Nat /\ DOMAIN chain[e] = 1 .. Len(chain[e])
  /\ Len(Buckets(e)) = Len(chain[e]) + 1
  /\ Buckets(e)[1] = DirBucket(e)
  /\ \A n \in 1 .. Len(chain[e]) : Buckets(e)[n + 1] = chain[e][n]
AllLinked == \A e \in Directory : Linked(e)

LEMMA ListsAreLinked == TypeOK => AllLinked
BY BucketList DEF AllLinked, Linked

LEMMA InsertNewInv ==
  ASSUME TypeOK, ListInv, ~ModelIndex, More, Defined, Advance, InsertInNew(InsertIndex(Current))
  PROVE  TypeOK' /\ ListInv'
<1> USE DEF ListInv
<1>0. PICK c, d, a : c = Current /\ d = InsertIndex(Current) /\ a = Allocated
  OBVIOUS
<1>1. c \in Key \ Inserted /\ c # Sentinel /\ d \in Directory
  BY <1>0, CurrentIsNew, IndexInDirectory, BulkLoadAssumption DEF Defined
<1>2. /\ LoopInv' /\ Inserted' = Inserted \union {c}
      /\ Size' = Size /\ status' = status /\ data' = data
  BY <1>0, AdvanceLoop DEF Advance
<1>3. /\ Free(d) = {}
      /\ tape' = Alloc
      /\ chain' = [chain EXCEPT ![d] = Append(@, a)]
      /\ keys' = [p \in DOMAIN keys \union ({a} \X Slot) |->
                    IF p[1] # a THEN keys[p] ELSE IF p[2] = 0 THEN c ELSE Sentinel]
  BY <1>0 DEF InsertInNew
<1>4. /\ a \in TapeBuckets' /\ a \notin BucketsInUse
      /\ tape' \in [segments : Nat, index : 0 .. SegmentSize]
      /\ TapeBuckets \subseteq TapeBuckets'
      /\ \A b \in TapeBuckets \union {a} :
           \/ b[1] < tape.segments
           \/ b[1] = tape.segments /\ b[2] < tape.index
           \/ b = a
           => b[1] < tape'.segments \/ (b[1] = tape'.segments /\ b[2] < tape'.index)
  <2>1. tape.segments \in Nat /\ tape'.segments \in Nat /\ tape.segments <= tape'.segments
    BY <1>3, AllocatedIsNew DEF TypeOK
  <2> QED  BY <1>0, <1>3, <2>1, AllocatedIsNew DEF TapeBuckets
<1>5. Directory' = Directory /\ \A k : InsertIndex(k)' = InsertIndex(k)
  BY <1>2 DEF Directory, InsertIndex
<1>6. /\ \A e \in Directory : chain[e] \in Seq(TapeBuckets') /\ chain'[e] \in Seq(TapeBuckets')
      /\ chain' \in [Directory -> Seq(TapeBuckets')]
      /\ chain'[d] = Append(chain[d], a)
      /\ \A e \in Directory : e # d => chain'[e] = chain[e]
  <2>1. \A e \in Directory : chain[e] \in Seq(TapeBuckets')
    <3> SUFFICES ASSUME NEW e \in Directory PROVE chain[e] \in Seq(TapeBuckets')
      OBVIOUS
    <3>1. /\ Len(chain[e]) \in Nat /\ chain[e] \in [1 .. Len(chain[e]) -> TapeBuckets]
      BY BucketList, LenProperties
    <3>2. chain[e] \in [1 .. Len(chain[e]) -> TapeBuckets']
      BY <1>4, <3>1
    <3> QED  BY <3>1, <3>2, SeqDef
  <2>2. Append(chain[d], a) \in Seq(TapeBuckets')
    BY <1>1, <1>4, <2>1, AppendProperties
  <2>3. chain \in [Directory -> Seq(TapeBuckets')]
    BY <2>1 DEF TypeOK
  <2> QED  BY <1>1, <1>3, <2>1, <2>2, <2>3
<1>7. /\ Len(chain[d]) \in Nat /\ Len(chain'[d]) = Len(chain[d]) + 1
      /\ DOMAIN chain[d] = 1 .. Len(chain[d]) /\ DOMAIN chain'[d] = 1 .. Len(chain[d]) + 1
      /\ \A n \in DOMAIN chain[d] : chain'[d][n] = chain[d][n]
      /\ chain'[d][Len(chain[d]) + 1] = a
  BY <1>1, <1>4, <1>6, AppendProperties, BucketList, LenProperties
<1>8. \A e \in Directory : \A n \in DOMAIN chain'[e] :
        \/ n \in DOMAIN chain[e] /\ chain'[e][n] = chain[e][n]
        \/ e = d /\ n = Len(chain[d]) + 1 /\ chain'[e][n] = a
  BY <1>1, <1>6, <1>7
<1>9. BucketsInUse' = BucketsInUse \union {a}
  <2>1. ASSUME NEW b \in BucketsInUse PROVE b \in BucketsInUse'
    <3>1. CASE \E e \in Directory : b = DirBucket(e)
      BY <1>5, <3>1 DEF BucketsInUse, DirBucket
    <3>2. CASE \E e \in Directory : \E n \in DOMAIN chain[e] : b = chain[e][n]
      <4>1. PICK e \in Directory : \E n \in DOMAIN chain[e] : b = chain[e][n]
        BY <3>2
      <4>2. \E n \in DOMAIN chain'[e] : b = chain'[e][n]
        <5>1. CASE e = d
          BY <1>7, <4>1, <5>1
        <5>2. CASE e # d
          BY <1>6, <4>1, <5>2
        <5> QED  BY <5>1, <5>2
      <4> QED  BY <1>5, <4>2 DEF BucketsInUse
    <3> QED  BY <3>1, <3>2 DEF BucketsInUse
  <2>2. a \in BucketsInUse'
    <3>1. Len(chain[d]) + 1 \in DOMAIN chain'[d]
      BY <1>7
    <3> QED  BY <1>1, <1>5, <1>7, <3>1 DEF BucketsInUse
  <2>3. ASSUME NEW b \in BucketsInUse' PROVE b \in BucketsInUse \union {a}
    BY <1>1, <1>5, <1>8 DEF BucketsInUse, DirBucket
  <2> QED  BY <2>1, <2>2, <2>3
<1>10. TypeOK'
  <2>1. keys \in [BucketsInUse \X Slot -> Key \union {Sentinel}]
    BY DEF TypeOK
  <2>2. DOMAIN keys \union ({a} \X Slot) = (BucketsInUse \union {a}) \X Slot
    BY <2>1
  <2>3. keys' \in [(BucketsInUse \union {a}) \X Slot -> Key \union {Sentinel}]
    BY <1>1, <1>3, <2>1, <2>2
  <2>4. i' \in 0 .. Len(data)'
    BY <1>2 DEF LoopInv
  <2> QED  BY <1>2, <1>4, <1>5, <1>6, <1>9, <2>3, <2>4 DEF TypeOK, Slot
<1>11. /\ \A e \in Directory : e # d => Buckets(e)' = Buckets(e) /\ Places(e)' = Places(e)
       /\ Len(Buckets(d)) \in Nat \ {0} /\ Len(Buckets(d)') = Len(Buckets(d)) + 1
       /\ \A n \in 1 .. Len(Buckets(d)) : Buckets(d)'[n] = Buckets(d)[n]
       /\ Buckets(d)'[Len(Buckets(d)) + 1] = a
  <2>1. (TypeOK => AllLinked)'
    BY ListsAreLinked, PTL
  <2>2. /\ Len(Buckets(d)') = Len(chain[d]) + 2 /\ Buckets(d)'[1] = DirBucket(d)
        /\ \A n \in 1 .. Len(chain[d]) + 1 : Buckets(d)'[n + 1] = chain'[d][n]
    BY <1>1, <1>5, <1>7, <1>10, <2>1 DEF AllLinked, Linked, DirBucket
  <2>3. /\ Len(Buckets(d)) = Len(chain[d]) + 1 /\ Buckets(d)[1] = DirBucket(d)
        /\ \A n \in 1 .. Len(chain[d]) : Buckets(d)[n + 1] = chain[d][n]
    BY <1>1, BucketList
  <2>4. \A n \in 1 .. Len(Buckets(d)) : Buckets(d)'[n] = Buckets(d)[n]
    <3> SUFFICES ASSUME NEW n \in 1 .. Len(Buckets(d)) PROVE Buckets(d)'[n] = Buckets(d)[n]
      OBVIOUS
    <3>1. CASE n = 1
      BY <2>2, <2>3, <3>1
    <3>2. CASE n # 1
      <4>1. /\ n - 1 \in 1 .. Len(chain[d]) /\ n - 1 \in 1 .. Len(chain[d]) + 1
            /\ (n - 1) + 1 = n
        BY <1>7, <2>3, <3>2
      <4>2. Buckets(d)'[n] = chain'[d][n - 1] /\ Buckets(d)[n] = chain[d][n - 1]
        BY <2>2, <2>3, <4>1
      <4> QED  BY <1>7, <4>1, <4>2
    <3> QED  BY <3>1, <3>2
  <2>5. Buckets(d)'[Len(Buckets(d)) + 1] = a
    BY <1>7, <2>2, <2>3
  <2>6. \A e \in Directory : e # d => Buckets(e)' = Buckets(e) /\ Places(e)' = Places(e)
    BY <1>6 DEF Buckets, Places, DirBucket, Slot
  <2> QED  BY <1>7, <2>2, <2>3, <2>4, <2>5, <2>6
<1>12. \A e \in Directory : \A q \in Places(e) :
         q \in Places(e)' /\ KeyAt(e, q)' = KeyAt(e, q)
  <2> SUFFICES ASSUME NEW e \in Directory, NEW q \in Places(e)
               PROVE  q \in Places(e)' /\ KeyAt(e, q)' = KeyAt(e, q)
    OBVIOUS
  <2>1. /\ q[1] \in 1 .. Len(Buckets(e)) /\ q[2] \in Slot /\ q = <<q[1], q[2]>>
        /\ <<Buckets(e)[q[1]], q[2]>> \in DOMAIN keys
    BY PlaceType
  <2>2. Buckets(e)'[q[1]] = Buckets(e)[q[1]] /\ q \in Places(e)'
    <3>1. CASE e # d
      BY <1>11, <3>1
    <3>2. CASE e = d
      <4>1. q[1] \in 1 .. Len(Buckets(d)')
        BY <1>11, <2>1, <3>2
      <4> QED  BY <1>11, <2>1, <3>2, <4>1 DEF Places, Slot
    <3> QED  BY <3>1, <3>2
  <2>3. KeyAt(e, q)' = keys'[<<Buckets(e)[q[1]], q[2]>>]
    BY <2>2 DEF KeyAt
  <2>4. Buckets(e)[q[1]] # a
    BY <1>4, <2>1, BucketsOfLists
  <2>5. keys'[<<Buckets(e)[q[1]], q[2]>>] = keys[<<Buckets(e)[q[1]], q[2]>>]
    BY <1>3, <2>1, <2>4
  <2> QED  BY <2>2, <2>3, <2>5 DEF KeyAt
<1>13. \A q \in Places(d)' : q \notin Places(d) =>
         /\ q[1] = Len(Buckets(d)) + 1 /\ q[2] \in Slot /\ q = <<q[1], q[2]>>
         /\ q[2] = 0 => KeyAt(d, q)' = c
         /\ q[2] # 0 => KeyAt(d, q)' = Sentinel
  <2> SUFFICES ASSUME NEW q \in Places(d)', q \notin Places(d)
               PROVE  /\ q[1] = Len(Buckets(d)) + 1 /\ q[2] \in Slot /\ q = <<q[1], q[2]>>
                      /\ q[2] = 0 => KeyAt(d, q)' = c
                      /\ q[2] # 0 => KeyAt(d, q)' = Sentinel
    OBVIOUS
  <2>1. q \in (1 .. Len(Buckets(d)')) \X Slot
    BY DEF Places, Slot
  <2>2. q[1] = Len(Buckets(d)) + 1 /\ q[2] \in Slot /\ q = <<q[1], q[2]>>
    BY <1>11, <2>1 DEF Places
  <2>3. KeyAt(d, q)' = keys'[<<a, q[2]>>]
    BY <1>11, <2>2 DEF KeyAt
  <2>4. keys'[<<a, q[2]>>] = IF q[2] = 0 THEN c ELSE Sentinel
    BY <1>3, <2>2
  <2> QED  BY <2>2, <2>3, <2>4
<1>14. ListsFillFromTheFront'
  <2>1. ASSUME NEW e \in Directory, NEW q \in Places(e)', NEW r \in Places(e)',
               Before(q, r), KeyAt(e, r)' # Sentinel
        PROVE  KeyAt(e, q)' # Sentinel
    <3>1. CASE e # d
      <4>1. q \in Places(e) /\ r \in Places(e)
        BY <1>11, <3>1
      <4> QED  BY <1>12, <2>1, <4>1 DEF ListsFillFromTheFront
    <3>2. CASE e = d /\ q \in Places(d)
      <4>1. KeyAt(d, q) # Sentinel
        BY <1>3, <3>2 DEF Free
      <4> QED  BY <1>12, <3>2, <4>1
    <3>3. CASE e = d /\ q \notin Places(d)
      <4>1. q[1] = Len(Buckets(d)) + 1 /\ q[2] \in Nat
        BY <1>13, <3>3, SlotNat
      <4>2. r \notin Places(d)
        <5> SUFFICES ASSUME r \in Places(d) PROVE FALSE
          OBVIOUS
        <5>1. r[1] \in 1 .. Len(Buckets(d))
          BY <1>1, PlaceType
        <5> QED  BY <1>11, <2>1, <4>1, <5>1 DEF Before
      <4>3. r[1] = Len(Buckets(d)) + 1 /\ r[2] \in Nat
        BY <1>13, <3>3, <4>2, SlotNat
      <4>4. r[2] # 0
        BY <1>11, <2>1, <4>1, <4>3 DEF Before
      <4> QED  BY <1>13, <2>1, <3>3, <4>2, <4>4
    <3> QED  BY <3>1, <3>2, <3>3
  <2>2. ASSUME NEW e \in Directory, NEW f \in Directory,
               NEW m \in DOMAIN chain'[e], NEW n \in DOMAIN chain'[f],
               chain'[e][m] = chain'[f][n]
        PROVE  e = f /\ m = n
    <3>1. \A g \in Directory : \A l \in DOMAIN chain[g] : chain[g][l] # a
      BY <1>4 DEF BucketsInUse
    <3> QED  BY <1>8, <2>2, <3>1 DEF ListsFillFromTheFront
  <2>3. \A q, r : Before(q, r)' <=> Before(q, r)
    BY DEF Before
  <2> QED  BY <1>5, <2>1, <2>2, <2>3 DEF ListsFillFromTheFront
<1>15. TapeAhead'
  <2> SUFFICES ASSUME NEW e \in Directory, NEW n \in DOMAIN chain'[e]
               PROVE  \/ chain'[e][n][1] < tape'.segments
                      \/ chain'[e][n][1] = tape'.segments /\ chain'[e][n][2] < tape'.index
    BY <1>5 DEF TapeAhead
  <2>1. CASE n \in DOMAIN chain[e] /\ chain'[e][n] = chain[e][n]
    <3>1. chain[e][n] \in TapeBuckets
      BY <2>1, BucketList, ElementOfSeq
    <3> QED  BY <1>4, <2>1, <3>1 DEF TapeAhead
  <2>2. CASE chain'[e][n] = a
    BY <1>4, <2>2
  <2> QED  BY <1>8, <2>1, <2>2
<1>16. ListsHoldInserted'
  <2>1. ASSUME NEW k \in Inserted PROVE Listed(k)'
    <3>1. PICK e \in Directory : e = InsertIndex(k) /\ \E q \in Places(e) : KeyAt(e, q) = k
      BY DEF ListsHoldInserted, Listed
    <3>2. PICK q \in Places(e) : KeyAt(e, q) = k
      BY <3>1
    <3>3. q \in Places(e)' /\ KeyAt(e, q)' = k
      BY <1>12, <3>2
    <3> QED  BY <1>5, <3>1, <3>3 DEF Listed
  <2>2. Listed(c)'
    <3> DEFINE q == <<Len(Buckets(d)) + 1, 0>>
    <3>1. q \in Places(d)' /\ q \notin Places(d)
      BY <1>11, SlotNat DEF Places, Slot
    <3>2. PICK p : p = q
      OBVIOUS
    <3>3. p \in Places(d)' /\ KeyAt(d, p)' = c
      BY <1>13, <3>1, <3>2
    <3> QED  BY <1>0, <1>1, <1>5, <3>3 DEF Listed
  <2>3. \A q \in (BucketsInUse \union {a}) \X Slot : keys'[q] \in Inserted \union {c} \union {Sentinel}
    BY <1>3 DEF ListsHoldInserted, TypeOK
  <2> QED  BY <1>2, <1>9, <2>1, <2>2, <2>3 DEF ListsHoldInserted, Slot
<1> QED
  BY <1>2, <1>10, <1>14, <1>15, <1>16

-----------------------------------------------------------------------------
(* The theorems.                                                           *)

LEMMA InitInv == Init => TypeOK /\ ListInv
<1> SUFFICES ASSUME Init PROVE TypeOK /\ ListInv
  OBVIOUS
<1>1. LoopInv /\ Inserted = {} /\ status = "first"
  BY InitLoop DEF Init
<1>2. /\ chain = [d \in Directory |-> <<>>]
      /\ keys = [p \in {DirBucket(d) : d \in Directory} \X Slot |-> Sentinel]
      /\ tape = [segments |-> 0, index |-> 0]
  BY DEF Init
<1>3. \A d \in Directory : chain[d] = <<>> /\ DOMAIN chain[d] = {}
  BY <1>2
<1>4. BucketsInUse = {DirBucket(d) : d \in Directory}
  BY <1>3 DEF BucketsInUse
<1>5. TypeOK
  <2>1. chain \in [Directory -> Seq(TapeBuckets)]
    BY <1>2
  <2>2. tape \in [segments : Nat, index : 0 .. SegmentSize]
    BY <1>2, ChainedAssumption
  <2>3. keys \in [BucketsInUse \X Slot -> Key \union {Sentinel}]
    BY <1>2, <1>4
  <2> QED  BY <1>1, <2>1, <2>2, <2>3, ListType DEF TypeOK
<1>6. \A d \in Directory : \A p \in Places(d) : KeyAt(d, p) = Sentinel
  BY <1>2, <1>5, PlaceType DEF KeyAt
<1>7. ListsFillFromTheFront
  BY <1>3, <1>6 DEF ListsFillFromTheFront
<1>8. TapeAhead
  BY <1>3 DEF TapeAhead
<1>9. ListsHoldInserted
  BY <1>1, <1>2, <1>4 DEF ListsHoldInserted
<1> QED
  BY <1>1, <1>5, <1>7, <1>8, <1>9 DEF ListInv

\* A step that leaves the list, the index and the table alone.
LEMMA Unchanged ==
  ASSUME TypeOK, ListInv, LoopInv', UNCHANGED <<data, i, keys, chain, tape>>,
         status' \in {"first", "second", "ready", "crashed"}
  PROVE  TypeOK' /\ ListInv'
<1>1. Inserted' = Inserted /\ Size' = Size /\ Directory' = Directory
  BY DEF Inserted, Directory, Size
<1>2. /\ \A d : Buckets(d)' = Buckets(d) /\ Places(d)' = Places(d)
      /\ \A d, p : KeyAt(d, p)' = KeyAt(d, p)
      /\ \A k : InsertIndex(k)' = InsertIndex(k)
      /\ \A p, q : Before(p, q)' <=> Before(p, q)
  BY <1>1 DEF Buckets, DirBucket, Places, Slot, KeyAt, InsertIndex, Before
<1>3. BucketsInUse' = BucketsInUse /\ TapeBuckets' = TapeBuckets
  BY <1>1 DEF BucketsInUse, DirBucket, TapeBuckets
<1>4. TypeOK'
  BY <1>1, <1>3 DEF TypeOK, Slot
<1>5. ListsFillFromTheFront'
  BY <1>1, <1>2 DEF ListInv, ListsFillFromTheFront
<1>6. TapeAhead'
  BY <1>1 DEF ListInv, TapeAhead
<1>7. ListsHoldInserted'
  BY <1>1, <1>2, <1>3 DEF ListInv, ListsHoldInserted, Listed, Slot
<1> QED
  BY <1>4, <1>5, <1>6, <1>7 DEF ListInv

LEMMA StepInv ==
  ASSUME ~ModelIndex, TypeOK, ListInv, [Next]_vars
  PROVE  TypeOK' /\ ListInv'
<1>1. CASE Insert
  BY <1>1, InsertListInv, InsertNewInv DEF Insert
<1>2. CASE Load
  <2>1. UNCHANGED <<data, i, keys, chain, tape>> /\ LoopInv'
    BY <1>2, NextLoopInserts, QuietLoop DEF ListInv, Load, Finish, Crash
  <2> QED  BY <1>2, <2>1, Unchanged DEF Load, NextLoop, Finish, Crash
<1>3. CASE UNCHANGED vars
  <2>1. UNCHANGED <<data, i, status, keys, chain, tape>>
    BY <1>3 DEF vars, load
  <2>2. LoopInv'
    BY <2>1, QuietLoop DEF ListInv
  <2> QED  BY <2>1, <2>2, Unchanged DEF TypeOK
<1> QED
  BY <1>1, <1>2, <1>3 DEF Next

\* While the constructors of the chained tables run, every list is filled from
\* the front and shares no bucket, and it holds the inserted keys of its own
\* and nothing else.
THEOREM ListsInductive ==
  ASSUME ~ModelIndex
  PROVE  Spec => [](TypeOK /\ ListInv)
<1>1. Init => TypeOK /\ ListInv
  BY InitInv
<1>2. TypeOK /\ ListInv /\ [Next]_vars => (TypeOK /\ ListInv)'
  BY StepInv
<1> QED
  BY <1>1, <1>2, PTL DEF Spec

-----------------------------------------------------------------------------
(* Lookups.                                                                *)

\* A list is filled from the front, so a Sentinel is never before a key.
LEMMA FilledBefore ==
  ASSUME TypeOK, ListInv, NEW d \in Directory, NEW p \in Places(d), NEW k \in Key,
         KeyAt(d, p) = k
  PROVE  /\ Compared(d, p)
         /\ \A q \in Places(d) : Before(q, p) => KeyAt(d, q) # Sentinel
<1>1. KeyAt(d, p) # Sentinel
  BY BulkLoadAssumption
<1>2. \A q \in Places(d) : Before(q, p) => KeyAt(d, q) # Sentinel
  BY <1>1 DEF ListInv, ListsFillFromTheFront
<1>3. ASSUME NEW s \in 0 .. p[2] PROVE KeyAt(d, <<p[1], s>>) # Sentinel
  <2>1. /\ p[1] \in 1 .. Len(Buckets(d)) /\ p[1] \in Nat /\ p[2] \in Slot
        /\ p[2] \in Nat /\ p = <<p[1], p[2]>>
    BY PlaceType
  <2>2. CASE s = p[2]
    BY <1>1, <2>1, <2>2
  <2>3. CASE s < p[2]
    <3>1. s \in Slot
      BY <2>1, <2>3, BulkLoadAssumption DEF Slot
    <3>2. <<p[1], s>> \in Places(d) /\ Before(<<p[1], s>>, p)
      BY <2>1, <2>3, <3>1 DEF Places, Before
    <3> QED  BY <1>2, <3>2
  <2> QED  BY <2>1, <2>2, <2>3
<1> QED
  BY <1>2, <1>3 DEF Compared

\* operator[] finds the inserted keys, with and without the early return.
LEMMA LookupIsMembership ==
  ASSUME ~ModelIndex, TypeOK, ListInv, Size > 0, NEW k \in Key
  PROVE  (Lookup(k) <=> k \in Inserted) /\ (ExoticLookup(k) <=> k \in Inserted)
<1>1. PICK d \in Directory : d = InsertIndex(k) /\ d = LookupIndex(k)
  BY IndexInDirectory DEF ListInv
<1>2. ASSUME k \in Inserted PROVE Lookup(k) /\ ExoticLookup(k)
  <2>1. PICK p \in Places(d) : KeyAt(d, p) = k
    BY <1>1, <1>2 DEF ListInv, ListsHoldInserted, Listed
  <2>2. /\ Compared(d, p)
        /\ \A q \in Places(d) : Before(q, p) => KeyAt(d, q) # Sentinel
    BY <2>1, FilledBefore
  <2> QED  BY <1>1, <2>1, <2>2 DEF Lookup, ExoticLookup
<1>3. ASSUME NEW p \in Places(d), KeyAt(d, p) = k PROVE k \in Inserted
  <2>1. <<Buckets(d)[p[1]], p[2]>> \in BucketsInUse \X Slot
    BY PlaceType DEF TypeOK
  <2> QED  BY <1>3, <2>1, BulkLoadAssumption DEF ListInv, ListsHoldInserted, KeyAt
<1> QED
  BY <1>1, <1>2, <1>3 DEF Lookup, ExoticLookup

\* While lists grow by buckets of one tape, each stays of its type, filled
\* from the front and apart from the others, and the early return of the
\* exotic table misses nothing.
THEOREM ChainsCorrect ==
  ASSUME ~ModelIndex, Directories
  PROVE  Spec => []ChainInv
<1>1. TypeOK /\ ListInv => ChainInv
  <2> SUFFICES ASSUME TypeOK, ListInv PROVE EarlyReturnMissesNothing
    BY DEF ChainInv, ListInv
  <2>1. Size > 0
    BY DEF ListInv, LoopInv, Directories, Size
  <2> QED  BY <2>1, LookupIsMembership DEF EarlyReturnMissesNothing
<1> QED
  BY <1>1, ListsInductive, PTL

\* The constructors of the chained tables read no element outside of their
\* list, unless it is shorter than insert_count, when the unsigned difference
\* that bounds the first loop wraps.
THEOREM ReadsCorrect ==
  ASSUME ~ModelIndex, Directories
  PROVE  Spec => []NoUndefinedRead
<1>1. Init => NoUndefinedRead
  BY DEF Init, InitLoad, NoUndefinedRead
<1>2. TypeOK /\ ListInv /\ NoUndefinedRead /\ [Next]_vars => NoUndefinedRead'
  <2> SUFFICES ASSUME TypeOK, ListInv, NoUndefinedRead, [Next]_vars, status' = "crashed"
               PROVE  Len(data') < insert_count
    BY DEF NoUndefinedRead
  <2>1. Size > 0
    BY DEF ListInv, LoopInv, Directories, Size
  <2>2. CASE Load /\ Crash
    BY <2>1, <2>2, CrashIsWrap DEF ListInv, Crash
  <2>3. CASE UNCHANGED vars
    BY <2>3 DEF vars, load, NoUndefinedRead
  <2>4. CASE Insert \/ (Load /\ (NextLoop \/ Finish))
    BY <2>4 DEF Insert, Advance, More, NextLoop, Finish
  <2> QED  BY <2>2, <2>3, <2>4 DEF Next, Load
<1> QED
  BY <1>1, <1>2, ListsInductive, PTL DEF Spec

-----------------------------------------------------------------------------
(* The refinement of LookupTable.                                          *)

\* The chained tables are the promised lookup table: each insertion adds its
\* key to those found and takes none away, and the constructor ends only when
\* every key of the list is found.  It holds for every hash function and order
\* of the list, if the directory is never empty.
THEOREM RefinementCorrect ==
  ASSUME ~ModelIndex, Directories
  PROVE  Spec => ImplementsLookupTable
<1> DEFINE found == {k \in Key : Lookup(k)}
<1>1. TypeOK /\ ListInv => found = Inserted
  <2> SUFFICES ASSUME TypeOK, ListInv PROVE found = Inserted
    OBVIOUS
  <2>1. Size > 0 /\ Inserted \subseteq Key
    BY ElementsAreKeys DEF ListInv, LoopInv, Directories, Size
  <2> QED  BY <2>1, LookupIsMembership
<1>2. Init => Promise!Init
  <2> SUFFICES ASSUME Init PROVE Promise!Init
    OBVIOUS
  <2>1. TypeOK /\ ListInv /\ Inserted = {} /\ status = "first"
    BY InitInv, InitLoop DEF Init
  <2>2. found = {} /\ Elements \subseteq Key
    BY <1>1, <2>1, ElementsAreKeys DEF ListInv
  <2> QED  BY <2>1, <2>2 DEF Promise!Init
<1>3. TypeOK /\ ListInv /\ (TypeOK /\ ListInv)' /\ [Next]_vars
        => [Promise!Next]_(Promise!vars)
  <2> SUFFICES ASSUME TypeOK, ListInv, (TypeOK /\ ListInv)', [Next]_vars
               PROVE  [Promise!Next]_(Promise!vars)
    OBVIOUS
  <2>1. found = Inserted /\ found' = Inserted'
    <3>1. (TypeOK /\ ListInv => found = Inserted)'
      BY <1>1, PTL
    <3> QED  BY <1>1, <3>1
  <2>2. CASE Insert
    <3>1. /\ Current \in Key /\ Current \in Elements \ Inserted
          /\ Inserted' = Inserted \union {Current} /\ Elements' = Elements
          /\ status' = status /\ status \in Building
      BY <2>2, CurrentIsNew, AdvanceLoop DEF Insert, ListInv, More, Defined, Building
    <3>2. Promise!Insert(Current)
      BY <2>1, <3>1 DEF Promise!Insert, Building
    <3> QED  BY <3>1, <3>2 DEF Promise!Next
  <2>3. CASE Load /\ Finish
    <3>1. /\ Inserted' = Inserted /\ Elements' = Elements /\ Elements = Inserted
          /\ status = "second" /\ status' = "ready"
      BY <2>3, FinishInsertsAll DEF Finish, ListInv, Inserted, Elements
    <3>2. Promise!Finish
      BY <2>1, <3>1 DEF Promise!Finish
    <3> QED  BY <3>2 DEF Promise!Next
  <2>4. CASE (Load /\ (NextLoop \/ Crash)) \/ UNCHANGED vars
    <3>1. data' = data /\ i' = i
      BY <2>4, NextLoopInserts DEF NextLoop, Crash, ListInv, vars, load
    <3>2. Inserted' = Inserted /\ Elements' = Elements
      BY <3>1 DEF Inserted, Elements
    <3>3. (status = "ready" \/ status' = "ready") => status' = status
      BY <2>4 DEF NextLoop, Crash, More, vars, load
    <3> QED  BY <2>1, <3>2, <3>3 DEF Promise!vars
  <2> QED  BY <2>2, <2>3, <2>4 DEF Next, Load
<1> QED
  BY <1>2, <1>3, ListsInductive, PTL DEF Spec, ImplementsLookupTable, Promise!Spec
=============================================================================
