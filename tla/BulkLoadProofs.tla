---------------------------- MODULE BulkLoadProofs --------------------------
(***************************************************************************)
(* What the tables share, for every list, bucket size and over-allocation: *)
(* the arithmetic of the directory and the two loops of the constructors.  *)
(***************************************************************************)
EXTENDS BulkLoad, SequenceTheorems, WellFoundedInduction, TLAPS

\* A set of natural numbers that is not empty has a least element.
LEMMA LeastNat ==
  ASSUME NEW T, T \subseteq Nat, T # {}
  PROVE  \E n \in T : \A m \in T : n <= m
<1>1. PICK n \in T : \A m \in T : <<m, n>> \notin OpToRel(<, Nat)
  <2>1. IsWellFoundedOn(OpToRel(<, Nat), Nat)
    BY NatLessThanWellFounded, Zenon
  <2>2. \E n \in T : \A m \in T : ~(<<m, n>> \in OpToRel(<, Nat))
    <3> HIDE DEF OpToRel
    <3> QED  BY <2>1, WFMin, Zenon
  <2> QED  BY <2>2
<1>2. \A m \in T : ~(m < n)
  BY <1>1 DEF OpToRel
<1> QED
  BY <1>2

LEMMA SizeType == \A n \in Nat : NumBuckets(n) \in Int
<1> SUFFICES ASSUME NEW n \in Nat PROVE NumBuckets(n) \in Int
  OBVIOUS
<1> DEFINE a == n * (100 + OverAlloc)
           b == n * (OverAlloc - 10000)
           c == 100 * BucketSize
<1>1. c \in Nat \ {0} /\ a \in Int /\ b \in Int
  BY BulkLoadAssumption, Z3
<1>2. (100 + a) \div c \in Int /\ 1 + (b \div c) \in Int
  <2> HIDE DEF a, b, c
  <2> QED  BY <1>1, Z3
<1> QED
  BY <1>2 DEF NumBuckets

\* The list has a length and a size of the directory.
LEMMA ListType ==
  ASSUME LoopInv
  PROVE  /\ data \in Seq(Key) /\ Len(data) \in Nat
         /\ DOMAIN data = 1 .. Len(data) /\ data \in [1 .. Len(data) -> Key]
         /\ i \in 0 .. Len(data) /\ i \in Nat
         /\ Size \in Int
         /\ Split \in Nat
<1>1. data \in Seq(Key) /\ i \in 0 .. Len(data) /\ Len(data) < SizeT
  BY BulkLoadAssumption DEF LoopInv
<1>2. /\ Len(data) \in Nat
      /\ DOMAIN data = 1 .. Len(data) /\ data \in [1 .. Len(data) -> Key]
  BY <1>1, LenProperties
<1>3. Split \in Nat
  BY <1>2, BulkLoadAssumption, Z3 DEF Split
<1>4. Size \in Int
  BY <1>2, SizeType DEF Size
<1> QED
  BY <1>1, <1>2, <1>3, <1>4

\* Before the first element.
LEMMA InitLoop == InitLoad => LoopInv /\ Inserted = {} /\ status = "first"
<1> SUFFICES ASSUME InitLoad PROVE LoopInv /\ Inserted = {} /\ status = "first"
  OBVIOUS
<1>1. data \in Lists /\ i = 0 /\ status = "first" /\ data \in Seq(Key)
  BY BulkLoadAssumption DEF InitLoad
<1>2. Len(data) \in Nat
  BY <1>1, LenProperties
<1>3. Split \in Nat
  BY <1>2, BulkLoadAssumption, Z3 DEF Split
<1>4. Inserted = {}
  BY <1>1 DEF Inserted
<1> QED
  BY <1>1, <1>2, <1>3, <1>4 DEF LoopInv

-----------------------------------------------------------------------------
(* The elements of the list.                                               *)

LEMMA ElementsAreKeys ==
  ASSUME LoopInv
  PROVE  Elements \subseteq Key /\ Inserted \subseteq Elements
BY ListType DEF Elements, Inserted

\* The element an insertion reads is a key that was not inserted before.
LEMMA CurrentIsNew ==
  ASSUME LoopInv, i < Len(data)
  PROVE  /\ Current \in Key \ Inserted
         /\ Current \in Elements
         /\ {data[n] : n \in 1 .. i + 1} = Inserted \union {Current}
<1>1. /\ Len(data) \in Nat /\ i \in Nat /\ i + 1 \in 1 .. Len(data)
      /\ DOMAIN data = 1 .. Len(data) /\ data \in [1 .. Len(data) -> Key]
  BY ListType
<1>2. \A m, n \in 1 .. Len(data) : data[m] = data[n] => m = n
  BY <1>1, BulkLoadAssumption DEF LoopInv
<1>3. Current \notin Inserted
  <2> SUFFICES ASSUME NEW n \in 1 .. i, data[n] = data[i + 1] PROVE FALSE
    BY DEF Inserted, Current
  <2>1. n \in 1 .. Len(data) /\ n # i + 1
    BY <1>1
  <2> QED  BY <1>1, <1>2, <2>1
<1>4. 1 .. i + 1 = (1 .. i) \union {i + 1}
  BY <1>1
<1> QED
  BY <1>1, <1>3, <1>4 DEF Inserted, Current, Elements

-----------------------------------------------------------------------------
(* The steps of the loops.                                                 *)

\* An element more.
LEMMA AdvanceLoop ==
  ASSUME LoopInv, More, Defined, Advance
  PROVE  /\ LoopInv'
         /\ Inserted' = Inserted \union {Current}
         /\ Elements' = Elements /\ Size' = Size /\ status' = status
<1>1. data' = data /\ status' = status /\ i' = i + 1 /\ i < Len(data)
  BY DEF Advance, Defined
<1>2. Split' = Split /\ Size' = Size /\ Elements' = Elements
  BY <1>1 DEF Split, Size, Elements
<1>3. Inserted' = Inserted \union {Current}
  BY <1>1, CurrentIsNew DEF Inserted
<1>4. LoopInv'
  BY <1>1, <1>2, ListType DEF LoopInv, More
<1> QED
  BY <1>1, <1>2, <1>3, <1>4

\* The second loop starts where the first one stopped, so no element between
\* them is left out.
LEMMA NextLoopInserts ==
  ASSUME LoopInv, NextLoop
  PROVE  LoopInv' /\ i' = i /\ data' = data /\ status' = "second"
<1>1. i' = i
  BY ListType DEF NextLoop, More, LoopInv
<1> QED
  BY <1>1 DEF NextLoop, LoopInv

\* A step that leaves the list and the index alone.
LEMMA QuietLoop ==
  ASSUME LoopInv, UNCHANGED <<data, i>>, status' = status \/ status' # "first"
  PROVE  LoopInv' /\ Inserted' = Inserted /\ Elements' = Elements /\ Size' = Size
<1>1. /\ Split' = Split /\ Size' = Size
      /\ Inserted' = Inserted /\ Elements' = Elements
  BY DEF Split, Size, Inserted, Elements
<1> QED
  BY <1>1 DEF LoopInv

\* The second loop ends at the last element.
LEMMA FinishInsertsAll ==
  ASSUME LoopInv, Finish
  PROVE  Elements = Inserted
<1>1. i = Len(data)
  BY ListType DEF Finish, More
<1> QED
  BY <1>1, ListType DEF Elements, Inserted

\* Whoever reads beyond the list or divides by zero has a list of fewer than
\* insert_count elements or an empty directory.
LEMMA CrashIsWrap ==
  ASSUME LoopInv, Crash, Size > 0
  PROVE  Len(data) < insert_count
<1>1. /\ Len(data) \in Nat /\ i \in 0 .. Len(data) /\ Len(data) < SizeT
      /\ insert_count \in Nat /\ SizeT \in Nat
  BY ListType, BulkLoadAssumption DEF LoopInv
<1>2. i = Len(data) /\ status = "first" /\ i < Split
  BY <1>1 DEF Crash, Defined, More
<1> SUFFICES ASSUME insert_count <= Len(data) PROVE FALSE
  BY <1>1
<1>3. Split = Len(data) - insert_count
  BY <1>1, Z3 DEF Split
<1> QED
  BY <1>1, <1>2, <1>3
=============================================================================
