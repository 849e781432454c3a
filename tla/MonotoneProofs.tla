--------------------------- MODULE MonotoneProofs ---------------------------
(***************************************************************************)
(* Proofs about MonotoneTable: because the keys come in ascending order    *)
(* and the model is monotone, the order of the places is the order of the  *)
(* keys, and the iterator is one of the sorted array.                      *)
(***************************************************************************)
EXTENDS MonotoneTable, FiniteSetTheorems, FunctionTheorems, SequenceTheorems,
        WellFoundedInduction, TLAPS

KeyAt(u) == chain[u[1]][u[2][1]][u[2][2]]

\* The order of the places is the order of the walk.
PlaceBefore(u, v) == u[1] < v[1] \/ (u[1] = v[1] /\ Before(u[2], v[2]))

TypeOK ==
  /\ data \in Lists
  /\ i \in 0 .. Len(data)
  /\ chain \in [Directory -> Seq([Slot -> Key \cup {Sentinel}])]
  /\ \A d \in Directory : chain[d] # << >>

\* An iterator is on a key, or at the head of a bucket.
IteratorInv ==
  it # None =>
    /\ Built
    /\ it # end =>
         /\ it \in [dir : Directory, bucket : Nat \ {0}, slot : Slot]
         /\ it.bucket \in DOMAIN chain[it.dir]
         /\ it.slot = 0 \/ ~Free(chain[it.dir], <<it.bucket, it.slot>>)

\* A chain has no gaps.
FilledInOrder ==
  \A d \in Directory : \A p, q \in Positions(chain[d]) :
    Before(p, q) /\ ~Free(chain[d], q) => ~Free(chain[d], p)

\* The table holds the keys inserted, each where the model sends it.
HoldsInserted ==
  /\ \A u \in Places :
       \E n \in 1 .. i : KeyAt(u) = data[n] /\ u[1] = MODEL(data[n], Size)
  /\ \A n \in 1 .. i : \E u \in Places : KeyAt(u) = data[n]

\* The walk meets the keys in ascending order.
WalkAscends == \A u, v \in Places : PlaceBefore(u, v) => KeyAt(u) < KeyAt(v)

MonotoneInv == TypeOK /\ IteratorInv /\ FilledInOrder /\ HoldsInserted /\ WalkAscends
-----------------------------------------------------------------------------
(* Facts about the constants and the order of positions.                   *)

\* A set of natural numbers that is not empty has a least element.
LEMMA LeastNat ==
  ASSUME NEW T, T \subseteq Nat, T # {}
  PROVE  \E n \in T : \A m \in T : n <= m
<1>1. PICK n \in T : \A m \in T : <<m, n>> \notin OpToRel(<, Nat)
  <2>1. IsWellFoundedOn(OpToRel(<, Nat), Nat)
    BY NatLessThanWellFounded, Zenon
  <2>2. \E n \in T : \A m \in T : ~(<<m, n>> \in OpToRel(<, Nat))
    <3> HIDE DEF OpToRel
    <3> QED  BY <2>1, WFMin, Zenon
  <2> QED  BY <2>2
<1>2. \A m \in T : ~(m < n)
  BY <1>1 DEF OpToRel
<1> QED
  BY <1>2

Key0 == Key \cup {Sentinel}
Bucket == [Slot -> Key0]
Pairs == Nat \X Nat

LEMMA ListFacts ==
  ASSUME data \in Lists
  PROVE  /\ data \in Seq(Key) /\ Len(data) \in Nat /\ Len(data) > 0
         /\ DOMAIN data = 1 .. Len(data)
         /\ \A m \in 1 .. Len(data) : data[m] \in Key
         /\ \A m, n \in 1 .. Len(data) : m < n => data[m] < data[n]
         /\ Size \in Nat /\ Size > 0
         /\ \A k \in Key : MODEL(k, Size) \in Directory
         /\ \A k, l \in Key : k <= l => MODEL(k, Size) <= MODEL(l, Size)
<1>1. data \in Seq(Key) /\ data # << >> /\ \A m, n \in DOMAIN data : m < n => data[m] < data[n]
  BY MonotoneAssumption
<1>2. Len(data) \in Nat /\ DOMAIN data = 1 .. Len(data) /\ Len(data) > 0
  BY <1>1, LenProperties, EmptySeq
<1>3. \A m \in 1 .. Len(data) : data[m] \in Key
  BY <1>1, <1>2, ElementOfSeq
<1>4. Size \in Nat /\ Size > 0
  <2>1. BucketSize \in Nat /\ BucketSize > 0
    BY MonotoneAssumption
  <2>2. Len(data) \div BucketSize \in Nat
    BY <1>2, <2>1, Z3
  <2> QED  BY <2>2 DEF Size
<1>5. Size \in {1 + (Len(s) \div BucketSize) : s \in Lists}
  BY DEF Size
<1>6. \A k \in Key : /\ MODEL(k, Size) \in 0 .. Size - 1
                     /\ \A l \in Key : k <= l => MODEL(k, Size) <= MODEL(l, Size)
  <2> HIDE DEF Size
  <2> QED  BY <1>5, MonotoneAssumption
<1> QED
  BY <1>1, <1>2, <1>3, <1>4, <1>6 DEF Directory

LEMMA KeyFacts ==
  /\ Key \subseteq Nat /\ Sentinel \notin Key
  /\ Slot \subseteq Nat /\ 0 \in Slot /\ BucketSize \in Nat /\ BucketSize > 0
BY MonotoneAssumption DEF Slot

LEMMA PositionFacts ==
  ASSUME NEW c \in Seq(Bucket)
  PROVE  /\ Len(c) \in Nat /\ DOMAIN c = 1 .. Len(c)
         /\ Positions(c) = (1 .. Len(c)) \X Slot /\ Positions(c) \subseteq Pairs
         /\ \A b \in 1 .. Len(c) : c[b] \in Bucket
         /\ \A p \in Positions(c) : c[p[1]][p[2]] \in Key0
<1>1. Len(c) \in Nat /\ DOMAIN c = 1 .. Len(c)
  BY LenProperties
<1>2. \A b \in 1 .. Len(c) : c[b] \in Bucket
  BY <1>1, ElementOfSeq
<1>3. \A p \in Positions(c) : c[p[1]][p[2]] \in Key0
  BY <1>1, <1>2 DEF Positions, Bucket
<1>4. 1 .. Len(c) \subseteq Nat /\ Slot \subseteq Nat
  BY <1>1, KeyFacts
<1> QED
  BY <1>1, <1>2, <1>3, <1>4 DEF Positions, Pairs

\* Positions are totally ordered.
LEMMA BeforeOrder ==
  /\ \A p, q \in Pairs : p = q \/ Before(p, q) \/ Before(q, p)
  /\ \A p, q \in Pairs : ~(Before(p, q) /\ Before(q, p)) /\ ~Before(p, p)
  /\ \A p, q, r \in Pairs : Before(p, q) /\ Before(q, r) => Before(p, r)
BY DEF Pairs, Before

LEMMA PlaceOrder ==
  /\ \A u, v \in Nat \X Pairs : u = v \/ PlaceBefore(u, v) \/ PlaceBefore(v, u)
  /\ \A u, v \in Nat \X Pairs : ~(PlaceBefore(u, v) /\ PlaceBefore(v, u))
  /\ \A u, v, w \in Nat \X Pairs : PlaceBefore(u, v) /\ PlaceBefore(v, w) => PlaceBefore(u, w)
BY DEF Pairs, Before, PlaceBefore

\* If there is a free position there is a first one.
LEMMA FirstFreeExists ==
  ASSUME NEW c \in Seq(Bucket), NEW q \in Positions(c), Free(c, q)
  PROVE  \E p \in Positions(c) : FirstFree(c, p)
<1> DEFINE B == {b \in 1 .. Len(c) : \E s \in Slot : Free(c, <<b, s>>)}
<1>0. Positions(c) = (1 .. Len(c)) \X Slot /\ Len(c) \in Nat /\ Slot \subseteq Nat
  BY PositionFacts, KeyFacts
<1>1. q[1] \in B
  <2>1. q[1] \in 1 .. Len(c) /\ q[2] \in Slot /\ Free(c, <<q[1], q[2]>>)
    BY <1>0 DEF Free
  <2> QED  BY <2>1
<1>2. PICK b \in B : \A m \in B : b <= m
  <2>1. B \subseteq Nat /\ B # {}
    BY <1>0, <1>1
  <2> QED  BY <2>1, LeastNat
<1> DEFINE S == {s \in Slot : Free(c, <<b, s>>)}
<1>3. PICK s \in S : \A m \in S : s <= m
  <2>1. S \subseteq Nat /\ S # {}
    BY <1>0, <1>2
  <2> QED  BY <2>1, LeastNat
<1>4. <<b, s>> \in Positions(c) /\ Free(c, <<b, s>>)
  BY <1>0, <1>2, <1>3
<1>5. ASSUME NEW r \in Positions(c), Free(c, r) PROVE ~Before(r, <<b, s>>)
  <2>1. r[1] \in 1 .. Len(c) /\ r[2] \in Slot /\ r = <<r[1], r[2]>>
    BY <1>0
  <2>2. r[1] \in B /\ (r[1] = b => r[2] \in S)
    <3>1. Free(c, <<r[1], r[2]>>)
      BY <1>5, <2>1
    <3> QED  BY <2>1, <3>1
  <2>3. b <= r[1] /\ (r[1] = b => s <= r[2])
    BY <1>2, <1>3, <2>2
  <2>4. b \in Nat /\ s \in Nat /\ r[1] \in Nat /\ r[2] \in Nat
    BY <1>0, <2>1
  <2> HIDE DEF B, S
  <2> QED  BY <2>3, <2>4 DEF Before
<1> QED
  BY <1>4, <1>5 DEF FirstFree

\* The chain has no gaps.
NoGaps(c) == \A p, q \in Positions(c) : Before(p, q) /\ ~Free(c, q) => ~Free(c, p)

\* p is where a key is put into a chain, after all the others.
PutAt(c, c1, p, k) ==
  /\ c1 \in Seq(Bucket) /\ c1 # << >>
  /\ p \in Positions(c1) /\ c1[p[1]][p[2]] = k
  /\ p \in Positions(c) => Free(c, p)
  /\ DOMAIN c \subseteq DOMAIN c1
  /\ \A q \in Positions(c) : q # p => c1[q[1]][q[2]] = c[q[1]][q[2]]
  /\ \A q \in Positions(c1) : q # p /\ q \notin Positions(c) => Free(c1, q)
  /\ \A q \in Positions(c1) : Before(q, p) => ~Free(c1, q)
  /\ \A q \in Positions(c1) : ~Free(c1, q) => q = p \/ Before(q, p)

LEMMA PlaceEffect ==
  ASSUME NEW c \in Seq(Bucket), c # << >>, NoGaps(c), NEW k \in Key
  PROVE  \E p : PutAt(c, Place(c, k), p, k)
<1> DEFINE grown == IF \E p \in Positions(c) : Free(c, p) THEN c ELSE Append(c, EmptyBucket)
           p == CHOOSE q \in Positions(grown) : FirstFree(grown, q)
           c1 == [grown EXCEPT ![p[1]][p[2]] = k]
<1>0. EmptyBucket \in Bucket
  BY DEF EmptyBucket, Bucket, Key0
<1>1. /\ grown \in Seq(Bucket)
      /\ DOMAIN c \subseteq DOMAIN grown
      /\ \A b \in DOMAIN c : grown[b] = c[b]
      /\ \E q \in Positions(grown) : Free(grown, q)
      /\ \A q \in Positions(grown) : q \notin Positions(c) => Free(grown, q)
      /\ NoGaps(grown)
  <2>1. CASE \E q \in Positions(c) : Free(c, q)
    BY <2>1
  <2>2. CASE ~ \E q \in Positions(c) : Free(c, q)
    <3>1. grown = Append(c, EmptyBucket)
      BY <2>2
    <3>2. /\ grown \in Seq(Bucket) /\ Len(grown) = Len(c) + 1 /\ Len(c) \in Nat
          /\ \A b \in 1 .. Len(c) : grown[b] = c[b]
          /\ grown[Len(c) + 1] = EmptyBucket
      BY <1>0, <3>1, AppendProperties, PositionFacts
    <3>3. /\ DOMAIN c = 1 .. Len(c) /\ DOMAIN grown = 1 .. Len(c) + 1
          /\ Positions(c) = (1 .. Len(c)) \X Slot
          /\ Positions(grown) = (1 .. Len(c) + 1) \X Slot
      BY <3>2, PositionFacts
    <3>4. \A q \in Positions(grown) : q \notin Positions(c) => q[1] = Len(c) + 1 /\ Free(grown, q)
      <4> SUFFICES ASSUME NEW q \in Positions(grown), q \notin Positions(c)
                   PROVE  q[1] = Len(c) + 1 /\ Free(grown, q)
        OBVIOUS
      <4>1. q = <<q[1], q[2]>> /\ q[1] \in 1 .. Len(c) + 1 /\ q[2] \in Slot
        BY <3>3
      <4>2. q[1] = Len(c) + 1
        BY <3>2, <3>3, <4>1
      <4> QED  BY <3>2, <4>1, <4>2 DEF Free, EmptyBucket
    <3>5. \A q \in Positions(c) : q[1] \in 1 .. Len(c) /\ ~Free(grown, q)
      BY <2>2, <3>2, <3>3 DEF Free
    <3>6. \E q \in Positions(grown) : Free(grown, q)
      <4>1. <<Len(c) + 1, 0>> \in Positions(grown)
        BY <3>2, <3>3, KeyFacts
      <4>2. <<Len(c) + 1, 0>> \notin Positions(c)
        BY <3>2, <3>3
      <4> QED  BY <3>4, <4>1, <4>2
    <3>7. NoGaps(grown)
      <4> SUFFICES ASSUME NEW q \in Positions(grown), NEW r \in Positions(grown),
                          Before(q, r), ~Free(grown, r)
                   PROVE  ~Free(grown, q)
        BY DEF NoGaps
      <4>1. r \in Positions(c) /\ r[1] \in 1 .. Len(c)
        BY <3>4, <3>5
      <4>2. q \in Positions(c)
        <5>1. q[1] \in 1 .. Len(c) + 1 /\ q[1] <= r[1]
          BY <3>2, <3>3, <4>1 DEF Before
        <5> QED  BY <3>2, <3>4, <4>1, <5>1
      <4> QED  BY <3>5, <4>2
    <3> QED  BY <3>2, <3>3, <3>4, <3>6, <3>7
  <2> QED  BY <2>1, <2>2
<1>2. p \in Positions(grown) /\ FirstFree(grown, p)
  BY <1>1, FirstFreeExists
<1>3. p = <<p[1], p[2]>> /\ p[1] \in DOMAIN grown /\ p[2] \in Slot
  <2> HIDE DEF grown, p
  <2> QED  BY <1>2 DEF Positions
<1>4. c1 = Place(c, k)
  BY DEF Place
<1> HIDE DEF grown, p
<1>5. grown[p[1]] \in Bucket /\ Len(grown) \in Nat /\ DOMAIN grown = 1 .. Len(grown)
  BY <1>1, <1>3, PositionFacts
<1>6. [grown[p[1]] EXCEPT ![p[2]] = k] \in Bucket
  BY <1>5 DEF Bucket, Key0
<1>7. c1 \in Seq(Bucket) /\ Len(c1) = Len(grown)
  <2>1. c1 = [grown EXCEPT ![p[1]] = [grown[p[1]] EXCEPT ![p[2]] = k]]
    OBVIOUS
  <2> QED  BY <1>1, <1>3, <1>5, <1>6, <2>1, ExceptSeq
<1>8. DOMAIN c1 = DOMAIN grown /\ Positions(c1) = Positions(grown)
  BY DEF Positions
<1>9. c1[p[1]][p[2]] = k
  BY <1>3, <1>5 DEF Bucket
<1>10. \A q \in Positions(grown) : q # p => c1[q[1]][q[2]] = grown[q[1]][q[2]]
  <2> SUFFICES ASSUME NEW q \in Positions(grown), q # p
               PROVE  c1[q[1]][q[2]] = grown[q[1]][q[2]]
    OBVIOUS
  <2>1. q = <<q[1], q[2]>> /\ q[1] \in DOMAIN grown /\ q[2] \in Slot
    BY DEF Positions
  <2>2. q[1] # p[1] \/ q[2] # p[2]
    BY <1>3, <2>1
  <2> QED  BY <1>3, <1>5, <2>1, <2>2 DEF Bucket
<1>11. c1 # << >>
  <2>1. Len(c1) > 0
    BY <1>3, <1>5, <1>7
  <2> QED  BY <2>1
<1>12. Positions(grown) \subseteq Pairs /\ Positions(c) \subseteq Positions(grown)
  <2>1. DOMAIN grown \subseteq Nat /\ Slot \subseteq Nat
    BY <1>5, KeyFacts
  <2> QED  BY <1>1, <2>1 DEF Positions, Pairs
<1>13. \A q \in Positions(grown) : Before(q, p) => ~Free(grown, q)
  BY <1>2 DEF FirstFree
<1>14. \A q \in Positions(grown) : ~Free(grown, q) => Before(q, p)
  <2> SUFFICES ASSUME NEW q \in Positions(grown), ~Free(grown, q)
               PROVE  Before(q, p)
    OBVIOUS
  <2>1. Free(grown, p)
    BY <1>2 DEF FirstFree
  <2>2. ~Before(p, q)
    BY <1>1, <1>2, <2>1 DEF NoGaps
  <2>3. q # p
    BY <2>1
  <2> QED  BY <1>2, <1>12, <2>2, <2>3, BeforeOrder
<1>15. \A q \in Positions(grown) : q # p => (Free(c1, q) <=> Free(grown, q))
  BY <1>10 DEF Free
<1>16. \A q \in Positions(c) : grown[q[1]][q[2]] = c[q[1]][q[2]]
  BY <1>1 DEF Positions
<1>17. p \in Positions(c) => Free(c, p)
  BY <1>2, <1>16 DEF Free, FirstFree
<1>18. ~Before(p, p)
  BY <1>2, <1>12, BeforeOrder
<1> HIDE DEF c1
<1>19. PutAt(c, c1, p, k)
  BY <1>1, <1>2, <1>7, <1>8, <1>9, <1>10, <1>11, <1>12, <1>13, <1>14, <1>15, <1>16, <1>17, <1>18
     DEF PutAt
<1> QED
  BY <1>4, <1>19
-----------------------------------------------------------------------------
(* The invariant.                                                          *)

LEMMA PlaceFacts ==
  ASSUME TypeOK
  PROVE  /\ \A d \in Directory : chain[d] \in Seq(Bucket) /\ chain[d] # << >>
         /\ \A u : u \in Places <=> /\ u = <<u[1], u[2]>>
                                    /\ u[1] \in Directory
                                    /\ u[2] \in Positions(chain[u[1]])
                                    /\ ~Free(chain[u[1]], u[2])
         /\ \A u \in Places : KeyAt(u) \in Key
         /\ Places \subseteq Nat \X Pairs
<1>1. \A d \in Directory : chain[d] \in Seq(Bucket) /\ chain[d] # << >>
  BY DEF TypeOK, Bucket, Key0
<1>2. \A u : u \in Places <=> /\ u = <<u[1], u[2]>>
                              /\ u[1] \in Directory
                              /\ u[2] \in Positions(chain[u[1]])
                              /\ ~Free(chain[u[1]], u[2])
  BY DEF Places
<1>3. ASSUME NEW u \in Places PROVE KeyAt(u) \in Key /\ u \in Nat \X Pairs
  <2>1. /\ u = <<u[1], u[2]>> /\ u[1] \in Directory
        /\ u[2] \in Positions(chain[u[1]]) /\ ~Free(chain[u[1]], u[2])
    BY <1>2, <1>3
  <2>2. KeyAt(u) \in Key0 /\ KeyAt(u) # Sentinel
    BY <1>1, <2>1, PositionFacts DEF KeyAt, Free
  <2>4. u[2] \in Pairs
    BY <1>1, <2>1, PositionFacts
  <2>5. u[1] \in Nat
    BY <2>1, ListFacts DEF Directory, TypeOK
  <2> QED  BY <2>1, <2>2, <2>4, <2>5 DEF Key0
<1> QED
  BY <1>1, <1>2, <1>3

LEMMA InitInv == Init => MonotoneInv
<1> SUFFICES ASSUME Init PROVE MonotoneInv
  OBVIOUS
<1> USE DEF Init
<1>1. EmptyBucket \in Bucket /\ \A s \in Slot : EmptyBucket[s] = Sentinel
  BY DEF EmptyBucket, Bucket, Key0
<1>2. TypeOK
  <2>1. <<EmptyBucket>> \in Seq(Bucket) /\ <<EmptyBucket>> # << >>
    BY <1>1
  <2>2. Len(data) \in Nat
    BY ListFacts
  <2> QED  BY <2>1, <2>2 DEF TypeOK, Bucket, Key0
<1>3. Places = {}
  <2> SUFFICES ASSUME NEW d \in Directory, NEW p \in Positions(chain[d]) PROVE Free(chain[d], p)
    BY DEF Places
  <2>1. chain[d] = <<EmptyBucket>> /\ DOMAIN chain[d] = 1 .. 1
    OBVIOUS
  <2>2. p[1] = 1 /\ p[2] \in Slot
    BY <2>1 DEF Positions
  <2> QED  BY <1>1, <2>1, <2>2 DEF Free
<1>4. FilledInOrder
  <2>1. ASSUME NEW d \in Directory, NEW q \in Positions(chain[d]) PROVE Free(chain[d], q)
    <3>1. ~Free(chain[d], q) => <<d, q>> \in Places
      BY DEF Places
    <3> QED  BY <1>3, <3>1
  <2> QED  BY <2>1 DEF FilledInOrder
<1>5. HoldsInserted /\ WalkAscends
  BY <1>3 DEF HoldsInserted, WalkAscends
<1> QED
  BY <1>2, <1>4, <1>5 DEF MonotoneInv, IteratorInv

\* An insertion adds a place behind all the others.
LEMMA InsertEffect ==
  ASSUME MonotoneInv, Insert
  PROVE  /\ TypeOK' /\ FilledInOrder'
         /\ i + 1 \in 1 .. Len(data) /\ data[i + 1] \in Key
         /\ \E u \in Nat \X Pairs :
                   /\ u \notin Places /\ Places' = Places \cup {u}
                   /\ u[1] = MODEL(data[i + 1], Size)
                   /\ KeyAt(u)' = data[i + 1]
                   /\ \A v \in Places : KeyAt(v)' = KeyAt(v) /\ PlaceBefore(v, u)
<1> USE DEF MonotoneInv
<1>a. i \in 0 .. Len(data) /\ i # Len(data) /\ data \in Lists
  <2>1. ~Built
    BY DEF Insert
  <2> QED  BY <2>1 DEF Built, TypeOK
<1>b. Len(data) \in Nat /\ Size \in Nat /\ Directory \subseteq Nat
  <2>1. Len(data) \in Nat /\ Size \in Nat
    BY <1>a, ListFacts
  <2> QED  BY <2>1 DEF Directory
<1>c. i + 1 \in 1 .. Len(data) /\ i \in Nat
  BY <1>a, <1>b
<1>d. data[i + 1] \in Key /\ MODEL(data[i + 1], Size) \in Directory
  BY <1>a, <1>c, ListFacts
<1>e. PICK k \in Key, d \in Directory : k = data[i + 1] /\ d = MODEL(data[i + 1], Size)
  BY <1>d
<1>1. /\ i + 1 \in 1 .. Len(data) /\ k \in Key /\ d \in Directory
      /\ Size \in Nat /\ Directory \subseteq Nat /\ i \in Nat
  BY <1>b, <1>c
<1>2. /\ i' = i + 1 /\ data' = data /\ it' = it /\ Size' = Size /\ Directory' = Directory
      /\ chain' = [chain EXCEPT ![d] = Place(@, k)]
  BY <1>e DEF Insert, Inserted, Size, Directory
<1>3. chain[d] \in Seq(Bucket) /\ chain[d] # << >> /\ NoGaps(chain[d])
  BY <1>1, PlaceFacts DEF FilledInOrder, NoGaps
<1>4. PICK p : PutAt(chain[d], Place(chain[d], k), p, k)
  BY <1>1, <1>3, PlaceEffect
<1>5. /\ chain'[d] = Place(chain[d], k)
      /\ \A e \in Directory : e # d => chain'[e] = chain[e]
      /\ DOMAIN chain' = Directory
  BY <1>1, <1>2 DEF TypeOK
<1>6. PutAt(chain[d], chain'[d], p, k)
  BY <1>4, <1>5
<1>7. TypeOK'
  <2>1. chain'[d] \in Seq(Bucket) /\ chain'[d] # << >>
    BY <1>6 DEF PutAt
  <2>2. chain' \in [Directory -> Seq(Bucket)] /\ \A e \in Directory : chain'[e] # << >>
    BY <1>2, <1>5, <2>1, PlaceFacts DEF TypeOK, Bucket, Key0
  <2>3. i' \in 0 .. Len(data)
    BY <1>1, <1>2, ListFacts DEF TypeOK
  <2> QED  BY <1>2, <2>2, <2>3 DEF TypeOK, Bucket, Key0
<1>8. FilledInOrder'
  <2> SUFFICES ASSUME NEW e \in Directory, NEW q \in Positions(chain'[e]),
                      NEW r \in Positions(chain'[e]), Before(q, r), ~Free(chain'[e], r)
               PROVE  ~Free(chain'[e], q)
    BY <1>2 DEF FilledInOrder
  <2>1. CASE e # d
    BY <1>5, <2>1 DEF FilledInOrder
  <2>2. CASE e = d
    <3>1. r = p \/ Before(r, p)
      BY <1>6, <2>2 DEF PutAt
    <3>2. q \in Pairs /\ r \in Pairs /\ p \in Pairs
      <4>1. chain'[d] \in Seq(Bucket) /\ p \in Positions(chain'[d])
        BY <1>6 DEF PutAt
      <4>2. Positions(chain'[d]) \subseteq Pairs
        BY <4>1, PositionFacts
      <4> QED  BY <2>2, <4>1, <4>2
    <3>3. Before(q, p)
      BY <3>1, <3>2, BeforeOrder
    <3> QED  BY <1>6, <2>2, <3>3 DEF PutAt
  <2> QED  BY <2>1, <2>2
<1> DEFINE u == <<d, p>>
<1>9. p \in Positions(chain'[d]) /\ ~Free(chain'[d], p)
  <2>1. p \in Positions(chain'[d]) /\ chain'[d][p[1]][p[2]] = k
    BY <1>6 DEF PutAt
  <2>2. k # Sentinel
    BY <1>1, KeyFacts
  <2> QED  BY <2>1, <2>2 DEF Free
<1>10. u \notin Places
  <2>1. p \in Positions(chain[d]) => Free(chain[d], p)
    BY <1>6 DEF PutAt
  <2> QED  BY <2>1, PlaceFacts
<1>11. KeyAt(u)' = k
  BY <1>6 DEF KeyAt, PutAt
<1>12. \A q \in Positions(chain[d]) : /\ q # p => q \in Positions(chain'[d])
                                      /\ q # p => (Free(chain'[d], q) <=> Free(chain[d], q))
  BY <1>6 DEF PutAt, Positions, Free
<1>13. Places' = Places \cup {u}
  <2>1. ASSUME NEW v \in Places PROVE v \in Places'
    <3>1. /\ v = <<v[1], v[2]>> /\ v[1] \in Directory
          /\ v[2] \in Positions(chain[v[1]]) /\ ~Free(chain[v[1]], v[2])
      BY <2>1, PlaceFacts
    <3>2. CASE v[1] # d
      BY <1>2, <1>5, <3>1, <3>2 DEF Places
    <3>3. CASE v[1] = d
      <4>1. v[2] # p
        BY <1>6, <3>1, <3>3 DEF PutAt
      <4>2. v[2] \in Positions(chain'[d]) /\ ~Free(chain'[d], v[2])
        BY <1>12, <3>1, <3>3, <4>1
      <4> QED  BY <1>2, <3>1, <3>3, <4>2 DEF Places
    <3> QED  BY <3>2, <3>3
  <2>2. u \in Places'
    BY <1>1, <1>2, <1>9 DEF Places
  <2>3. ASSUME NEW v \in Places', v # u PROVE v \in Places
    <3>1. /\ v = <<v[1], v[2]>> /\ v[1] \in Directory
          /\ v[2] \in Positions(chain'[v[1]]) /\ ~Free(chain'[v[1]], v[2])
      BY <1>2, <2>3 DEF Places
    <3>2. CASE v[1] # d
      BY <1>5, <3>1, <3>2, PlaceFacts
    <3>3. CASE v[1] = d
      <4>1. v[2] # p
        BY <2>3, <3>1, <3>3
      <4>2. v[2] \in Positions(chain[d])
        BY <1>6, <3>1, <3>3, <4>1 DEF PutAt
      <4>3. ~Free(chain[d], v[2])
        BY <1>12, <3>1, <3>3, <4>1, <4>2
      <4> QED  BY <3>1, <3>3, <4>2, <4>3, PlaceFacts
    <3> QED  BY <3>2, <3>3
  <2> QED  BY <2>1, <2>2, <2>3
<1>14. ASSUME NEW v \in Places PROVE KeyAt(v)' = KeyAt(v) /\ PlaceBefore(v, u)
  <2>1. /\ v = <<v[1], v[2]>> /\ v[1] \in Directory
        /\ v[2] \in Positions(chain[v[1]]) /\ ~Free(chain[v[1]], v[2])
    BY <1>14, PlaceFacts
  <2>2. v # u
    BY <1>10, <1>14
  <2>3. KeyAt(v)' = KeyAt(v)
    <3>1. CASE v[1] # d
      BY <1>5, <2>1, <3>1 DEF KeyAt
    <3>2. CASE v[1] = d
      BY <1>6, <2>1, <2>2, <3>2 DEF KeyAt, PutAt
    <3> QED  BY <3>1, <3>2
  <2>4. v[1] <= d
    <3>1. PICK n \in 1 .. i : KeyAt(v) = data[n] /\ v[1] = MODEL(data[n], Size)
      BY <1>14 DEF HoldsInserted
    <3>2. n \in 1 .. Len(data) /\ n < i + 1
      BY <1>1
    <3>3. data[n] < k /\ data[n] \in Key
      BY <1>a, <1>e, <1>1, <3>2, ListFacts
    <3>4. data[n] <= k
      <4>1. data[n] \in Nat /\ k \in Nat
        BY <3>3, KeyFacts
      <4> QED  BY <3>3, <4>1
    <3> QED  BY <1>a, <1>e, <3>1, <3>3, <3>4, ListFacts
  <2>5. PlaceBefore(v, u)
    <3>1. CASE v[1] = d
      <4>1. v[2] # p
        BY <2>1, <2>2, <3>1
      <4>2. v[2] \in Positions(chain'[d]) /\ ~Free(chain'[d], v[2])
        BY <1>12, <2>1, <3>1, <4>1
      <4>3. Before(v[2], p)
        BY <1>6, <4>1, <4>2 DEF PutAt
      <4> QED  BY <3>1, <4>3 DEF PlaceBefore
    <3>2. CASE v[1] # d
      <4>1. v[1] \in Nat /\ d \in Nat
        BY <1>1, <2>1
      <4> QED  BY <2>4, <3>2, <4>1 DEF PlaceBefore
    <3> QED  BY <3>1, <3>2
  <2> QED  BY <2>3, <2>5
<1> QED
  <2>1. u[1] = MODEL(data[i + 1], Size)
    BY <1>e
  <2>2. data[i + 1] = k
    BY <1>e
  <2>3. u \in Nat \X Pairs
    <3>1. chain'[d] \in Seq(Bucket) /\ p \in Positions(chain'[d])
      BY <1>6 DEF PutAt
    <3>2. p \in Pairs
      BY <3>1, PositionFacts
    <3>3. d \in Nat
      BY <1>b
    <3> QED  BY <3>2, <3>3
  <2> HIDE DEF u
  <2> QED  BY <2>3, <1>d, <1>1, <1>7, <1>8, <1>10, <1>11, <1>13, <1>14, <2>1, <2>2

LEMMA InsertStep == MonotoneInv /\ Insert => MonotoneInv'
<1> SUFFICES ASSUME MonotoneInv, Insert PROVE MonotoneInv'
  OBVIOUS
<1> USE DEF MonotoneInv
<1>0. /\ TypeOK' /\ FilledInOrder'
      /\ i + 1 \in 1 .. Len(data) /\ data[i + 1] \in Key
      /\ i' = i + 1 /\ data' = data /\ it' = it /\ Size' = Size /\ ~Built
  BY InsertEffect DEF Insert, Inserted, Size
<1>1. PICK u \in Nat \X Pairs :
               /\ u \notin Places /\ Places' = Places \cup {u}
               /\ u[1] = MODEL(data[i + 1], Size)
               /\ KeyAt(u)' = data[i + 1]
               /\ \A v \in Places : KeyAt(v)' = KeyAt(v) /\ PlaceBefore(v, u)
  BY InsertEffect
<1>2. i \in Nat /\ 1 .. i' = 1 .. i \cup {i + 1}
  BY <1>0, ListFacts DEF TypeOK
<1>3. IteratorInv'
  BY <1>0 DEF IteratorInv
<1>4. HoldsInserted'
  <2>1. ASSUME NEW v \in Places'
        PROVE  \E n \in 1 .. i' : KeyAt(v)' = data[n] /\ v[1] = MODEL(data[n], Size)
    <3>1. CASE v = u
      BY <1>1, <1>2, <3>1
    <3>2. CASE v \in Places
      BY <1>1, <1>2, <3>2 DEF HoldsInserted
    <3> QED  BY <1>1, <3>1, <3>2
  <2>2. ASSUME NEW n \in 1 .. i' PROVE \E v \in Places' : KeyAt(v)' = data[n]
    <3>1. CASE n = i + 1
      BY <1>1, <3>1
    <3>2. CASE n \in 1 .. i
      BY <1>1, <3>2 DEF HoldsInserted
    <3> QED  BY <1>2, <3>1, <3>2
  <2> QED  BY <1>0, <2>1, <2>2 DEF HoldsInserted
<1>5. WalkAscends'
  <2> SUFFICES ASSUME NEW v \in Places', NEW w \in Places', PlaceBefore(v, w)
               PROVE  KeyAt(v)' < KeyAt(w)'
    BY DEF WalkAscends, PlaceBefore, Before
  <2>1. Places' \subseteq Nat \X Pairs
    BY <1>1, PlaceFacts
  <2>2. v # u
    <3>1. \A x \in Places : PlaceBefore(x, u)
      BY <1>1
    <3> QED  BY <1>1, <2>1, <3>1, PlaceOrder
  <2>3. v \in Places
    BY <1>1, <2>2
  <2>4. CASE w = u
    <3>1. PICK n \in 1 .. i : KeyAt(v) = data[n]
      BY <2>3 DEF HoldsInserted
    <3>2. n \in 1 .. Len(data) /\ n < i + 1
      BY <1>0, <1>2
    <3>3. data[n] < data[i + 1]
      BY <1>0, <3>2, ListFacts DEF TypeOK
    <3> QED  BY <1>1, <2>3, <2>4, <3>1, <3>3
  <2>5. CASE w \in Places
    BY <1>1, <2>3, <2>5 DEF WalkAscends
  <2> QED  BY <1>1, <2>4, <2>5
<1> QED
  BY <1>0, <1>3, <1>4, <1>5

\* The iterator's place.
Here == <<it.dir, <<it.bucket, it.slot>>>>

LEMMA IteratorFacts ==
  ASSUME MonotoneInv, it # None, it # end
  PROVE  /\ it \in [dir : Directory, bucket : Nat \ {0}, slot : Slot]
         /\ <<it.bucket, it.slot>> \in Positions(chain[it.dir])
         /\ Here \in Nat \X Pairs
         /\ Here \in Places <=> ~Free(chain[it.dir], <<it.bucket, it.slot>>)
         /\ it.slot = 0 \/ Here \in Places
<1>1. /\ it \in [dir : Directory, bucket : Nat \ {0}, slot : Slot]
      /\ it.bucket \in DOMAIN chain[it.dir]
      /\ it.slot = 0 \/ ~Free(chain[it.dir], <<it.bucket, it.slot>>)
  BY DEF MonotoneInv, IteratorInv
<1>2. <<it.bucket, it.slot>> \in Positions(chain[it.dir])
  BY <1>1 DEF Positions
<1>3. Here \in Places <=> ~Free(chain[it.dir], <<it.bucket, it.slot>>)
  BY <1>1, <1>2, PlaceFacts DEF Here, MonotoneInv
<1>4. Here \in Nat \X Pairs
  <2>1. Directory \subseteq Nat /\ Slot \subseteq Nat
    <3>1. Size \in Nat
      BY ListFacts DEF MonotoneInv, TypeOK
    <3> QED  BY <3>1, KeyFacts DEF Directory
  <2> QED  BY <1>1, <2>1 DEF Here, Pairs
<1> QED
  BY <1>1, <1>2, <1>3, <1>4

LEMMA TableKept ==
  ASSUME MonotoneInv, UNCHANGED <<data, i, chain>>
  PROVE  /\ TypeOK' /\ FilledInOrder' /\ HoldsInserted' /\ WalkAscends'
         /\ Size' = Size /\ Directory' = Directory /\ Places' = Places
         /\ Built' = Built /\ end' = end
<1> USE DEF MonotoneInv
<1>1. Size' = Size /\ Directory' = Directory /\ Built' = Built /\ end' = end
  BY DEF Size, Directory, Built, end
<1>2. Places' = Places
  BY <1>1 DEF Places
<1>3. TypeOK' /\ FilledInOrder'
  BY <1>1 DEF TypeOK, FilledInOrder
<1>4. HoldsInserted' /\ WalkAscends'
  BY <1>1, <1>2 DEF HoldsInserted, WalkAscends, KeyAt
<1> QED
  BY <1>1, <1>2, <1>3, <1>4

\* A lookup finds the key's place, or the key is not in the table.
LEMMA FindEffect ==
  ASSUME MonotoneInv, NEW k \in Key, Find(k)
  PROVE  /\ Built /\ it \in {None, end}
         /\ \/ \E u \in Places :
                 /\ KeyAt(u) = k
                 /\ it' = [dir |-> u[1], bucket |-> u[2][1], slot |-> u[2][2]]
            \/ /\ it' = end
               /\ \A n \in 1 .. i : data[n] # k
<1> DEFINE d == MODEL(k, Size)
<1> USE DEF MonotoneInv
<1>1. Built /\ it \in {None, end} /\ Lookup(k, it')
  BY DEF Find
<1>2. d \in Directory
  BY ListFacts DEF TypeOK
<1>3. k # Sentinel
  BY KeyFacts
<1>4. CASE \E p \in Positions(chain[d]) :
             Holds(d, p, k) /\ it' = [dir |-> d, bucket |-> p[1], slot |-> p[2]]
  <2>1. PICK p \in Positions(chain[d]) :
             Holds(d, p, k) /\ it' = [dir |-> d, bucket |-> p[1], slot |-> p[2]]
    BY <1>4
  <2> DEFINE u == <<d, p>>
  <2>2. u \in Places /\ KeyAt(u) = k
    BY <1>2, <1>3, <2>1 DEF Places, Holds, Free, KeyAt
  <2>3. it' = [dir |-> u[1], bucket |-> u[2][1], slot |-> u[2][2]]
    BY <2>1
  <2> HIDE DEF u
  <2> QED  BY <1>1, <2>2, <2>3
<1>5. CASE (\A p \in Positions(chain[d]) : ~Holds(d, p, k)) /\ it' = end
  <2>1. ASSUME NEW n \in 1 .. i, data[n] = k PROVE FALSE
    <3>1. PICK u \in Places : KeyAt(u) = k
      BY <2>1 DEF HoldsInserted
    <3>2. u[1] = d
      BY <3>1 DEF HoldsInserted
    <3>3. /\ u[2] \in Positions(chain[d]) /\ ~Free(chain[d], u[2])
          /\ chain[d] \in Seq(Bucket)
      BY <1>2, <3>1, <3>2, PlaceFacts
    <3>4. u[2] \in (1 .. Len(chain[d])) \X Slot /\ Slot = 0 .. BucketSize - 1 /\ BucketSize \in Nat
          /\ DOMAIN chain[d] = 1 .. Len(chain[d])
      BY <3>3, PositionFacts, KeyFacts DEF Slot
    <3>5. ASSUME NEW s \in 0 .. u[2][2] - 1 PROVE chain[d][u[2][1]][s] # Sentinel
      <4>1. u[2][1] \in DOMAIN chain[d] /\ u[2][2] \in Slot
        BY <3>4
      <4>2. s \in Slot /\ s < u[2][2]
        BY <3>4, <4>1
      <4>3. <<u[2][1], s>> \in Positions(chain[d]) /\ Before(<<u[2][1], s>>, u[2])
        BY <4>1, <4>2 DEF Positions, Before
      <4>4. ~Free(chain[d], <<u[2][1], s>>)
        BY <1>2, <3>3, <4>3 DEF FilledInOrder
      <4> QED  BY <4>4 DEF Free
    <3>6. chain[d][u[2][1]][u[2][2]] = k
      BY <3>1, <3>2 DEF KeyAt
    <3> QED  BY <1>5, <3>3, <3>5, <3>6 DEF Holds
  <2> QED  BY <1>1, <1>5, <2>1
<1> QED
  BY <1>1, <1>4, <1>5 DEF Lookup

LEMMA FindStep == MonotoneInv /\ (\E k \in Key : Find(k)) => MonotoneInv'
<1> SUFFICES ASSUME MonotoneInv, NEW k \in Key, Find(k) PROVE MonotoneInv'
  OBVIOUS
<1>1. UNCHANGED <<data, i, chain>>
  BY DEF Find
<1>2. /\ TypeOK' /\ FilledInOrder' /\ HoldsInserted' /\ WalkAscends'
      /\ Directory' = Directory /\ Built' = Built /\ end' = end
  BY <1>1, TableKept
<1>3. IteratorInv'
  <2>1. CASE it' = end
    BY <1>2, <2>1, FindEffect DEF IteratorInv
  <2>2. CASE it' # end
    <3>1. PICK u \in Places : it' = [dir |-> u[1], bucket |-> u[2][1], slot |-> u[2][2]]
      BY <2>2, FindEffect
    <3>2. /\ u = <<u[1], u[2]>> /\ u[1] \in Directory /\ u[2] \in Positions(chain[u[1]])
          /\ ~Free(chain[u[1]], u[2]) /\ chain[u[1]] \in Seq(Bucket)
      BY PlaceFacts DEF MonotoneInv
    <3>3. /\ u[2] = <<u[2][1], u[2][2]>> /\ u[2][1] \in DOMAIN chain[u[1]] /\ u[2][2] \in Slot
          /\ DOMAIN chain[u[1]] = 1 .. Len(chain[u[1]]) /\ Len(chain[u[1]]) \in Nat
      BY <3>2, PositionFacts DEF Positions
    <3>4. u[2][1] \in Nat \ {0}
      BY <3>3
    <3>5. /\ it' \in [dir : Directory, bucket : Nat \ {0}, slot : Slot]
          /\ it.bucket' \in DOMAIN chain[it.dir']
          /\ ~Free(chain[it.dir'], <<it.bucket', it.slot'>>)
      BY <3>1, <3>2, <3>3, <3>4
    <3>6. Built
      BY FindEffect
    <3> QED  BY <1>1, <1>2, <3>5, <3>6 DEF IteratorInv, Free
  <2> QED  BY <2>1, <2>2
<1> QED
  BY <1>2, <1>3 DEF MonotoneInv

\* The iterator passes the key it is on, if it is on one.
LEMMA AdvanceEffect ==
  ASSUME MonotoneInv, Advance
  PROVE  /\ IteratorInv' /\ it' # None
         /\ Passed(it)' = {q \in Places : PlaceBefore(q, Here) \/ q = Here}
<1> USE DEF MonotoneInv
<1> DEFINE d == it.dir
           b == it.bucket
           s == it.slot
           c == chain[d]
<1>1. /\ it # None /\ it # end /\ UNCHANGED <<data, i, chain>>
      /\ it' = IF InBucket THEN [it EXCEPT !.slot = @ + 1] ELSE NextBucket
  BY DEF Advance
<1>2. /\ TypeOK' /\ Directory' = Directory /\ Built' = Built /\ end' = end /\ Places' = Places
  BY <1>1, TableKept
<1>3. /\ it \in [dir : Directory, bucket : Nat \ {0}, slot : Slot]
      /\ <<b, s>> \in Positions(c)
      /\ Here \in Nat \X Pairs /\ Built
  BY <1>1, IteratorFacts DEF IteratorInv
<1>4. /\ Size \in Nat /\ Directory = 0 .. Size - 1 /\ Slot = 0 .. BucketSize - 1
      /\ BucketSize \in Nat
  <2>1. Size \in Nat
    BY ListFacts DEF TypeOK
  <2> QED  BY <2>1, KeyFacts DEF Directory, Slot
<1>5. /\ d \in Directory /\ d \in Nat /\ s \in Slot /\ s \in Nat /\ b \in Nat
      /\ c \in Seq(Bucket)
      /\ Len(c) \in Nat /\ DOMAIN c = 1 .. Len(c) /\ b \in 1 .. Len(c)
  <2>1. d \in Directory /\ c \in Seq(Bucket)
    BY <1>3, PlaceFacts
  <2>2. Len(c) \in Nat /\ DOMAIN c = 1 .. Len(c)
    BY <2>1, PositionFacts
  <2>3. b \in DOMAIN c
    BY <1>3 DEF Positions
  <2> QED  BY <1>3, <1>4, <2>1, <2>2, <2>3
<1>6. \A q \in Places : /\ q = <<q[1], <<q[2][1], q[2][2]>>>>
                        /\ q[1] \in Nat /\ q[2][1] \in Nat /\ q[2][2] \in Nat
                        /\ q[1] \in Directory /\ q[2] \in Positions(chain[q[1]])
                        /\ q[1] = d => /\ q[2] \in Positions(c) /\ ~Free(c, q[2])
                                       /\ q[2][1] <= Len(c) /\ q[2][2] \in Slot
  <2> SUFFICES ASSUME NEW q \in Places
               PROVE  /\ q = <<q[1], <<q[2][1], q[2][2]>>>>
                      /\ q[1] \in Nat /\ q[2][1] \in Nat /\ q[2][2] \in Nat
                      /\ q[1] \in Directory /\ q[2] \in Positions(chain[q[1]])
                      /\ q[1] = d => /\ q[2] \in Positions(c) /\ ~Free(c, q[2])
                                     /\ q[2][1] <= Len(c) /\ q[2][2] \in Slot
    OBVIOUS
  <2>1. /\ q \in Nat \X Pairs /\ q[1] \in Directory /\ q[2] \in Positions(chain[q[1]])
        /\ ~Free(chain[q[1]], q[2])
    BY PlaceFacts
  <2>2. q[1] = d => q[2][1] \in DOMAIN c /\ q[2][2] \in Slot
    BY <2>1 DEF Positions
  <2> QED  BY <1>5, <2>1, <2>2 DEF Pairs
\* Nothing is behind the iterator's slot in its bucket, if it leaves the bucket.
<1>7. ASSUME ~InBucket, NEW q \in Places, q[1] = d, q[2][1] = b PROVE q[2][2] <= s
  <2> SUFFICES ASSUME s < q[2][2] PROVE FALSE
    BY <1>5, <1>6
  <2>1. s + 1 < BucketSize /\ s + 1 \in Slot /\ s + 1 <= q[2][2]
    BY <1>4, <1>5, <1>6, <1>7
  <2>2. <<b, s + 1>> \in Positions(c)
    BY <1>5, <2>1 DEF Positions
  <2>3. <<b, s + 1>> = q[2] \/ Before(<<b, s + 1>>, q[2])
    BY <1>5, <1>6, <1>7, <2>1 DEF Before
  <2>4. ~Free(c, <<b, s + 1>>)
    <3>1. CASE <<b, s + 1>> = q[2]
      BY <1>6, <1>7, <3>1
    <3>2. CASE Before(<<b, s + 1>>, q[2])
      <4>1. q[2] \in Positions(c) /\ ~Free(c, q[2])
        BY <1>6, <1>7
      <4> QED  BY <1>5, <2>2, <3>2, <4>1 DEF FilledInOrder
    <3> QED  BY <2>3, <3>1, <3>2
  <2> QED  BY <1>7, <2>1, <2>4 DEF InBucket, Free
<1>8. CASE InBucket
  <2>1. /\ it' = [dir |-> d, bucket |-> b, slot |-> s + 1]
        /\ s + 1 < BucketSize /\ ~Free(c, <<b, s + 1>>)
    BY <1>1, <1>3, <1>8 DEF InBucket, Free
  <2>2. s + 1 \in Slot
    BY <1>4, <1>5, <2>1
  <2>3. IteratorInv'
    <3>1. /\ it' \in [dir : Directory, bucket : Nat \ {0}, slot : Slot]
          /\ it'.bucket \in DOMAIN chain[it'.dir]
          /\ ~Free(chain[it'.dir], <<it'.bucket, it'.slot>>)
      BY <1>5, <2>1, <2>2
    <3> QED  BY <1>1, <1>2, <1>3, <3>1 DEF IteratorInv, Free
  <2>4. it' # None
    BY <1>4, <1>5, <2>1, MonotoneAssumption
  <2>5. \A q \in Places : (\/ q[1] < it'.dir
                           \/ q[1] = it'.dir /\ Before(q[2], <<it'.bucket, it'.slot>>))
                          <=> PlaceBefore(q, Here) \/ q = Here
    BY <1>5, <1>6, <2>1 DEF PlaceBefore, Before, Here
  <2> QED  BY <1>2, <2>3, <2>4, <2>5 DEF Passed, Before
<1>9. CASE ~InBucket /\ b < Len(c)
  <2>1. it' = [dir |-> d, bucket |-> b + 1, slot |-> 0]
    BY <1>1, <1>5, <1>9 DEF NextBucket
  <2>2. IteratorInv'
    <3>1. /\ it' \in [dir : Directory, bucket : Nat \ {0}, slot : Slot]
          /\ it'.bucket \in DOMAIN chain[it'.dir]
          /\ it'.slot = 0
      BY <1>5, <1>9, <2>1, KeyFacts
    <3> QED  BY <1>1, <1>2, <1>3, <3>1 DEF IteratorInv
  <2>3. it' # None
    BY <1>4, <1>5, <2>1, MonotoneAssumption
  <2>4. ASSUME NEW q \in Places
        PROVE  (\/ q[1] < it'.dir
                \/ q[1] = it'.dir /\ Before(q[2], <<it'.bucket, it'.slot>>))
               <=> PlaceBefore(q, Here) \/ q = Here
    <3>1. q[1] = d /\ q[2][1] = b => q[2][2] <= s
      BY <1>7, <1>9
    <3> QED  BY <1>5, <1>6, <2>1, <3>1 DEF PlaceBefore, Before, Here
  <2> QED  BY <1>2, <2>2, <2>3, <2>4 DEF Passed, Before
<1>10. CASE ~InBucket /\ b = Len(c) /\ d + 1 < Size
  <2>1. it' = [dir |-> d + 1, bucket |-> 1, slot |-> 0]
    BY <1>1, <1>5, <1>10 DEF NextBucket
  <2>2. IteratorInv'
    <3>1. d + 1 \in Directory
      BY <1>4, <1>5, <1>10
    <3>2. 1 \in DOMAIN chain[d + 1]
      <4>1. chain[d + 1] \in Seq(Bucket) /\ chain[d + 1] # << >>
        BY <3>1, PlaceFacts
      <4> QED  BY <4>1, LenProperties, EmptySeq
    <3>3. /\ it' \in [dir : Directory, bucket : Nat \ {0}, slot : Slot]
          /\ it'.bucket \in DOMAIN chain[it'.dir]
          /\ it'.slot = 0
      BY <2>1, <3>1, <3>2, KeyFacts
    <3> QED  BY <1>1, <1>2, <1>3, <3>3 DEF IteratorInv
  <2>3. it' # None
    BY <1>4, <1>5, <2>1, MonotoneAssumption
  <2>4. ASSUME NEW q \in Places
        PROVE  (\/ q[1] < it'.dir
                \/ q[1] = it'.dir /\ Before(q[2], <<it'.bucket, it'.slot>>))
               <=> PlaceBefore(q, Here) \/ q = Here
    <3>1. q[1] = d /\ q[2][1] = b => q[2][2] <= s
      BY <1>7, <1>10
    <3>2. q[1] = d => q[2][1] <= b
      BY <1>6, <1>10
    <3>3. q[2][1] > 0
      <4>1. q[2][1] \in DOMAIN chain[q[1]] /\ chain[q[1]] \in Seq(Bucket)
        BY <1>6, PlaceFacts DEF Positions
      <4> QED  BY <4>1, PositionFacts
    <3> QED  BY <1>5, <1>6, <2>1, <3>1, <3>2, <3>3 DEF PlaceBefore, Before, Here
  <2> QED  BY <1>2, <2>2, <2>3, <2>4 DEF Passed, Before
<1>11. CASE ~InBucket /\ b = Len(c) /\ ~(d + 1 < Size)
  <2>1. it' = end
    BY <1>1, <1>5, <1>11 DEF NextBucket
  <2>2. IteratorInv'
    BY <1>2, <1>3, <2>1 DEF IteratorInv
  <2>3. it' # None
    BY <1>4, <1>5, <2>1, MonotoneAssumption DEF end
  <2>4. ASSUME NEW q \in Places
        PROVE  q[1] < it'.dir /\ (PlaceBefore(q, Here) \/ q = Here)
    <3>1. q[1] = d /\ q[2][1] = b => q[2][2] <= s
      BY <1>7, <1>11
    <3>2. q[1] = d => q[2][1] <= b
      BY <1>6, <1>11
    <3>3. q[1] <= d /\ it'.dir = Size /\ q[1] < Size
      BY <1>4, <1>5, <1>6, <1>11, <2>1 DEF end
    <3> QED  BY <1>5, <1>6, <3>1, <3>2, <3>3 DEF PlaceBefore, Before, Here
  <2> QED  BY <1>2, <2>2, <2>3, <2>4 DEF Passed, Before
<1> QED
  BY <1>5, <1>8, <1>9, <1>10, <1>11

LEMMA AdvanceStep == MonotoneInv /\ Advance => MonotoneInv'
<1> SUFFICES ASSUME MonotoneInv, Advance PROVE MonotoneInv'
  OBVIOUS
<1>1. UNCHANGED <<data, i, chain>>
  BY DEF Advance
<1> QED
  BY <1>1, AdvanceEffect, TableKept DEF MonotoneInv

LEMMA DropStep == MonotoneInv /\ Drop => MonotoneInv'
<1> SUFFICES ASSUME MonotoneInv, Drop PROVE MonotoneInv'
  OBVIOUS
<1>1. UNCHANGED <<data, i, chain>> /\ it' = None
  BY DEF Drop
<1> QED
  BY <1>1, TableKept DEF MonotoneInv, IteratorInv

\* MonotoneInv is inductive: whatever keys, model and bucket size, the
\* chains have no gaps, the walk over the slots meets the keys inserted in
\* ascending order, and the iterator stays on it.
THEOREM WalkInductive == Spec => []MonotoneInv
<1>1. Init => MonotoneInv
  BY InitInv
<1>2. MonotoneInv /\ [Next]_vars => MonotoneInv'
  <2> SUFFICES ASSUME MonotoneInv, [Next]_vars PROVE MonotoneInv'
    OBVIOUS
  <2>1. CASE Insert
    BY <2>1, InsertStep
  <2>2. CASE \E k \in Key : Find(k)
    BY <2>2, FindStep
  <2>3. CASE Advance
    BY <2>3, AdvanceStep
  <2>4. CASE Drop
    BY <2>4, DropStep
  <2>5. CASE UNCHANGED vars
    <3>1. UNCHANGED <<data, i, chain>> /\ it' = it
      BY <2>5 DEF vars
    <3>2. /\ TypeOK' /\ FilledInOrder' /\ HoldsInserted' /\ WalkAscends'
          /\ Directory' = Directory /\ Built' = Built /\ end' = end
      BY <3>1, TableKept
    <3>3. IteratorInv'
      BY <3>1, <3>2 DEF MonotoneInv, IteratorInv, Free
    <3> QED  BY <3>2, <3>3 DEF MonotoneInv
  <2> QED  BY <2>1, <2>2, <2>3, <2>4, <2>5 DEF Next
<1> QED
  BY <1>1, <1>2, PTL DEF Spec
-----------------------------------------------------------------------------
(* The iterator is the one of the sorted array.                            *)

\* The places of the first n keys.
First(n) == {q \in Places : \E m \in 1 .. n : KeyAt(q) = data[m]}

\* A key has one place.
LEMMA OnePlace ==
  ASSUME MonotoneInv, NEW u \in Places, NEW v \in Places, KeyAt(u) = KeyAt(v)
  PROVE  u = v
<1>1. KeyAt(u) \in Nat /\ u \in Nat \X Pairs /\ v \in Nat \X Pairs
  BY PlaceFacts, KeyFacts DEF MonotoneInv
<1>2. ~PlaceBefore(u, v) /\ ~PlaceBefore(v, u)
  BY <1>1 DEF MonotoneInv, WalkAscends
<1> QED
  BY <1>1, <1>2, PlaceOrder

LEMMA FirstSize ==
  ASSUME MonotoneInv, NEW n \in 0 .. i
  PROVE  IsFiniteSet(First(n)) /\ Cardinality(First(n)) = n
<1> DEFINE PlaceOf(m) == CHOOSE q \in Places : KeyAt(q) = data[m]
           f == [m \in 1 .. n |-> PlaceOf(m)]
<1>1. /\ n \in Nat /\ 1 .. n \subseteq 1 .. i /\ 1 .. n \subseteq 1 .. Len(data)
      /\ 1 .. n \subseteq Nat
  <2>1. i \in 0 .. Len(data) /\ Len(data) \in Nat
    BY ListFacts DEF MonotoneInv, TypeOK
  <2> QED  BY <2>1
<1>2. \A m \in 1 .. n : f[m] \in Places /\ KeyAt(f[m]) = data[m]
  <2> SUFFICES ASSUME NEW m \in 1 .. n PROVE PlaceOf(m) \in Places /\ KeyAt(PlaceOf(m)) = data[m]
    OBVIOUS
  <2>1. \E q \in Places : KeyAt(q) = data[m]
    BY <1>1 DEF MonotoneInv, HoldsInserted
  <2> QED  BY <2>1
<1>3. \A m \in 1 .. n : f[m] \in First(n)
  BY <1>2 DEF First
<1>4. ASSUME NEW l \in 1 .. n, NEW m \in 1 .. n, f[l] = f[m] PROVE l = m
  <2>1. data[l] = data[m] /\ data[l] \in Nat /\ l \in Nat /\ m \in Nat
    BY <1>1, <1>2, <1>4, ListFacts, KeyFacts DEF MonotoneInv, TypeOK
  <2>2. ~(l < m) /\ ~(m < l)
    BY <1>1, <2>1, ListFacts DEF MonotoneInv, TypeOK
  <2> QED  BY <2>1, <2>2
<1>5. ASSUME NEW q \in First(n) PROVE \E m \in 1 .. n : f[m] = q
  <2>1. PICK m \in 1 .. n : KeyAt(q) = data[m]
    BY DEF First
  <2>2. f[m] \in Places /\ q \in Places /\ KeyAt(f[m]) = KeyAt(q)
    BY <1>2, <2>1 DEF First
  <2>3. f[m] = q
    <3> HIDE DEF f
    <3> QED  BY <2>2, OnePlace
  <2> QED  BY <2>3
<1>6. f \in Bijection(1 .. n, First(n))
  BY <1>3, <1>4, <1>5 DEF Bijection, Injection, Surjection, IsInjective
<1>7. IsFiniteSet(1 .. n) /\ Cardinality(1 .. n) = n
  BY <1>1, FS_Interval
<1>8. ExistsBijection(1 .. n, First(n))
  BY <1>6 DEF ExistsBijection
<1> QED
  BY <1>7, <1>8, FS_Bijection

\* What the walk has passed when it comes to the n-th key, and beyond it.
LEMMA FirstPlaces ==
  ASSUME MonotoneInv, NEW u \in Places
  PROVE  \E n \in 1 .. i :
           /\ KeyAt(u) = data[n]
           /\ {q \in Places : PlaceBefore(q, u)} = First(n - 1)
           /\ {q \in Places : PlaceBefore(q, u) \/ q = u} = First(n)
<1>1. PICK n \in 1 .. i : KeyAt(u) = data[n]
  BY DEF MonotoneInv, HoldsInserted
<1>2. i \in Nat /\ i <= Len(data) /\ Len(data) \in Nat
  <2>1. i \in 0 .. Len(data) /\ Len(data) \in Nat
    BY ListFacts DEF MonotoneInv, TypeOK
  <2> QED  BY <2>1
<1>3. ASSUME NEW q \in Places
      PROVE  /\ PlaceBefore(q, u) <=> \E m \in 1 .. n - 1 : KeyAt(q) = data[m]
             /\ PlaceBefore(q, u) \/ q = u <=> \E m \in 1 .. n : KeyAt(q) = data[m]
  <2>1. PICK m \in 1 .. i : KeyAt(q) = data[m]
    BY DEF MonotoneInv, HoldsInserted
  <2>2. /\ m \in Nat /\ n \in Nat /\ m \in 1 .. Len(data) /\ n \in 1 .. Len(data)
        /\ n - 1 \in Int
    BY <1>2
  <2>3. \A l \in 1 .. i : data[l] \in Nat
    <3>1. \A l \in 1 .. i : l \in 1 .. Len(data)
      BY <1>2
    <3> QED  BY <3>1, ListFacts, KeyFacts DEF MonotoneInv, TypeOK
  <2>4. \A l \in 1 .. i : data[l] = data[m] => l = m
    <3> SUFFICES ASSUME NEW l \in 1 .. i, data[l] = data[m] PROVE l = m
      OBVIOUS
    <3>1. l \in 1 .. Len(data) /\ l \in Nat
      BY <1>2
    <3>2. ~(l < m) /\ ~(m < l)
      BY <2>2, <2>3, <3>1, ListFacts DEF MonotoneInv, TypeOK
    <3> QED  BY <2>2, <3>1, <3>2
  <2>5. PlaceBefore(q, u) <=> m < n
    <3>1. CASE m < n
      <4>1. data[m] < data[n]
        BY <2>2, <3>1, ListFacts DEF MonotoneInv, TypeOK
      <4>2. q # u /\ ~PlaceBefore(u, q)
        BY <1>1, <2>1, <2>3, <4>1 DEF MonotoneInv, WalkAscends
      <4>3. q \in Nat \X Pairs /\ u \in Nat \X Pairs
        BY PlaceFacts DEF MonotoneInv
      <4> QED  BY <3>1, <4>2, <4>3, PlaceOrder
    <3>2. CASE n < m
      <4>1. data[n] < data[m]
        BY <2>2, <3>2, ListFacts DEF MonotoneInv, TypeOK
      <4>2. ~PlaceBefore(q, u)
        BY <1>1, <2>1, <2>3, <4>1 DEF MonotoneInv, WalkAscends
      <4> QED  BY <2>2, <3>2, <4>2
    <3>3. CASE m = n
      <4>1. q = u
        BY <1>1, <2>1, <3>3, OnePlace
      <4>2. ~PlaceBefore(q, u)
        BY <4>1, PlaceFacts, PlaceOrder DEF MonotoneInv
      <4> QED  BY <2>2, <3>3, <4>2
    <3> QED  BY <2>2, <3>1, <3>2, <3>3
  <2>6. q = u <=> m = n
    <3>1. m = n => q = u
      BY <1>1, <2>1, OnePlace
    <3>2. q = u => m = n
      BY <1>1, <2>1, <2>4
    <3> QED  BY <3>1, <3>2
  <2>7. \A l \in 1 .. i : KeyAt(q) = data[l] <=> l = m
    BY <2>1, <2>4
  <2>8. (\E l \in 1 .. n - 1 : KeyAt(q) = data[l]) <=> m < n
    <3>1. \A l \in 1 .. n - 1 : l \in 1 .. i
      BY <1>2
    <3>2. (\E l \in 1 .. n - 1 : KeyAt(q) = data[l]) <=> m \in 1 .. n - 1
      BY <2>7, <3>1
    <3> QED  BY <2>2, <3>2
  <2>9. (\E l \in 1 .. n : KeyAt(q) = data[l]) <=> m <= n
    <3>1. \A l \in 1 .. n : l \in 1 .. i
      BY <1>2
    <3>2. (\E l \in 1 .. n : KeyAt(q) = data[l]) <=> m \in 1 .. n
      BY <2>7, <3>1
    <3> QED  BY <2>2, <3>2
  <2> QED  BY <2>2, <2>5, <2>6, <2>8, <2>9
<1> QED
  BY <1>1, <1>3 DEF First

\* The rank of an iterator on a slot, and that of end().
LEMMA PassedHere ==
  ASSUME MonotoneInv
  PROVE  /\ Passed(it) = {q \in Places : PlaceBefore(q, Here)}
         /\ Passed(end) = First(i)
<1>1. Passed(it) = {q \in Places : PlaceBefore(q, Here)}
  BY DEF Passed, PlaceBefore, Here
<1>2. \A q \in Places : q[1] < Size
  <2>1. Size \in Nat
    BY ListFacts DEF MonotoneInv, TypeOK
  <2>2. \A q \in Places : q[1] \in Directory
    BY PlaceFacts DEF MonotoneInv
  <2> QED  BY <2>1, <2>2 DEF Directory
<1>3. Passed(end) = Places
  BY <1>2 DEF Passed, end
<1>4. First(i) = Places
  BY DEF First, MonotoneInv, HoldsInserted
<1> QED
  BY <1>1, <1>3, <1>4

\* The iterator of the sorted array.
Index == IF it = None THEN None ELSE Rank(it)

\* Where an iterator stands it reads the element of its index, or Sentinel if
\* it has none there.
ReadInv ==
  it # None =>
    /\ it = end => KeyRead = None /\ Index = Len(data)
    /\ it # end /\ Here \in Places =>
         /\ KeyRead # Sentinel /\ KeyRead = data[Index + 1]
         /\ Index \in 0 .. Len(data) - 1
    /\ it # end /\ Here \notin Places => KeyRead = Sentinel

LEMMA ReadFollows == MonotoneInv => ReadInv
<1> SUFFICES ASSUME MonotoneInv, it # None PROVE ReadInv
  BY DEF ReadInv
<1>1. i = Len(data) /\ Len(data) \in Nat
  BY ListFacts DEF MonotoneInv, TypeOK, IteratorInv, Built
<1>2. CASE it = end
  <2>1. Passed(it) = First(i) /\ i \in 0 .. i
    BY <1>1, <1>2, PassedHere
  <2>2. Index = Len(data)
    BY <1>1, <2>1, FirstSize DEF Index, Rank
  <2> QED  BY <1>1, <1>2, <2>2 DEF ReadInv, KeyRead
<1>3. CASE it # end /\ Here \in Places
  <2>1. PICK n \in 1 .. i : KeyAt(Here) = data[n] /\ Passed(it) = First(n - 1)
    BY <1>3, PassedHere, FirstPlaces
  <2>2. n - 1 \in 0 .. i /\ n - 1 < Len(data) /\ n = (n - 1) + 1
    BY <1>1
  <2>3. Index = n - 1
    BY <2>1, <2>2, FirstSize DEF Index, Rank
  <2>4. KeyRead = KeyAt(Here)
    BY <1>3 DEF KeyRead, KeyAt, Here
  <2>5. KeyRead # Sentinel
    BY <1>3, IteratorFacts DEF KeyRead, Free
  <2> QED  BY <1>1, <1>3, <2>1, <2>2, <2>3, <2>4, <2>5 DEF ReadInv
<1>4. CASE it # end /\ Here \notin Places
  <2>1. KeyRead = Sentinel
    BY <1>4, IteratorFacts DEF KeyRead, Free
  <2> QED  BY <1>4, <2>1 DEF ReadInv
<1> QED
  BY <1>2, <1>3, <1>4

LEMMA InsertRefines == MonotoneInv /\ Insert => [Ordered!NextTable]_(Ordered!tableVars)
<1> SUFFICES ASSUME MonotoneInv, Insert PROVE [Ordered!NextTable]_(Ordered!tableVars)
  OBVIOUS
<1>1. ~Built /\ i' = i + 1 /\ data' = data /\ it' = it
  BY DEF Insert, Inserted
<1>2. it = None /\ it' = None
  BY <1>1 DEF MonotoneInv, IteratorInv
<1>3. KeyRead = None /\ KeyRead' = None
  BY <1>2 DEF KeyRead
<1>4. CASE Built'
  BY <1>1, <1>2, <1>3, <1>4 DEF Ordered!NextTable, Ordered!ConstructTable, Ordered!Construct
<1>5. CASE ~Built'
  <2>1. Built' = Built
    BY <1>1, <1>5 DEF Built
  <2> QED  BY <1>1, <1>2, <1>3, <2>1 DEF Ordered!tableVars
<1> QED
  BY <1>4, <1>5

LEMMA FindRefines ==
  ASSUME MonotoneInv, NEW k \in Key, Find(k)
  PROVE  Ordered!FindElement(k)
<1>0. /\ UNCHANGED <<data, i, chain>> /\ it \in {None, end} /\ Built
      /\ Places' = Places /\ end' = end /\ Built' = Built
  BY TableKept DEF Find
<1>1. Len(data) \in Nat /\ Len(data) > 0 /\ i = Len(data) /\ DOMAIN data = 1 .. Len(data)
  BY <1>0, ListFacts DEF MonotoneInv, TypeOK, Built
<1>2. Cardinality(First(i)) = Len(data)
  BY <1>1, FirstSize
<1>3. Index \in {None, Len(data)}
  <2>1. it = end => Rank(it) = Len(data)
    BY <1>2, PassedHere DEF Rank
  <2> QED  BY <1>0, <2>1 DEF Index
<1>6. ~Ordered!InGap
  BY <1>0, MonotoneAssumption DEF KeyRead, Ordered!InGap
<1>4. CASE \E u \in Places : KeyAt(u) = k
                           /\ it' = [dir |-> u[1], bucket |-> u[2][1], slot |-> u[2][2]]
  <2>1. PICK u \in Places : KeyAt(u) = k
                           /\ it' = [dir |-> u[1], bucket |-> u[2][1], slot |-> u[2][2]]
    BY <1>4
  <2>2. PICK n \in 1 .. i : KeyAt(u) = data[n]
                           /\ {q \in Places : PlaceBefore(q, u)} = First(n - 1)
    BY FirstPlaces
  <2>3. n - 1 \in 0 .. i /\ n - 1 \in 0 .. Len(data) - 1 /\ (n - 1) + 1 = n
    BY <1>1, <2>2
  <2>4. Passed(it)' = First(n - 1)
    <3>1. u[2] = <<u[2][1], u[2][2]>>
      <4>1. u \in Nat \X Pairs
        BY PlaceFacts DEF MonotoneInv
      <4> QED  BY <4>1 DEF Pairs
    <3>2. Passed(it)' = {q \in Places : PlaceBefore(q, u)}
      BY <1>0, <2>1, <3>1 DEF Passed, PlaceBefore, Before
    <3> QED  BY <2>2, <3>2
  <2>5. it' # None
    <3>1. u[1] \in Nat /\ u[2][1] \in Nat /\ u[2][2] \in Nat
      <4>1. u \in Nat \X Pairs
        BY PlaceFacts DEF MonotoneInv
      <4> QED  BY <4>1 DEF Pairs
    <3> QED  BY <2>1, <3>1, MonotoneAssumption
  <2>6. Index' = n - 1
    BY <2>3, <2>4, <2>5, FirstSize DEF Index, Rank
  <2>7. data[(n - 1) + 1] = k
    BY <2>1, <2>2, <2>3
  <2>8. \E index \in 0 .. Len(data) - 1 :
          /\ (\E m \in DOMAIN data : data[m] = k) => data[index + 1] = k
          /\ Index' = IF data[index + 1] = k THEN index ELSE Len(data)
    BY <2>3, <2>6, <2>7
  <2>9. KeyRead' = Ordered!Element(Index')
    <3>1. u[1] \in Directory /\ Size \in Nat
      BY PlaceFacts, ListFacts DEF MonotoneInv, TypeOK
    <3>2. it' # end
      BY <2>1, <3>1 DEF end, Directory
    <3>3. KeyRead' = k
      BY <1>0, <2>1, <2>5, <3>2 DEF KeyRead, KeyAt
    <3>4. Index' < Len(data)
      BY <1>1, <2>3, <2>6
    <3> QED  BY <2>6, <2>7, <3>3, <3>4 DEF Ordered!Element, Ordered!end
  <2>10. Ordered!Find(k)
    BY <1>0, <1>3, <2>8 DEF Ordered!Find, Ordered!end, Index
  <2> QED  BY <1>6, <2>9, <2>10 DEF Ordered!FindElement, Index
<1>5. CASE it' = end /\ \A n \in 1 .. i : data[n] # k
  <2>1. Passed(it)' = First(i)
    <3>1. Passed(it)' = Passed(end)
      BY <1>0, <1>5 DEF Passed, Before
    <3> QED  BY <3>1, PassedHere
  <2>2. it' # None
    BY <1>5, MonotoneAssumption, ListFacts DEF MonotoneInv, TypeOK, end
  <2>3. Index' = Len(data)
    BY <1>2, <2>1, <2>2 DEF Index, Rank
  <2>4. 0 \in 0 .. Len(data) - 1 /\ data[0 + 1] # k /\ \A m \in DOMAIN data : data[m] # k
    BY <1>1, <1>5
  <2>5. \E index \in 0 .. Len(data) - 1 :
          /\ (\E m \in DOMAIN data : data[m] = k) => data[index + 1] = k
          /\ Index' = IF data[index + 1] = k THEN index ELSE Len(data)
    BY <2>3, <2>4
  <2>6. KeyRead' = Ordered!Element(Index')
    BY <1>0, <1>1, <1>5, <2>3 DEF KeyRead, Ordered!Element, Ordered!end
  <2>7. Ordered!Find(k)
    BY <1>0, <1>3, <2>5 DEF Ordered!Find, Ordered!end, Index
  <2> QED  BY <1>6, <2>6, <2>7 DEF Ordered!FindElement, Index
<1> QED
  BY <1>4, <1>5, FindEffect

LEMMA AdvanceRefines == MonotoneInv /\ Advance => [Ordered!NextTable]_(Ordered!tableVars)
<1> SUFFICES ASSUME MonotoneInv, Advance PROVE [Ordered!NextTable]_(Ordered!tableVars)
  OBVIOUS
<1>0. /\ UNCHANGED <<data, i, chain>> /\ it # None /\ it # end /\ it' # None
      /\ Built /\ Built' = Built /\ i = Len(data) /\ Len(data) \in Nat
      /\ end' = end /\ Places' = Places
  <2>1. UNCHANGED <<data, i, chain>> /\ it # None /\ it # end
    BY DEF Advance
  <2>2. Built' = Built /\ it' # None /\ end' = end /\ Places' = Places
    BY <2>1, TableKept, AdvanceEffect
  <2>3. Built /\ Len(data) \in Nat
    BY <2>1, ListFacts DEF MonotoneInv, IteratorInv, TypeOK
  <2> QED  BY <2>1, <2>2, <2>3 DEF Built
<1>1. /\ Passed(it) = {q \in Places : PlaceBefore(q, Here)}
      /\ Passed(it)' = {q \in Places : PlaceBefore(q, Here) \/ q = Here}
  BY PassedHere, AdvanceEffect
<1>2. KeyRead' \in {Ordered!Element(Index'), Sentinel}
  <2>1. ReadInv'
    <3>1. MonotoneInv'
      BY AdvanceStep
    <3>2. (MonotoneInv => ReadInv)'
      BY ReadFollows, PTL
    <3> QED  BY <3>1, <3>2
  <2>2. CASE it' = end
    BY <1>0, <2>1, <2>2 DEF ReadInv, Ordered!Element, Ordered!end
  <2>3. CASE it' # end /\ Here' \in Places
    <3>1. KeyRead' = data[Index' + 1] /\ Index' \in 0 .. Len(data) - 1
      BY <1>0, <2>1, <2>3 DEF ReadInv
    <3>2. Index' < Len(data)
      BY <1>0, <3>1
    <3> QED  BY <3>1, <3>2 DEF Ordered!Element, Ordered!end
  <2>4. CASE it' # end /\ Here' \notin Places
    BY <1>0, <2>1, <2>4 DEF ReadInv
  <2> QED  BY <2>2, <2>3, <2>4
\* It was on a key.
<1>3. CASE Here \in Places
  <2>1. PICK n \in 1 .. i : Passed(it) = First(n - 1) /\ Passed(it)' = First(n)
    BY <1>1, <1>3, FirstPlaces
  <2>2. n - 1 \in 0 .. i /\ n \in 0 .. i /\ n - 1 < Len(data) /\ n = (n - 1) + 1
    BY <1>0
  <2>3. Cardinality(First(n - 1)) = n - 1 /\ Cardinality(First(n)) = n
    BY <2>2, FirstSize
  <2>4. Index = n - 1 /\ Index' = n
    BY <1>0, <2>1, <2>3 DEF Index, Rank
  <2>5. Index # None
    BY <2>2, <2>4, MonotoneAssumption
  <2>6. Ordered!Advance
    BY <1>0, <2>2, <2>4, <2>5 DEF Ordered!Advance, Ordered!end, Index
  <2>7. ~Ordered!InGap
    BY <1>0, <1>3, ReadFollows DEF ReadInv, Ordered!InGap
  <2>8. Ordered!PassElement
    BY <1>2, <2>6, <2>7 DEF Ordered!PassElement, Index
  <2> QED  BY <2>8 DEF Ordered!NextTable
\* It was at the head of a bucket without a key.
<1>4. CASE Here \notin Places
  <2>1. Passed(it)' = Passed(it)
    BY <1>1, <1>4
  <2>2. Index' = Index
    BY <1>0, <2>1 DEF Index, Rank
  <2>3. KeyRead = Sentinel
    BY <1>0, <1>4, ReadFollows DEF ReadInv
  <2>4. CASE KeyRead' = Ordered!Element(Index')
    <3>1. Ordered!LeaveGap
      BY <1>0, <2>2, <2>3, <2>4 DEF Ordered!LeaveGap, Ordered!InGap, Ordered!vars, Index
    <3> QED  BY <3>1 DEF Ordered!NextTable
  <2>5. CASE KeyRead' = Sentinel
    BY <1>0, <2>2, <2>3, <2>5 DEF Ordered!tableVars, Index
  <2> QED  BY <1>2, <2>4, <2>5
<1> QED
  BY <1>3, <1>4

LEMMA DropRefines == MonotoneInv /\ Drop => Ordered!DropIterator
<1> SUFFICES ASSUME MonotoneInv, Drop PROVE Ordered!DropIterator
  OBVIOUS
<1>0. UNCHANGED <<data, i, chain>> /\ it # None /\ it' = None /\ Built' = Built
  BY TableKept DEF Drop
<1>1. IsFiniteSet(Passed(it))
  <2>1. First(i) = Places /\ IsFiniteSet(First(i))
    <3>1. i \in 0 .. i
      BY ListFacts DEF MonotoneInv, TypeOK
    <3> QED  BY <3>1, FirstSize DEF First, MonotoneInv, HoldsInserted
  <2> QED  BY <2>1, FS_Subset DEF Passed
<1>2. Index # None /\ Index' = None
  <2>1. Rank(it) \in Nat
    BY <1>1, FS_CardinalityType DEF Rank
  <2> QED  BY <1>0, <2>1, MonotoneAssumption DEF Index
<1>3. KeyRead' = None
  BY <1>0 DEF KeyRead
<1> QED
  BY <1>0, <1>2, <1>3 DEF Ordered!DropIterator, Ordered!Drop, Index

\* MonotoneTable implements OrderedTable: a lookup finds the key's place in the
\* sorted order or end(), operator++ passes the key it is on and stands at the
\* next one or in a gap, and what the iterator reads is that key, or Sentinel in
\* the gap, where operator++ passes nothing.
THEOREM RefinementCorrect == Spec => ImplementsOrderedTable
<1>1. Init => Ordered!InitTable
  <2> SUFFICES ASSUME Init PROVE Ordered!InitTable
    OBVIOUS
  <2>1. data \in Seq(Key) /\ Ordered!Ascending(data)
    BY MonotoneAssumption DEF Init, Ordered!Ascending
  <2>2. ~Built
    BY ListFacts DEF Init, Built
  <2> QED  BY <2>1, <2>2 DEF Init, Ordered!InitTable, Ordered!Init, KeyRead
<1>2. MonotoneInv /\ [Next]_vars => [Ordered!NextTable]_(Ordered!tableVars)
  <2> SUFFICES ASSUME MonotoneInv, [Next]_vars PROVE [Ordered!NextTable]_(Ordered!tableVars)
    OBVIOUS
  <2>1. CASE Insert
    BY <2>1, InsertRefines
  <2>2. ASSUME NEW k \in Key, Find(k) PROVE Ordered!NextTable
    BY <2>2, FindRefines DEF Ordered!NextTable
  <2>3. CASE Advance
    BY <2>3, AdvanceRefines
  <2>4. CASE Drop
    BY <2>4, DropRefines DEF Ordered!NextTable
  <2>5. CASE UNCHANGED vars
    <3>1. UNCHANGED <<data, i, chain, it>>
      BY <2>5 DEF vars
    <3>2. Built' = Built /\ Places' = Places
      BY <3>1, TableKept
    <3>3. Passed(it)' = Passed(it)
      BY <3>1, <3>2 DEF Passed, Before
    <3>4. Index' = Index
      BY <3>1, <3>3 DEF Index, Rank
    <3>5. KeyRead' = KeyRead
      BY <3>1, TableKept DEF KeyRead
    <3> QED  BY <3>1, <3>2, <3>4, <3>5 DEF Ordered!tableVars, Index
  <2> QED  BY <2>1, <2>2, <2>3, <2>4, <2>5 DEF Next
<1> QED
  BY <1>1, <1>2, WalkInductive, PTL DEF Spec, ImplementsOrderedTable, Ordered!SpecTable
=============================================================================
