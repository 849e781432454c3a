----------------------------- MODULE CuckooProofs ---------------------------
(***************************************************************************)
(* Proofs about CuckooTable for every pair of hash functions, list, bucket *)
(* size, over-allocation, kicking strategy and sequence of random numbers. *)
(***************************************************************************)
EXTENDS CuckooProperties, BulkLoadProofs, FiniteSetTheorems, FunctionTheorems

-----------------------------------------------------------------------------
(* Buckets and slots.                                                      *)

\* Both buckets of a key are in the directory, and they are two buckets
\* wherever there are two.
LEMMA HomesInDirectory ==
  ASSUME LoopInv, Size > 0, NEW k \in Key
  PROVE  /\ Primary(k) \in Directory /\ Secondary(k) \in Directory
         /\ Homes(k) \subseteq Directory
         /\ Size > 1 => Primary(k) # Secondary(k)
<1> DEFINE z == Size
           p == H1(k) % z
           q == H2(k) % z
<1>1. z \in Nat \ {0} /\ H1(k) \in Nat /\ H2(k) \in Nat
  BY ListType, CuckooAssumption
<1>2. p \in 0 .. z - 1 /\ q \in 0 .. z - 1
  <2> HIDE DEF z
  <2> QED  BY <1>1, Z3
<1>3. (q + 1) % z \in 0 .. z - 1 /\ (z > 1 => (q + 1) % z # q)
  <2> HIDE DEF z, q, p
  <2>1. CASE q + 1 < z
    BY <1>1, <1>2, <2>1, Z3
  <2>2. CASE q + 1 = z
    <3>1. (q + 1) % z = 0
      BY <1>1, <1>2, <2>2, Z3
    <3> QED  BY <1>1, <1>2, <2>2, <3>1
  <2> QED  BY <1>1, <1>2, <2>1, <2>2
<1>4. /\ Primary(k) = p /\ Directory = 0 .. z - 1
      /\ Secondary(k) = IF q = p THEN (q + 1) % z ELSE q
  BY DEF Primary, Secondary, Directory
<1> QED
  <2> HIDE DEF z, q, p
  <2> QED  BY <1>2, <1>3, <1>4 DEF Homes, z

LEMMA SlotSet ==
  /\ BucketSize \in Nat \ {0} /\ Slot = 0 .. BucketSize - 1
  /\ IsFiniteSet(Slot) /\ Cardinality(Slot) = BucketSize
<1>1. BucketSize \in Nat \ {0} /\ 0 \in Int /\ BucketSize - 1 \in Int
  BY BulkLoadAssumption
<1>2. /\ IsFiniteSet(0 .. BucketSize - 1)
      /\ Cardinality(0 .. BucketSize - 1)
           = IF 0 > BucketSize - 1 THEN 0 ELSE (BucketSize - 1) - 0 + 1
  BY <1>1, FS_Interval
<1> QED
  BY <1>1, <1>2 DEF Slot

LEMMA CountType == \A b : Count(b) \in 0 .. BucketSize
<1> SUFFICES ASSUME NEW b PROVE Count(b) \in 0 .. BucketSize
  OBVIOUS
<1> DEFINE S == {s \in Slot : slots[<<b, s>>] # Sentinel}
<1>1. S \in SUBSET Slot
  OBVIOUS
<1> HIDE DEF S
<1>2. Cardinality(S) \in Nat /\ Cardinality(S) <= Cardinality(Slot)
  BY <1>1, SlotSet, FS_Subset, FS_CardinalityType
<1> QED
  BY <1>2, SlotSet DEF Count, S

\* The occupied slots are finitely many, and a key in each is a key for each.
LEMMA OccupiedCount ==
  ASSUME LoopInv, TypeOK
  PROVE  /\ IsFiniteSet(Occupied) /\ Cardinality(Occupied) \in Nat
         /\ KeysApart => Cardinality(Stored) = Cardinality(Occupied)
<1>1. IsFiniteSet(Directory)
  <2>1. 0 \in Int /\ Size - 1 \in Int
    BY ListType
  <2> QED  BY <2>1, FS_Interval DEF Directory
<1>2. IsFiniteSet(Directory \X Slot)
  BY <1>1, SlotSet, FS_Product
<1>3. Occupied \in SUBSET (Directory \X Slot) /\ DOMAIN slots = Directory \X Slot
  BY DEF Occupied, TypeOK
<1>4. IsFiniteSet(Occupied) /\ Cardinality(Occupied) \in Nat
  BY <1>2, <1>3, FS_Subset, FS_CardinalityType
<1>5. ASSUME KeysApart PROVE Cardinality(Stored) = Cardinality(Occupied)
  <2> DEFINE f == [p \in Occupied |-> slots[p]]
  <2>1. Stored = {slots[p] : p \in Occupied}
    BY DEF Stored, Occupied
  <2>2. f \in [Occupied -> Stored]
    BY <2>1
  <2>3. \A x, y \in Occupied : f[x] = f[y] => x = y
    BY <1>5 DEF KeysApart
  <2>4. \A k \in Stored : \E p \in Occupied : f[p] = k
    BY <2>1
  <2> HIDE DEF f
  <2>5. f \in Surjection(Occupied, Stored) /\ f \in Injection(Occupied, Stored)
    BY <2>2, <2>3, <2>4, Fun_IsSurj, Fun_IsInj
  <2> QED  BY <1>4, <2>5, FS_Surjection
<1> QED
  BY <1>4, <1>5

\* Two full buckets.
LEMMA FullHomesCrowd ==
  ASSUME LoopInv, TypeOK, BucketsFillFromTheFront, Size > 0, NEW k \in Key,
         \A b \in Homes(k) : ~HasSpace(b)
  PROVE  Crowded /\ Homes(k) \X Slot \subseteq Occupied
<1>1. Homes(k) \subseteq Directory
  BY HomesInDirectory
<1>2. Homes(k) \X Slot \subseteq Occupied
  <2> SUFFICES ASSUME NEW b \in Homes(k), NEW s \in Slot PROVE <<b, s>> \in Occupied
    OBVIOUS
  <2>1. Count(b) \in 0 .. BucketSize /\ ~(Count(b) < BucketSize)
    BY CountType DEF HasSpace
  <2>2. s < Count(b)
    BY <2>1, SlotSet
  <2>3. slots[<<b, s>>] # Sentinel
    BY <1>1, <2>2 DEF BucketsFillFromTheFront
  <2> QED  BY <1>1, <2>3 DEF Occupied, TypeOK
<1>3. ASSUME Size > 1 PROVE Cardinality(Occupied) >= 2 * BucketSize
  <2>1. Primary(k) # Secondary(k)
    BY <1>3, HomesInDirectory
  <2>2. IsFiniteSet(Homes(k)) /\ Cardinality(Homes(k)) = 2
    <3>1. /\ IsFiniteSet({Primary(k)}) /\ Cardinality({Primary(k)}) = 1
          /\ Homes(k) = {Primary(k)} \cup {Secondary(k)}
      BY FS_Singleton DEF Homes
    <3> QED  BY <2>1, <3>1, FS_AddElement
  <2>3. Cardinality(Homes(k) \X Slot) = 2 * BucketSize
    <3>1. IsFiniteSet(Slot) /\ Cardinality(Slot) = BucketSize
      BY SlotSet
    <3>2. Cardinality(Homes(k) \X Slot) = Cardinality(Homes(k)) * Cardinality(Slot)
      BY <2>2, <3>1, FS_Product, Zenon
    <3> QED  BY <2>2, <3>1, <3>2
  <2>4. Cardinality(Homes(k) \X Slot) <= Cardinality(Occupied)
    BY <1>2, OccupiedCount, FS_Subset
  <2> QED  BY <2>3, <2>4, OccupiedCount, SlotSet
<1> QED
  BY <1>2, <1>3 DEF Crowded

\* What is looked for in both buckets of a key is looked for everywhere.
LEMMA PresentIsStored ==
  ASSUME LoopInv, TypeOK, KeysAtHome, Size > 0, NEW k \in Key
  PROVE  Present(k) <=> k \in Stored
<1>1. k # Sentinel /\ Homes(k) \subseteq Directory /\ DOMAIN slots = Directory \X Slot
  BY BulkLoadAssumption, HomesInDirectory DEF TypeOK
<1>2. ASSUME NEW p \in Directory \X Slot, slots[p] = k PROVE Present(k)
  <2>1. p[1] \in Homes(k) /\ p[2] \in Slot /\ p = <<p[1], p[2]>>
    BY <1>1, <1>2 DEF KeysAtHome, Occupied
  <2> QED  BY <1>2, <2>1 DEF Present
<1> QED
  BY <1>1, <1>2 DEF Present, Stored

\* What insert() knows of the key in hand.
LEMMA HandKey ==
  ASSUME KickInv, TypeOK, hand # None
  PROVE  /\ hand \in Key /\ hand # Sentinel /\ hand \notin Stored
         /\ Size > 0 /\ More /\ Defined
         /\ Homes(hand) \subseteq Directory /\ ~Present(hand)
         /\ status \in Building /\ Held = {hand}
         /\ Given = Inserted \union {Current} /\ Given = Stored \union {hand}
<1>1. hand \in Key /\ hand # Sentinel
  BY BulkLoadAssumption DEF TypeOK
<1>2. Size > 0 /\ More /\ Defined /\ status \in Building /\ status # "failed"
  BY DEF KickInv, CallInv, Defined, More, Building
<1>3. Held = {hand} /\ hand \notin Stored /\ Given = Stored \union {hand}
  BY <1>2 DEF Held, KickInv, GivenInv
<1>4. Homes(hand) \subseteq Directory /\ ~Present(hand)
  BY <1>1, <1>2, <1>3, HomesInDirectory, PresentIsStored DEF KickInv
<1> QED
  BY <1>1, <1>2, <1>3, <1>4 DEF Given

-----------------------------------------------------------------------------
(* Writing a slot.                                                         *)

\* A place is the first free slot of a bucket of the key.
LEMMA PlaceIsFree ==
  ASSUME KickInv, TypeOK, Place
  PROVE  \E b \in Homes(hand) :
           /\ b \in Directory /\ Count(b) \in Slot
           /\ slots[<<b, Count(b)>>] = Sentinel
           /\ slots' = [slots EXCEPT ![<<b, Count(b)>>] = hand]
<1>1. hand \in Key /\ Homes(hand) \subseteq Directory /\ ~Present(hand)
  BY HandKey DEF Place, CanPlace
<1> DEFINE b == IF PrefersPrimary(hand) THEN Primary(hand) ELSE Secondary(hand)
<1>2. HasSpace(b) /\ b \in Homes(hand)
  <2>1. \E c \in Homes(hand) : HasSpace(c)
    BY <1>1 DEF Place
  <2>2. Count(Primary(hand)) \in 0 .. BucketSize /\ Count(Secondary(hand)) \in 0 .. BucketSize
    BY CountType
  <2> QED  BY <2>1, <2>2, SlotSet DEF Homes, HasSpace, PrefersPrimary
<1>3. Count(b) \in Slot
  BY <1>2, CountType, SlotSet DEF HasSpace
<1>4. slots[<<b, Count(b)>>] = Sentinel
  <2>1. b \in Directory /\ ~(Count(b) < Count(b))
    BY <1>1, <1>2, <1>3, SlotSet
  <2> QED  BY <1>3, <2>1 DEF KickInv, BucketsFillFromTheFront
<1>5. slots' = [slots EXCEPT ![<<b, Count(b)>>] = hand]
  BY <1>1 DEF Place, FreePlace
<1> QED
  BY <1>1, <1>2, <1>3, <1>4, <1>5

\* The directory and the homes stay what they are.
LEMMA SameHomes ==
  ASSUME Size' = Size
  PROVE  Directory' = Directory /\ \A k : Homes(k)' = Homes(k)
BY DEF Directory, Homes, Primary, Secondary

LEMMA PlaceInv ==
  ASSUME KickInv, TypeOK, Place
  PROVE  KickInv' /\ TypeOK' /\ Stored' = Stored \union {hand} /\ Held' = {} /\ Given' = Given
<1>1. /\ hand \in Key /\ hand # Sentinel /\ hand \notin Stored
      /\ Size > 0 /\ More /\ Defined /\ Homes(hand) \subseteq Directory
      /\ status \in Building /\ Held = {hand}
      /\ Given = Inserted \union {Current} /\ Given = Stored \union {hand}
  BY HandKey DEF Place, CanPlace
<1>2. PICK b \in Homes(hand) :
        /\ b \in Directory /\ Count(b) \in Slot
        /\ slots[<<b, Count(b)>>] = Sentinel
        /\ slots' = [slots EXCEPT ![<<b, Count(b)>>] = hand]
  BY PlaceIsFree
<1> DEFINE p == <<b, Count(b)>>
<1>3. /\ LoopInv' /\ Inserted' = Inserted \union {Current}
      /\ Size' = Size /\ status' = status /\ data' = data
      /\ hand' = None /\ kickingfn' = kickingfn /\ kicks' = kicks
  BY <1>1, AdvanceLoop DEF Place, KickInv, Advance
<1>4. /\ Directory' = Directory /\ \A k : Homes(k)' = Homes(k)
      /\ DOMAIN slots = Directory \X Slot /\ p \in Directory \X Slot
  BY <1>2, <1>3, SameHomes DEF TypeOK
<1>5. /\ slots' \in [Directory \X Slot -> Key \union {Sentinel}]
      /\ \A q \in Directory \X Slot : slots'[q] = IF q = p THEN hand ELSE slots[q]
  BY <1>1, <1>2, <1>4 DEF TypeOK
<1>6. TypeOK'
  BY <1>3, <1>4, <1>5, ListType DEF TypeOK, LoopInv
<1>7. Occupied' = Occupied \union {p} /\ p \notin Occupied
  BY <1>1, <1>2, <1>4, <1>5 DEF Occupied
<1>8. Stored' = Stored \union {hand} /\ Held' = {}
  <2>1. Stored' = Stored \union {hand}
    BY <1>1, <1>2, <1>4, <1>5 DEF Stored
  <2> QED  BY <1>3, <2>1 DEF Held
<1>9. KeysAtHome'
  BY <1>2, <1>4, <1>5, <1>7 DEF KickInv, KeysAtHome, Occupied
<1>10. KeysApart'
  <2> SUFFICES ASSUME NEW q \in Occupied', NEW r \in Occupied', slots'[q] = slots'[r]
               PROVE  q = r
    BY DEF KeysApart
  <2>1. \A s \in Occupied : slots'[s] = slots[s] /\ slots'[s] # hand
    BY <1>1, <1>4, <1>5, <1>7 DEF Occupied, Stored
  <2>2. slots'[p] = hand
    BY <1>4, <1>5
  <2> QED  BY <1>7, <2>1, <2>2 DEF KickInv, KeysApart
<1>11. BucketsFillFromTheFront'
  <2> SUFFICES ASSUME NEW c \in Directory, NEW s \in Slot
               PROVE  slots'[<<c, s>>] # Sentinel <=> s < Count(c)'
    BY <1>4 DEF BucketsFillFromTheFront, Slot
  <2> DEFINE S == {r \in Slot : slots[<<c, r>>] # Sentinel}
             T == {r \in Slot : slots'[<<c, r>>] # Sentinel}
  <2>1. Count(c) = Cardinality(S) /\ Count(c)' = Cardinality(T)
    BY DEF Count, Slot
  <2>2. IsFiniteSet(S)
    BY SlotSet, FS_Subset
  <2>3. slots[<<c, s>>] # Sentinel <=> s < Count(c)
    BY DEF KickInv, BucketsFillFromTheFront
  <2>4. CASE c # b
    <3>1. T = S /\ slots'[<<c, s>>] = slots[<<c, s>>]
      BY <1>5, <2>4
    <3> QED  BY <2>1, <2>3, <3>1
  <2>5. CASE c = b
    <3>1. T = S \union {Count(b)} /\ Count(b) \notin S
      BY <1>1, <1>2, <1>5, <2>5
    <3>2. Count(c)' = Count(c) + 1
      BY <2>1, <2>2, <3>1, FS_AddElement
    <3>3. Count(b) \in Nat /\ s \in Nat
      BY SlotSet, <1>2
    <3>4. slots'[<<c, s>>] # Sentinel <=> s < Count(c) \/ s = Count(b)
      BY <1>1, <1>5, <2>3, <2>5
    <3> QED  BY <2>5, <3>2, <3>3, <3>4
  <2> QED  BY <2>4, <2>5
<1>12. Given' = Given
  BY <1>1, <1>3 DEF Given, Building
<1> QED
  BY <1>1, <1>3, <1>6, <1>8, <1>9, <1>10, <1>11, <1>12
     DEF KickInv, CallInv, FailInv, GivenInv, Building

\* A kick exchanges the key in hand for one of a full bucket.
LEMMA KickStep ==
  ASSUME KickInv, TypeOK, Kick
  PROVE  KickInv' /\ TypeOK' /\ Stored' \union Held' = Stored \union {hand} /\ Given' = Given
<1>1. /\ hand \in Key /\ hand # Sentinel /\ hand \notin Stored
      /\ Size > 0 /\ More /\ Defined /\ Homes(hand) \subseteq Directory
      /\ status \in Building /\ Held = {hand}
      /\ Given = Inserted \union {Current} /\ Given = Stored \union {hand}
  BY HandKey DEF Kick, CanPlace
<1>2. PICK rng \in 0 .. RngMax :
        /\ hand' = slots[<<VictimBucket(hand, rng), rng % BucketSize>>]
        /\ slots' = [slots EXCEPT ![<<VictimBucket(hand, rng), rng % BucketSize>>] = hand]
  BY DEF Kick, PickUp
<1> DEFINE b == VictimBucket(hand, rng)
           p == <<b, rng % BucketSize>>
<1>3. Crowded /\ Homes(hand) \X Slot \subseteq Occupied
  BY <1>1, FullHomesCrowd DEF Kick, KickInv
<1>4. p \in Occupied /\ b \in Homes(hand)
  <2>1. rng \in Nat
    BY CuckooAssumption
  <2>2. rng % BucketSize \in Slot
    BY <2>1, SlotSet, Z3
  <2>3. b \in Homes(hand)
    BY DEF VictimBucket, Homes
  <2> QED  BY <1>3, <2>2, <2>3
<1>5. /\ data' = data /\ i' = i /\ status' = status
      /\ kickingfn' = kickingfn /\ kicks' = kicks + 1
  BY DEF Kick, CountKick, load
<1>6. /\ LoopInv' /\ Inserted' = Inserted /\ Size' = Size
      /\ More' /\ Defined' /\ Current' = Current
  <2>1. LoopInv' /\ Inserted' = Inserted /\ Size' = Size
    BY <1>5, QuietLoop DEF KickInv
  <2> QED  BY <1>1, <1>5, <2>1 DEF More, Defined, Split, Current
<1>7. /\ Directory' = Directory /\ \A k : Homes(k)' = Homes(k)
      /\ DOMAIN slots = Directory \X Slot /\ p \in Directory \X Slot
  BY <1>4, <1>6, SameHomes DEF TypeOK, Occupied
<1>8. /\ slots' \in [Directory \X Slot -> Key \union {Sentinel}]
      /\ \A q \in Directory \X Slot : slots'[q] = IF q = p THEN hand ELSE slots[q]
  BY <1>1, <1>2, <1>7 DEF TypeOK
<1>9. hand' \in Key /\ hand' \in Stored /\ hand' # None
  <2>1. hand' = slots[p] /\ slots[p] # Sentinel
    BY <1>2, <1>4 DEF Occupied
  <2> QED  BY <1>7, <2>1, CuckooAssumption DEF TypeOK, Stored
<1>10. TypeOK'
  <2>1. kicks' \in 0 .. MaxKickCycleLength + 1
    BY <1>5, CuckooAssumption DEF TypeOK, Kick, CanPlace
  <2> QED  BY <1>5, <1>7, <1>8, <1>9, <2>1 DEF TypeOK
<1>11. Occupied' = Occupied
  BY <1>1, <1>4, <1>7, <1>8 DEF Occupied
<1>12. /\ Stored' = (Stored \ {hand'}) \union {hand}
       /\ Held' = {hand'} /\ hand' # hand
  <2>1. Stored = {slots[q] : q \in Occupied} /\ Stored' = {slots'[q] : q \in Occupied}
    BY <1>11 DEF Stored, Occupied
  <2>2. \A q \in Occupied \ {p} : slots'[q] = slots[q] /\ slots[q] # hand'
    BY <1>2, <1>4, <1>7, <1>8 DEF Occupied, KickInv, KeysApart
  <2>3. slots'[p] = hand /\ slots[p] = hand'
    BY <1>2, <1>7, <1>8
  <2> QED  BY <1>1, <1>4, <1>9, <2>1, <2>2, <2>3 DEF Held
<1>13. KeysAtHome'
  BY <1>4, <1>7, <1>8, <1>11 DEF KickInv, KeysAtHome, Occupied
<1>14. KeysApart'
  <2> SUFFICES ASSUME NEW q \in Occupied, NEW r \in Occupied, slots'[q] = slots'[r]
               PROVE  q = r
    BY <1>11 DEF KeysApart
  <2>1. \A s \in Occupied : slots[s] # hand /\ slots'[s] = IF s = p THEN hand ELSE slots[s]
    BY <1>1, <1>7, <1>8 DEF Occupied, Stored
  <2> QED  BY <2>1 DEF KickInv, KeysApart
<1>15. BucketsFillFromTheFront'
  <2>1. \A c \in Directory, s \in Slot :
          slots'[<<c, s>>] # Sentinel <=> slots[<<c, s>>] # Sentinel
    BY <1>1, <1>4, <1>7, <1>8 DEF Occupied
  <2>2. \A c \in Directory : Count(c)' = Count(c)
    <3> SUFFICES ASSUME NEW c \in Directory PROVE Count(c)' = Count(c)
      OBVIOUS
    <3>1. {s \in Slot : slots'[<<c, s>>] # Sentinel} = {s \in Slot : slots[<<c, s>>] # Sentinel}
      BY <2>1
    <3> QED  BY <3>1 DEF Count, Slot
  <2> QED  BY <1>7, <2>1, <2>2 DEF KickInv, BucketsFillFromTheFront, Slot
<1>16. Given' = Given /\ Crowded'
  BY <1>1, <1>3, <1>6, <1>9, <1>11 DEF Given, Crowded
<1>17. GivenInv'
  BY <1>1, <1>9, <1>12, <1>16 DEF GivenInv
<1>18. CallInv' /\ FailInv'
  BY <1>1, <1>5, <1>6, <1>16 DEF CallInv, FailInv, Building
<1> QED
  BY <1>1, <1>6, <1>9, <1>10, <1>12, <1>13, <1>14, <1>15, <1>16, <1>17, <1>18 DEF KickInv

-----------------------------------------------------------------------------
(* The steps that leave the table alone.                                   *)

LEMMA TableStays ==
  ASSUME TypeOK, KickInv, Size' = Size, slots' = slots
  PROVE  /\ KeysAtHome' /\ BucketsFillFromTheFront' /\ KeysApart'
         /\ slots' \in [Directory' \X Slot -> Key \union {Sentinel}]
         /\ Stored' = Stored /\ Occupied' = Occupied
         /\ Crowded => Crowded'
<1>1. Directory' = Directory /\ \A k : Homes(k)' = Homes(k)
  BY SameHomes
<1>2. Stored' = Stored /\ Occupied' = Occupied /\ \A b : Count(b)' = Count(b)
  BY DEF Stored, Occupied, Count, Slot
<1>3. KeysAtHome'
  BY <1>1, <1>2 DEF KickInv, KeysAtHome
<1>4. BucketsFillFromTheFront'
  BY <1>1, <1>2 DEF KickInv, BucketsFillFromTheFront, Slot
<1>5. KeysApart'
  BY <1>2 DEF KickInv, KeysApart
<1> QED
  BY <1>1, <1>2, <1>3, <1>4, <1>5 DEF TypeOK, Crowded

\* A call takes up an element that was not given before.
LEMMA TakeInv ==
  ASSUME KickInv, TypeOK, Take
  PROVE  /\ KickInv' /\ TypeOK' /\ Stored' = Stored /\ Held = {} /\ Held' = {Current}
         /\ Current \in (Elements \ Given) /\ Given' = Given \union {Current}
<1>1. /\ hand = None /\ More /\ Defined /\ hand' = Current /\ kicks' = 0
      /\ data' = data /\ i' = i /\ status' = status
      /\ kickingfn' = kickingfn /\ slots' = slots
      /\ status # "failed"
  BY DEF Take, load, table, More
<1>2. Current \in Key \ Inserted /\ Current \in Elements /\ Current # None
  BY <1>1, CurrentIsNew, CuckooAssumption DEF KickInv, Defined
<1>3. Held = {} /\ Held' = {Current} /\ Given = Inserted /\ Stored = Inserted
  BY <1>1, <1>2 DEF Held, Given, KickInv, GivenInv
<1>4. LoopInv' /\ Inserted' = Inserted /\ Size' = Size
  BY <1>1, QuietLoop DEF KickInv
<1>5. /\ KeysAtHome' /\ BucketsFillFromTheFront' /\ KeysApart'
      /\ slots' \in [Directory' \X Slot -> Key \union {Sentinel}]
      /\ Stored' = Stored
  BY <1>1, <1>4, TableStays
<1>6. TypeOK'
  <2>1. kicks' \in 0 .. MaxKickCycleLength + 1
    BY <1>1, CuckooAssumption
  <2>2. hand' \in Key \union {None}
    BY <1>1, <1>2
  <2> QED  BY <1>1, <1>5, <2>1, <2>2 DEF TypeOK
<1>7. Current' = Current /\ More' /\ Defined'
  BY <1>1, <1>4 DEF Current, More, Defined, Split
<1>8. Given' = Given \union {Current}
  BY <1>1, <1>2, <1>3, <1>4, <1>7 DEF Given
<1>9. CallInv' /\ FailInv' /\ GivenInv'
  BY <1>1, <1>2, <1>3, <1>5, <1>7, <1>8 DEF CallInv, FailInv, GivenInv
<1> QED
  BY <1>2, <1>3, <1>4, <1>5, <1>6, <1>8, <1>9 DEF KickInv

\* The exception loses the key in hand.
LEMMA ThrowInv ==
  ASSUME KickInv, TypeOK, Throw
  PROVE  /\ KickInv' /\ TypeOK' /\ Stored' = Stored /\ Held' = {} /\ Given' = Given
         /\ Held = {hand} /\ hand \notin Stored
<1>1. /\ hand # None /\ kicks > MaxKickCycleLength /\ status' = "failed"
      /\ hand' = None /\ data' = data /\ i' = i /\ kicks' = kicks
      /\ kickingfn' = kickingfn /\ slots' = slots
  BY DEF Throw, table
<1>2. /\ hand \in Key /\ hand \notin Stored /\ Held = {hand}
      /\ Given = Inserted \union {Current} /\ Given = Stored \union {hand}
  BY <1>1, HandKey
<1>3. LoopInv' /\ Inserted' = Inserted /\ Size' = Size
  BY <1>1, QuietLoop DEF KickInv
<1>4. /\ KeysAtHome' /\ BucketsFillFromTheFront' /\ KeysApart'
      /\ slots' \in [Directory' \X Slot -> Key \union {Sentinel}]
      /\ Stored' = Stored
      /\ Crowded => Crowded'
  BY <1>1, <1>3, TableStays
<1>5. TypeOK'
  BY <1>1, <1>4 DEF TypeOK
<1>6. Held' = {} /\ Given' = Given
  BY <1>1, <1>2, <1>3 DEF Held, Given, Current
<1>7. kicks = MaxKickCycleLength + 1 /\ kicks > 0
  BY <1>1, CuckooAssumption DEF TypeOK
<1>8. FailInv'
  <2>1. Crowded'
    BY <1>1, <1>4, <1>7 DEF KickInv, CallInv
  <2>2. Given \ Stored = {hand} /\ hand \in Given
    BY <1>2
  <2> QED  BY <1>1, <1>2, <1>4, <1>6, <1>7, <2>1, <2>2 DEF FailInv
<1>9. CallInv' /\ GivenInv'
  BY <1>1 DEF CallInv, GivenInv
<1> QED
  BY <1>2, <1>3, <1>4, <1>5, <1>6, <1>8, <1>9 DEF KickInv

\* The steps of the loops outside of insert().
LEMMA LoadInv ==
  ASSUME KickInv, TypeOK, Load \/ UNCHANGED vars
  PROVE  /\ KickInv' /\ TypeOK'
         /\ Stored' = Stored /\ Held' = Held /\ Given' = Given /\ Elements' = Elements
<1>1. CASE Load
  <2>1. /\ hand = None /\ hand' = None /\ slots' = slots /\ kicks' = kicks
        /\ kickingfn' = kickingfn /\ data' = data
        /\ status \in Building /\ status' \in {"second", "ready", "crashed"}
    BY <1>1 DEF Load, table, NextLoop, Finish, Crash, More, Building
  <2>2. i' = i /\ LoopInv'
    BY <1>1, NextLoopInserts, QuietLoop DEF Load, KickInv, Finish, Crash
  <2>3. Inserted' = Inserted /\ Size' = Size /\ Elements' = Elements
    BY <2>1, <2>2 DEF Inserted, Size, Elements
  <2>4. /\ KeysAtHome' /\ BucketsFillFromTheFront' /\ KeysApart'
        /\ slots' \in [Directory' \X Slot -> Key \union {Sentinel}]
        /\ Stored' = Stored
    BY <2>1, <2>3, TableStays
  <2>5. TypeOK'
    BY <2>1, <2>2, <2>4 DEF TypeOK
  <2>6. Held' = Held /\ Given' = Given
    BY <2>1, <2>3 DEF Held, Given, Building
  <2>7. CallInv' /\ FailInv' /\ GivenInv'
    BY <2>1, <2>4, <2>6 DEF CallInv, FailInv, GivenInv, KickInv, Building
  <2> QED  BY <2>2, <2>3, <2>4, <2>5, <2>6, <2>7 DEF KickInv
<1>2. CASE UNCHANGED vars
  <2>1. /\ data' = data /\ i' = i /\ status' = status /\ kickingfn' = kickingfn
        /\ slots' = slots /\ hand' = hand /\ kicks' = kicks
    BY <1>2 DEF vars, load, table
  <2>2. LoopInv' /\ Inserted' = Inserted /\ Size' = Size /\ Elements' = Elements
    BY <2>1, QuietLoop DEF KickInv
  <2>3. /\ KeysAtHome' /\ BucketsFillFromTheFront' /\ KeysApart'
        /\ slots' \in [Directory' \X Slot -> Key \union {Sentinel}]
        /\ Stored' = Stored
        /\ Crowded => Crowded'
    BY <2>1, <2>2, TableStays
  <2>4. TypeOK'
    BY <2>1, <2>3 DEF TypeOK
  <2>5. Held' = Held /\ Given' = Given
    BY <2>1, <2>2 DEF Held, Given, Current
  <2>6. CallInv' /\ FailInv' /\ GivenInv'
    BY <2>1, <2>2, <2>3, <2>5
       DEF CallInv, FailInv, GivenInv, KickInv, More, Defined, Split
  <2> QED  BY <2>2, <2>3, <2>4, <2>5, <2>6 DEF KickInv
<1> QED
  BY <1>1, <1>2

-----------------------------------------------------------------------------
(* The theorems.                                                           *)

LEMMA InitInv == Init => KickInv /\ TypeOK
<1> SUFFICES ASSUME Init PROVE KickInv /\ TypeOK
  OBVIOUS
<1>1. LoopInv /\ Inserted = {} /\ status = "first" /\ hand = None /\ kicks = 0
  BY InitLoop DEF Init
<1>2. slots = [p \in Directory \X Slot |-> Sentinel] /\ kickingfn \in KickingFn
  BY DEF Init
<1>3. TypeOK
  BY <1>1, <1>2, ListType, CuckooAssumption DEF TypeOK
<1>4. Occupied = {} /\ Stored = {} /\ Held = {} /\ Given = {}
  BY <1>1, <1>2 DEF Occupied, Stored, Held, Given
<1>5. BucketsFillFromTheFront
  <2> SUFFICES ASSUME NEW b \in Directory, NEW s \in Slot
               PROVE  ~(s < Count(b)) /\ slots[<<b, s>>] = Sentinel
    BY DEF BucketsFillFromTheFront
  <2>1. {r \in Slot : slots[<<b, r>>] # Sentinel} = {}
    BY <1>2
  <2>2. Count(b) = 0
    BY <2>1, FS_EmptySet DEF Count
  <2> QED  BY <1>2, <2>2, SlotSet
<1> QED
  BY <1>1, <1>3, <1>4, <1>5
     DEF KickInv, KeysAtHome, KeysApart, CallInv, FailInv, GivenInv

LEMMA StepInv ==
  ASSUME KickInv, TypeOK, [Next]_vars
  PROVE  KickInv' /\ TypeOK'
BY TakeInv, PlaceInv, KickStep, ThrowInv, LoadInv DEF Next

\* The properties of the insertion for every sequence of kicks: a key is in
\* one of its two buckets, buckets are filled from the front, and the keys
\* given so far are stored or in hand.
THEOREM KickInductive == Spec => [](KickInv /\ TypeOK)
<1>1. Init => KickInv /\ TypeOK
  BY InitInv
<1>2. KickInv /\ TypeOK /\ [Next]_vars => (KickInv /\ TypeOK)'
  BY StepInv
<1> QED
  BY <1>1, <1>2, PTL DEF Spec

\* However long a cycle of kicks, no key is lost, doubled or put where a
\* lookup does not look for it; a failed insertion loses exactly one key.
THEOREM CuckooCorrect == Spec => []CuckooInv
<1>1. KickInv /\ TypeOK => CuckooInv
  <2> SUFFICES ASSUME KickInv, TypeOK PROVE KeysConserved
    BY DEF CuckooInv, KickInv
  <2>1. Cardinality(Stored) = Cardinality(Occupied)
    BY OccupiedCount DEF KickInv
  <2>2. Stored \intersect Held = {}
    BY DEF KickInv, GivenInv, FailInv, Held
  <2>3. ASSUME status = "failed" PROVE Stored \subseteq Given /\ Cardinality(Given \ Stored) = 1
    BY <2>3, FS_Singleton DEF KickInv, FailInv
  <2> QED  BY <2>1, <2>2, <2>3 DEF KeysConserved, KickInv, GivenInv
<1> QED
  BY <1>1, KickInductive, PTL

\* The constructors of the cuckoo tables throw after all the kicks only, and
\* only with two full buckets in the table.
THEOREM RefusalCorrect == Spec => []ThrowsOnlyWhenCrowded
<1>1. KickInv /\ TypeOK => ThrowsOnlyWhenCrowded
  <2> SUFFICES ASSUME KickInv, TypeOK, status = "failed"
               PROVE  /\ kicks = MaxKickCycleLength + 1
                      /\ Size > 1 => Cardinality(Stored) >= 2 * BucketSize
    BY DEF ThrowsOnlyWhenCrowded
  <2>1. Cardinality(Stored) = Cardinality(Occupied)
    BY OccupiedCount DEF KickInv
  <2> QED  BY <2>1 DEF KickInv, FailInv, Crowded
<1> QED
  BY <1>1, KickInductive, PTL

-----------------------------------------------------------------------------
(* The refinement of LookupTable.                                          *)

LEMMA ContentIsStored ==
  ASSUME KickInv, TypeOK, Directories
  PROVE  {k \in Key : Lookup(k)} = Stored
<1>1. Size > 0
  BY DEF KickInv, LoopInv, Directories, Size
<1>2. Stored \subseteq Key
  BY DEF Stored, TypeOK
<1> QED
  BY <1>1, <1>2, PresentIsStored DEF Lookup, KickInv

\* The cuckoo tables are the promised lookup table: each call adds its key to
\* those stored or in hand, a kick takes none away, the exception loses one,
\* and the constructor ends only when every key of the list is stored.  It
\* holds for every pair of hash functions, if the directory is never empty.
THEOREM RefinementCorrect ==
  ASSUME Directories
  PROVE  Spec => ImplementsLookupTable
<1> DEFINE found == {k \in Key : Lookup(k)} \union Held
<1>1. KickInv /\ TypeOK => {k \in Key : Lookup(k)} = Stored
  BY ContentIsStored
<1>2. Init => Promise!Init
  <2> SUFFICES ASSUME Init PROVE Promise!Init
    OBVIOUS
  <2>1. KickInv /\ TypeOK /\ status = "first" /\ hand = None /\ Inserted = {}
    BY InitInv, InitLoop DEF Init
  <2>2. Given = {} /\ Held = {} /\ Stored = {}
    BY <2>1 DEF Given, Held, KickInv, GivenInv
  <2>3. found = {} /\ Elements \subseteq Key
    BY <1>1, <2>1, <2>2, ElementsAreKeys DEF KickInv
  <2> QED  BY <2>1, <2>2, <2>3 DEF Promise!Init
<1>3. KickInv /\ TypeOK /\ (KickInv /\ TypeOK)' /\ [Next]_vars
        => [Promise!Next]_(Promise!vars)
  <2> SUFFICES ASSUME KickInv, TypeOK, (KickInv /\ TypeOK)', [Next]_vars
               PROVE  [Promise!Next]_(Promise!vars)
    OBVIOUS
  <2>1. found = Stored \union Held /\ found' = Stored' \union Held'
    <3>1. (KickInv /\ TypeOK => {k \in Key : Lookup(k)} = Stored)'
      BY <1>1, PTL
    <3> QED  BY <1>1, <3>1
  <2>2. CASE Take
    <3>1. /\ Current \in Elements \ Given /\ Given' = Given \union {Current}
          /\ found' = found \union {Current}
      BY <2>1, <2>2, TakeInv
    <3>2. Elements' = Elements /\ status' = status /\ status \in Building
      BY <2>2 DEF Take, load, More, Elements, Building
    <3>3. Current \in Key
      BY <3>1, ElementsAreKeys DEF KickInv
    <3>4. Promise!Insert(Current)
      BY <3>1, <3>2 DEF Promise!Insert, Building
    <3> QED  BY <3>3, <3>4 DEF Promise!Next
  <2>3. CASE Place \/ Kick
    <3>1. Given' = Given /\ Elements' = Elements /\ status' = status
      BY <2>3, PlaceInv, KickStep DEF Place, Kick, Advance, load, Elements
    <3>2. Held = {hand}
      BY <2>3, HandKey DEF Place, Kick, CanPlace
    <3>3. Stored' \union Held' = Stored \union {hand}
      BY <2>3, PlaceInv, KickStep
    <3>4. found' = found
      BY <2>1, <3>2, <3>3
    <3> QED  BY <3>1, <3>4 DEF Promise!vars
  <2>4. CASE Throw
    <3>1. /\ Given' = Given /\ Elements' = Elements
          /\ status \in Building /\ status' = "failed"
      BY <2>4, ThrowInv, HandKey DEF Throw, Elements
    <3>2. \E lost \in SUBSET found :
            (\A x, y \in lost : x = y) /\ found' = found \ lost
      <4>1. {hand} \in SUBSET found /\ found' = found \ {hand}
        BY <2>1, <2>4, ThrowInv
      <4> QED  BY <4>1
    <3>3. Promise!Fail
      BY <3>1, <3>2 DEF Promise!Fail, Building
    <3> QED  BY <3>3 DEF Promise!Next
  <2>5. CASE Load \/ UNCHANGED vars
    <3>1. found' = found /\ Given' = Given /\ Elements' = Elements
      BY <2>1, <2>5, LoadInv
    <3>2. CASE Load /\ Finish
      <4>1. Elements \ Given = {} /\ status = "second" /\ status' = "ready"
        BY <3>2, FinishInsertsAll DEF KickInv, Given, Load, Finish
      <4>2. Promise!Finish
        BY <3>1, <4>1 DEF Promise!Finish
      <4> QED  BY <4>2 DEF Promise!Next
    <3>3. CASE (Load /\ (NextLoop \/ Crash)) \/ UNCHANGED vars
      <4>1. (status \in {"ready", "failed"} \/ status' \in {"ready", "failed"})
               => status' = status
        BY <3>3 DEF Load, NextLoop, Crash, More, vars, load
      <4> QED  BY <3>1, <4>1 DEF Promise!vars
    <3> QED  BY <2>5, <3>2, <3>3 DEF Load
  <2> QED  BY <2>2, <2>3, <2>4, <2>5 DEF Next
<1> QED
  BY <1>2, <1>3, KickInductive, PTL DEF Spec, ImplementsLookupTable, Promise!Spec
=============================================================================
