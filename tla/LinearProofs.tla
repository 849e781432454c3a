----------------------------- MODULE LinearProofs ---------------------------
(***************************************************************************)
(* Proofs about LinearTable for every hash function, list, bucket size and *)
(* over-allocation.                                                        *)
(***************************************************************************)
EXTENDS LinearProperties, BulkLoadProofs

-----------------------------------------------------------------------------
(* The probe sequence.                                                     *)

\* The probe sequence of a key stays in the directory.
LEMMA ProbeInDirectory ==
  ASSUME data \in Seq(Key), Size > 0, NEW k \in Key, NEW n \in Nat
  PROVE  Probe(k, n) \in Directory
<1>1. Size \in Int
  BY SizeType, LenProperties DEF Size
<1>2. HASH(k) \in Nat
  BY LinearAssumption
<1>3. Start(k) \in Nat
  BY <1>1, <1>2, Z3 DEF Start
<1> QED
  BY <1>1, <1>3, Z3 DEF Probe, Directory

\* Every bucket is on the probe sequence of every key, as many steps behind
\* the home bucket as it lies behind it round the directory.
LEMMA ProbeReachesAll ==
  ASSUME data \in Seq(Key), Size > 0, NEW k \in Key, NEW b \in Directory
  PROVE  /\ (b - Start(k)) % Size \in Nat
         /\ Probe(k, (b - Start(k)) % Size) = b
<1>1. Size \in Nat \ {0} /\ HASH(k) \in Nat
  BY SizeType, LenProperties, LinearAssumption DEF Size
<1>2. Start(k) \in 0 .. Size - 1 /\ b \in 0 .. Size - 1
  BY <1>1, Z3 DEF Start, Directory
<1> DEFINE z == Size
           h == Start(k)
<1>3. /\ b % z = b /\ (b + z) % z = b
      /\ h <= b => b - h \in Nat /\ (b - h) % z = b - h /\ h + (b - h) = b
      /\ h > b => /\ b - h + z \in Nat /\ (b - h) % z = b - h + z
                  /\ h + (b - h + z) = b + z
  <2>1. z \in Nat \ {0} /\ h \in 0 .. z - 1 /\ b \in 0 .. z - 1
    BY <1>1, <1>2
  <2> HIDE DEF z, h
  <2> QED  BY <2>1, Z3
<1>4. CASE h <= b
  BY <1>3, <1>4 DEF Probe
<1>5. CASE h > b
  BY <1>3, <1>5 DEF Probe
<1> QED
  BY <1>2, <1>4, <1>5

-----------------------------------------------------------------------------
(* The initial state.                                                      *)

LEMMA InitInv == Init => TypeOK /\ TableInv
<1> SUFFICES ASSUME Init PROVE TypeOK /\ TableInv
  OBVIOUS
<1>1. LoopInv /\ Inserted = {} /\ status = "first"
  BY InitLoop DEF Init
<1>2. TypeOK
  BY <1>1, ListType DEF TypeOK, Init
<1>3. OnlyInserted
  BY DEF OnlyInserted, Init
<1> QED
  BY <1>1, <1>2, <1>3 DEF TableInv, ProbePathsFull

-----------------------------------------------------------------------------
(* An insertion.                                                           *)

\* Every key it leaves in the table keeps its path and the new one has one,
\* because the slot that is written was free: nothing but inserted keys is in
\* the table, and the current key is not one of them.
LEMMA InsertInv ==
  ASSUME TypeOK, TableInv, Insert
  PROVE  TypeOK' /\ TableInv'
<1> USE DEF TableInv
<1>0. PICK c : c = Current
  OBVIOUS
<1>1. /\ c \in Key \ Inserted
      /\ LoopInv' /\ i' \in 0 .. Len(data)
      /\ Inserted' = Inserted \union {c}
      /\ data' = data /\ status' = status /\ i' = i + 1
  BY <1>0, CurrentIsNew, AdvanceLoop DEF Insert, Advance, Defined, LoopInv
<1>2. c # Sentinel /\ data \in Seq(Key) /\ Size > 0
  BY <1>1, BulkLoadAssumption DEF TypeOK, Insert, Defined
<1>3. PICK n0 \in 0 .. ProbeInsert - 1, s0 \in Slot :
         /\ FirstRoom(c, n0)
         /\ FirstAccepting(Probe(c, n0), s0, c)
         /\ keys' = [keys EXCEPT ![<<Probe(c, n0), s0>>] = c]
  BY <1>0 DEF Insert
<1> DEFINE p0 == <<Probe(c, n0), s0>>
<1>4. n0 \in Nat /\ \A k \in Key, m \in Nat : Probe(k, m) \in Directory
  BY <1>2, LinearAssumption, ProbeInDirectory
<1>5. p0 \in Directory \X Slot /\ keys[p0] = Sentinel
  <2>1. p0 \in Directory \X Slot
    BY <1>1, <1>4
  <2>2. keys[p0] \in {Sentinel, c}
    BY <1>3 DEF FirstAccepting, Accepts
  <2> QED  BY <1>1, <2>1, <2>2 DEF OnlyInserted
<1>6. /\ Size' = Size /\ Directory' = Directory
      /\ \A k \in Key, m \in Nat : Probe(k, m)' = Probe(k, m)
  BY <1>1 DEF Size, Directory, Probe, Start
<1>7. \A p \in Directory \X Slot : keys'[p] = IF p = p0 THEN c ELSE keys[p]
  BY <1>3, <1>5 DEF TypeOK
<1>8. TypeOK'
  <2>1. keys' \in [Directory \X Slot -> Key \union {Sentinel}]
    BY <1>1, <1>3 DEF TypeOK
  <2> QED  BY <1>1, <1>6, <2>1 DEF TypeOK
<1>9. OnlyInserted'
  BY <1>1, <1>6, <1>7 DEF OnlyInserted
<1>10. ASSUME NEW k \in Inserted PROVE HasPath(k)'
  <2>1. PICK n \in 0 .. ProbeInsert - 1, s \in Slot :
          PlacesOf(k) = {<<Probe(k, n), s>>} /\ Reached(k, n, s)
    BY DEF ProbePathsFull, HasPath
  <2>2. k \in Key /\ k # c /\ k # Sentinel
    <3>1. k \in Key
      BY <1>2, LenProperties DEF Inserted, TypeOK
    <3> QED  BY <1>1, <3>1, BulkLoadAssumption
  <2>3. PlacesOf(k)' = {<<Probe(k, n)', s>>}
    <3>1. PlacesOf(k)' = PlacesOf(k)
      BY <1>5, <1>6, <1>7, <2>2 DEF PlacesOf
    <3>2. n \in Nat
      BY LinearAssumption
    <3> QED  BY <1>6, <2>1, <2>2, <3>1, <3>2
  <2>4. Reached(k, n, s)'
    <3> SUFFICES ASSUME NEW m \in 0 .. n, NEW r \in Slot, m < n \/ r < s
                 PROVE  keys'[<<Probe(k, m)', r>>] \notin {Sentinel, k}
      BY DEF Reached, Slot
    <3>1. m \in Nat /\ <<Probe(k, m), r>> \in Directory \X Slot
      BY <1>4, <2>2
    <3>2. keys[<<Probe(k, m), r>>] \notin {Sentinel, k}
      BY <2>1 DEF Reached
    <3> QED  BY <1>2, <1>6, <1>7, <2>2, <3>1, <3>2
  <2> QED  BY <2>3, <2>4 DEF HasPath, Slot
<1>11. HasPath(c)'
  <2>1. \A p \in Directory \X Slot : keys[p] # c
    BY <1>1, <1>2 DEF OnlyInserted
  <2>2. PlacesOf(c)' = {<<Probe(c, n0)', s0>>}
    <3>1. {p \in Directory \X Slot : keys'[p] = c} = {p0}
      BY <1>5, <1>7, <2>1
    <3> QED  BY <1>1, <1>4, <1>6, <3>1 DEF PlacesOf
  <2>3. Reached(c, n0, s0)'
    <3> SUFFICES ASSUME NEW m \in 0 .. n0, NEW r \in Slot, m < n0 \/ r < s0
                 PROVE  keys'[<<Probe(c, m)', r>>] \notin {Sentinel, c}
      BY DEF Reached, Slot
    <3>1. m \in Nat /\ <<Probe(c, m), r>> \in Directory \X Slot
      BY <1>1, <1>4
    <3>2. keys[<<Probe(c, m), r>>] \notin {Sentinel, c}
      <4>1. CASE m < n0
        BY <1>3, <1>4, <4>1 DEF FirstRoom, HasRoom, Accepts
      <4>2. CASE m = n0 /\ r < s0
        BY <1>3, <4>2 DEF FirstAccepting, Accepts, Slot
      <4> QED  BY <1>4, <4>1, <4>2
    <3> QED  BY <1>1, <1>5, <1>6, <1>7, <3>1, <3>2
  <2> QED  BY <2>2, <2>3 DEF HasPath, Slot
<1> QED
  BY <1>1, <1>8, <1>9, <1>10, <1>11 DEF ProbePathsFull

-----------------------------------------------------------------------------
(* The other steps.                                                        *)

\* A step that leaves the list, the index and the table alone.
LEMMA Unchanged ==
  ASSUME TypeOK, OnlyInserted, ProbePathsFull, UNCHANGED <<data, i, keys>>
  PROVE  /\ i' \in 0 .. Len(data)' /\ data' \in Seq(Key)
         /\ keys' \in [Directory' \X Slot -> Key \union {Sentinel}]
         /\ OnlyInserted' /\ ProbePathsFull'
<1>1. Inserted' = Inserted /\ Directory' = Directory
  BY DEF Inserted, Directory, Size
<1>2. OnlyInserted'
  BY <1>1 DEF OnlyInserted
<1>3. ProbePathsFull'
  BY <1>1 DEF ProbePathsFull, HasPath, PlacesOf, Reached, Probe, Start, Size, Directory
<1> QED
  BY <1>1, <1>2, <1>3 DEF TypeOK

LEMMA StepInv ==
  ASSUME TypeOK, TableInv, [Next]_vars
  PROVE  TypeOK' /\ TableInv'
<1> USE DEF TableInv
<1>1. CASE Insert
  BY <1>1, InsertInv
<1>2. CASE NextLoop /\ UNCHANGED keys
  <2>1. /\ data' = data /\ i' = i /\ keys' = keys
        /\ status' = "second" /\ LoopInv'
    BY <1>2, NextLoopInserts
  <2> QED  BY <2>1, Unchanged DEF TypeOK
<1>3. CASE \/ Throw
           \/ (Finish \/ Crash) /\ UNCHANGED keys
  <2>1. /\ data' = data /\ i' = i /\ keys' = keys
        /\ status' \in {"ready", "failed", "crashed"}
    BY <1>3 DEF Throw, Finish, Crash
  <2> QED  BY <2>1, Unchanged, QuietLoop DEF TypeOK
<1>4. CASE UNCHANGED vars
  <2>1. data' = data /\ i' = i /\ keys' = keys /\ status' = status
    BY <1>4 DEF vars, load
  <2> QED  BY <2>1, Unchanged, QuietLoop DEF TypeOK
<1> QED
  BY <1>1, <1>2, <1>3, <1>4 DEF Next, Load

-----------------------------------------------------------------------------
(* The theorems.                                                           *)

\* The constructors of the linear tables insert every element they pass at
\* the end of a full probe path of its own, whatever the hash function, the
\* order of the list and the size of the directory, until they end or throw.
THEOREM TableCorrect == Spec => []TableInv
<1>1. Init => TypeOK /\ TableInv
  BY InitInv
<1>2. TypeOK /\ TableInv /\ [Next]_vars => (TypeOK /\ TableInv)'
  BY StepInv
<1> QED
  BY <1>1, <1>2, PTL DEF Spec

\* The variables keep their types: the index stays in the list and only keys
\* and Sentinel are written.
THEOREM TypeCorrect == Spec => []TypeOK
<1>1. Init => TypeOK /\ TableInv
  BY InitInv
<1>2. TypeOK /\ TableInv /\ [Next]_vars => (TypeOK /\ TableInv)'
  BY StepInv
<1> QED
  BY <1>1, <1>2, PTL DEF Spec

-----------------------------------------------------------------------------
(* The exception for want of room.                                         *)

\* Throw has looked for a bucket with room from the home bucket on and found
\* none: a free slot within the limit would have been in one, and the one with
\* the least number of steps would be the first with room.
LEMMA ThrowLeavesNoFreeSlot ==
  ASSUME TypeOK, LoopInv, Throw
  PROVE  \A b \in WithinLimit(Current), s \in Slot : keys[<<b, s>>] # Sentinel
<1> SUFFICES ASSUME NEW b \in WithinLimit(Current), NEW s \in Slot,
                    keys[<<b, s>>] = Sentinel
             PROVE  FALSE
  OBVIOUS
<1> DEFINE T == {n \in Nat : HasRoom(Probe(Current, n), Current)}
           d == (b - Start(Current)) % Size
<1>1. data \in Seq(Key) /\ Size > 0 /\ Current \in Key
  BY ListType, CurrentIsNew DEF Throw, Defined
<1>2. b \in Directory /\ d < ProbeInsert
  BY DEF WithinLimit
<1>3. d \in Nat /\ Probe(Current, d) = b
  BY <1>1, <1>2, ProbeReachesAll
<1>4. d \in T
  BY <1>3 DEF HasRoom, Accepts
<1>5. PICK m \in T : \A q \in T : m <= q
  <2> HIDE DEF T, d
  <2>1. T \subseteq Nat
    BY DEF T
  <2> QED  BY <1>4, <2>1, LeastNat
<1>6. m \in 0 .. ProbeInsert - 1
  <2> HIDE DEF d
  <2>1. m \in Nat /\ m <= d
    BY <1>4, <1>5
  <2> QED  BY <1>2, <1>3, <2>1, LinearAssumption
<1>7. FirstRoom(Current, m)
  BY <1>5 DEF FirstRoom
<1> QED
  BY <1>6, <1>7 DEF Throw

\* The constructors of the linear tables throw for want of room only when every
\* bucket within the probe limit of the element in hand is full, whatever the
\* size of the directory: the 50000 buckets from the home bucket on, over the
\* end of the directory, or the whole directory if it is smaller.
THEOREM RefusalCorrect == Spec => []ThrowsOnlyWhenFull
<1> DEFINE Full == \A b \in WithinLimit(Current), s \in Slot : keys[<<b, s>>] # Sentinel
<1>1. Init => ThrowsOnlyWhenFull
  BY DEF Init, InitLoad, ThrowsOnlyWhenFull
<1>2. TypeOK /\ TableInv /\ ThrowsOnlyWhenFull /\ [Next]_vars => ThrowsOnlyWhenFull'
  <2> SUFFICES ASSUME TypeOK, TableInv, ThrowsOnlyWhenFull, [Next]_vars, status' = "failed"
               PROVE  i' < Len(data)' /\ Full'
    BY DEF ThrowsOnlyWhenFull
  <2>1. CASE Throw
    <3>1. i < Len(data) /\ Full
      BY <2>1, ThrowLeavesNoFreeSlot DEF Throw, Defined, TableInv
    <3>2. data' = data /\ i' = i /\ keys' = keys
      BY <2>1 DEF Throw
    <3>3. WithinLimit(Current)' = WithinLimit(Current)
      BY <3>2 DEF WithinLimit, Current, Directory, Start, Size
    <3> QED  BY <3>1, <3>2, <3>3
  <2>2. CASE (Stopped /\ UNCHANGED vars) \/ UNCHANGED vars
    <3>1. data' = data /\ i' = i /\ keys' = keys /\ status' = status
      BY <2>2 DEF vars, load
    <3>2. WithinLimit(Current)' = WithinLimit(Current)
      BY <3>1 DEF WithinLimit, Current, Directory, Start, Size
    <3> QED  BY <3>1, <3>2 DEF ThrowsOnlyWhenFull
  <2>3. CASE Insert \/ Load
    BY <2>3 DEF Insert, Load, Advance, More, NextLoop, Finish, Crash
  <2> QED  BY <2>1, <2>2, <2>3 DEF Next
<1> QED
  BY <1>1, <1>2, TypeCorrect, TableCorrect, PTL DEF Spec

-----------------------------------------------------------------------------
(* Lookups.                                                                *)

\* The walk of a lookup: it meets a key only if the key was inserted, and it
\* meets every inserted key if it is as long as the walk of an insertion.
LEMMA LookupIsMembership ==
  ASSUME TypeOK, TableInv, ProbeInsert <= ProbeLookup, Size > 0, NEW k \in Key
  PROVE  Lookup(k) <=> k \in Inserted
<1> USE DEF TableInv
<1>1. ASSUME Lookup(k) PROVE k \in Inserted
  <2>1. PICK n \in 0 .. ProbeLookup - 1, s \in Slot : keys[<<Probe(k, n), s>>] = k
    BY <1>1 DEF Lookup
  <2>2. <<Probe(k, n), s>> \in Directory \X Slot
    BY ProbeInDirectory, LinearAssumption DEF TypeOK
  <2> QED  BY <2>1, <2>2, BulkLoadAssumption DEF OnlyInserted
<1>2. ASSUME k \in Inserted PROVE Lookup(k)
  <2>1. PICK n \in 0 .. ProbeInsert - 1, s \in Slot :
          PlacesOf(k) = {<<Probe(k, n), s>>} /\ Reached(k, n, s)
    BY <1>2 DEF ProbePathsFull, HasPath
  <2>2. keys[<<Probe(k, n), s>>] = k
    BY <2>1 DEF PlacesOf
  <2>3. n \in 0 .. ProbeLookup - 1
    BY LinearAssumption
  <2> QED  BY <2>1, <2>2, <2>3 DEF Lookup
<1> QED
  BY <1>1, <1>2

\* operator[] answers 1 for exactly the inserted keys, at every moment of the
\* construction, if a lookup may walk as far as an insertion.  That premise
\* is what probe_model.hpp gives up: 50000 buckets against 5000000.
THEOREM MembershipCorrect ==
  ASSUME ProbeInsert <= ProbeLookup
  PROVE  Spec => []AnswersMembership
<1>1. TypeOK /\ TableInv => AnswersMembership
  BY LookupIsMembership DEF AnswersMembership
<1> QED
  BY <1>1, TypeCorrect, TableCorrect, PTL

-----------------------------------------------------------------------------
(* The refinement of LookupTable.                                          *)

\* The keys a lookup answers 1 for are the inserted ones.
LEMMA ContentIsInserted ==
  ASSUME TypeOK, TableInv, ProbeInsert <= ProbeLookup, Directories
  PROVE  {k \in Key : Lookup(k)} = Inserted
<1>1. Size > 0
  BY DEF TableInv, LoopInv, Directories, Size
<1>2. Inserted \subseteq Key
  BY LenProperties DEF TypeOK, Inserted
<1> QED
  BY <1>1, <1>2, LookupIsMembership

\* An insertion takes one key off the list of those to insert.
LEMMA InsertOne ==
  ASSUME LoopInv, Insert
  PROVE  \E c \in Elements \ Inserted :
           /\ Inserted' = Inserted \union {c}
           /\ Elements' = Elements
BY CurrentIsNew, AdvanceLoop DEF Insert, Defined

\* The linear tables are the promised lookup table: each insertion adds its
\* key to those found and takes none away, and the constructor ends only when
\* every key of the list is found.  It holds for every hash function and order
\* of the list, if a lookup may walk as far as an insertion and the directory
\* is never empty.
THEOREM RefinementCorrect ==
  ASSUME ProbeInsert <= ProbeLookup, Directories
  PROVE  Spec => ImplementsLookupTable
<1> DEFINE found == {k \in Key : Lookup(k)}
<1>1. TypeOK /\ TableInv => found = Inserted
  BY ContentIsInserted
<1>2. Init => Promise!Init
  <2> SUFFICES ASSUME Init PROVE Promise!Init
    OBVIOUS
  <2>1. TypeOK /\ TableInv
    BY InitInv
  <2>2. Inserted = {} /\ found = {}
    BY <1>1, <2>1 DEF Init, InitLoad, Inserted
  <2>3. Elements \subseteq Key
    BY <2>1, LenProperties DEF TypeOK, Elements
  <2>4. status = "first"
    BY DEF Init, InitLoad
  <2> QED  BY <2>2, <2>3, <2>4 DEF Promise!Init
<1>3. TypeOK /\ TableInv /\ (TypeOK /\ TableInv)' /\ [Next]_vars
        => [Promise!Next]_(Promise!vars)
  <2> SUFFICES ASSUME TypeOK, TableInv, (TypeOK /\ TableInv)', [Next]_vars
               PROVE  [Promise!Next]_(Promise!vars)
    OBVIOUS
  <2>1. found = Inserted /\ found' = Inserted'
    <3>1. (TypeOK /\ TableInv => found = Inserted)'
      BY <1>1, PTL
    <3> QED  BY <1>1, <3>1
  <2>2. CASE Insert
    <3>1. PICK c \in Elements \ Inserted :
            Inserted' = Inserted \union {c} /\ Elements' = Elements
      BY <2>2, InsertOne DEF TableInv
    <3>2. c \in Key
      BY LenProperties DEF TypeOK, Elements
    <3>3. status \in Building /\ status' = status
      BY <2>2 DEF Insert, More, Advance, Building
    <3>4. Promise!Insert(c)
      BY <2>1, <3>1, <3>3 DEF Promise!Insert, Building
    <3> QED  BY <3>2, <3>4 DEF Promise!Next
  <2>3. CASE Throw
    <3>1. /\ Inserted' = Inserted /\ Elements' = Elements
          /\ status \in Building /\ status' = "failed"
      BY <2>3 DEF Throw, More, Inserted, Elements, Building
    <3>2. \E lost \in SUBSET found :
            (\A x, y \in lost : x = y) /\ found' = found \ lost
      <4>1. {} \in SUBSET found /\ found' = found \ {}
        BY <2>1, <3>1
      <4> WITNESS {} \in SUBSET found
      <4> QED  BY <4>1
    <3>3. Promise!Fail
      BY <3>1, <3>2 DEF Promise!Fail, Building
    <3> QED  BY <3>3 DEF Promise!Next
  <2>4. CASE Finish /\ UNCHANGED keys
    <3>1. /\ Inserted' = Inserted /\ Elements' = Elements
          /\ status = "second" /\ status' = "ready"
      BY <2>4 DEF Finish, Inserted, Elements
    <3>2. Elements = Inserted
      BY <2>4, FinishInsertsAll DEF TableInv
    <3>3. Promise!Finish
      BY <2>1, <3>1, <3>2 DEF Promise!Finish
    <3> QED  BY <3>3 DEF Promise!Next
  <2>5. CASE \/ (NextLoop \/ Crash) /\ UNCHANGED keys
             \/ UNCHANGED vars
    <3>1. data' = data /\ i' = i
      BY <2>5, NextLoopInserts DEF NextLoop, Crash, TableInv, vars, load
    <3>2. Inserted' = Inserted /\ Elements' = Elements
      BY <3>1 DEF Inserted, Elements
    <3>3. (status \in {"ready", "failed"} \/ status' \in {"ready", "failed"})
             => status' = status
      BY <2>5 DEF NextLoop, Crash, More, vars, load
    <3> QED  BY <2>1, <3>2, <3>3 DEF Promise!vars
  <2> QED  BY <2>2, <2>3, <2>4, <2>5 DEF Next, Load
<1> QED
  BY <1>2, <1>3, TypeCorrect, TableCorrect, PTL DEF Spec, ImplementsLookupTable, Promise!Spec
=============================================================================
