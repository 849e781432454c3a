----------------------------- MODULE CuckooTable ----------------------------
(***************************************************************************)
(* KapilCuckooHashTable and its variants (cuckoo.hpp, cuckoo_exotic.hpp,   *)
(* cuckoo_model.hpp): a key lives in one of two buckets.  When both are    *)
(* full, the key takes the place of another one, which is then inserted    *)
(* itself; after MaxKickCycleLength such kicks the insertion throws.       *)
(***************************************************************************)
EXTENDS BulkLoad, FiniteSets

CONSTANTS
  H1(_),               \* hashfn1(key), the perfect hash or the learned model
  H2(_),               \* the second hash value
  KickingFn,           \* "balanced", "biased": KapilBalancedKicking, KapilBiasedKicking
  Threshold,           \* threshold_ of KapilBiasedKicking
  RngMax,              \* the largest random number
  MaxKickCycleLength,  \* 50000 in the source
  None

ASSUME CuckooAssumption ==
  /\ KickingFn \subseteq {"balanced", "biased"}
  /\ Threshold \in Nat /\ RngMax \in Nat /\ MaxKickCycleLength \in Nat
  /\ None \notin Key /\ None # Sentinel
  /\ \A k \in Key : H1(k) \in Nat /\ H2(k) \in Nat

VARIABLES
  kickingfn,  \* the strategy of the table
  slots,      \* key of a slot: <<bucket, slot>> -> key or Sentinel
  hand,       \* the key insert() holds, or None outside of insert()
  kicks       \* kick_count

table == <<kickingfn, slots>>
vars == <<load, table, hand, kicks>>

Balanced == kickingfn = "balanced"

Directory == 0 .. Size - 1

Primary(k) == H1(k) % Size

\* A second bucket equal to the first is moved to its neighbour.
\* (Mutant of Secondary: there is no neighbour behind the last bucket.)
Mutant_NeighbourInsideOnly(k) ==
  LET i2 == H2(k) % Size
  IN  IF i2 = Primary(k) /\ i2 # Size - 1 THEN i2 + 1 ELSE i2

Secondary(k) ==
  LET i2 == H2(k) % Size
  IN  IF i2 = Primary(k) THEN (i2 + 1) % Size ELSE i2

Homes(k) == {Primary(k), Secondary(k)}

Count(b) == Cardinality({s \in Slot : slots[<<b, s>>] # Sentinel})
Present(k) == \E b \in Homes(k), s \in Slot : slots[<<b, s>>] = k

\* operator lookup() looks at every slot of both buckets.
\* (Mutant of Lookup: only the primary bucket is looked at.)
Mutant_PrimaryOnly(k) == \E s \in Slot : slots[<<Primary(k), s>>] = k

Lookup(k) == Present(k)

Init ==
  /\ InitLoad
  /\ kickingfn \in KickingFn
  /\ slots = [p \in Directory \X Slot |-> Sentinel]
  /\ hand = None
  /\ kicks = 0

-----------------------------------------------------------------------------
(* Insertion.                                                              *)

\* insert(key, value, 0) is called with the next element.
Take ==
  /\ hand = None
  /\ More
  /\ Defined
  /\ hand' = Current
  /\ kicks' = 0
  /\ UNCHANGED <<load, table>>

HasSpace(b) == Count(b) < BucketSize

\* The balanced strategy prefers the emptier bucket, the biased one the
\* primary.
PrefersPrimary(k) ==
  /\ HasSpace(Primary(k))
  /\ Balanced => Count(Primary(k)) <= Count(Secondary(k))

\* The slot behind the occupied ones of the preferred bucket.
FreePlace(k) ==
  IF PrefersPrimary(k) THEN <<Primary(k), Count(Primary(k))>>
  ELSE <<Secondary(k), Count(Secondary(k))>>

CanPlace == hand # None /\ kicks <= MaxKickCycleLength

\* A key that is in the table already stays where it is.
Place ==
  /\ CanPlace
  /\ Present(hand) \/ \E b \in Homes(hand) : HasSpace(b)
  /\ slots' = IF Present(hand) THEN slots ELSE [slots EXCEPT ![FreePlace(hand)] = hand]
  /\ hand' = None
  /\ Advance
  /\ UNCHANGED <<kickingfn, kicks>>

VictimBucket(k, rng) ==
  IF (IF Balanced THEN rng % 2 = 1 ELSE rng > Threshold) THEN Primary(k) ELSE Secondary(k)

\* (Mutant of PickUp: the kicked key is forgotten, the new one stays in hand.)
Mutant_VictimForgotten(p) == hand' = hand

PickUp(p) == hand' = slots[p]

\* (Mutant of CountKick: kick_count is not incremented.)
Mutant_NotCounted == kicks' = kicks

CountKick == kicks' = kicks + 1

Kick ==
  /\ CanPlace
  /\ ~Present(hand)
  /\ \A b \in Homes(hand) : ~HasSpace(b)
  /\ \E rng \in 0 .. RngMax :
       LET victim == <<VictimBucket(hand, rng), rng % BucketSize>>
       IN  /\ PickUp(victim)
           /\ slots' = [slots EXCEPT ![victim] = hand]
  /\ CountKick
  /\ UNCHANGED <<load, kickingfn>>

\* "maximum kick cycle length reached": the key in hand is lost.
Throw ==
  /\ hand # None
  /\ kicks > MaxKickCycleLength
  /\ status' = "failed"
  /\ hand' = None
  /\ UNCHANGED <<data, i, table, kicks>>

-----------------------------------------------------------------------------
Load == hand = None /\ (NextLoop \/ Finish \/ Crash) /\ UNCHANGED <<table, hand, kicks>>

Next == Take \/ Place \/ Kick \/ Throw \/ Load \/ (Stopped /\ UNCHANGED vars)

\* One thread runs the constructor: it goes on as long as it can.
Spec == Init /\ [][Next]_vars
FairSpec == Spec /\ WF_vars(Next)
=============================================================================
