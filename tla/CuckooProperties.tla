-------------------------- MODULE CuckooProperties --------------------------
(***************************************************************************)
(* What the cuckoo tables must keep true while keys push one another from  *)
(* bucket to bucket, and the refinement of the promise LookupTable.        *)
(***************************************************************************)
EXTENDS CuckooTable

TypeOK ==
  /\ data \in Seq(Key)
  /\ i \in 0 .. Len(data)
  /\ status \in {"first", "second", "ready", "failed", "crashed"}
  /\ kickingfn \in KickingFn
  /\ slots \in [Directory \X Slot -> Key \union {Sentinel}]
  /\ hand \in Key \union {None}
  /\ kicks \in 0 .. MaxKickCycleLength + 1

Held == {hand} \ {None}
Stored == {slots[p] : p \in DOMAIN slots} \ {Sentinel}
Occupied == {p \in DOMAIN slots : slots[p] # Sentinel}

\* Keys handed to insert() so far, the one being inserted included.
Given == Inserted \union (IF hand # None \/ status = "failed" THEN {Current} ELSE {})

\* Every stored key sits in one of its own two buckets, where lookup() and
\* the next insertion look for it, whoever pushed it there.
KeysAtHome == \A p \in Occupied : p[1] \in Homes(slots[p])

\* The kicking strategies overwrite slots[c] where c counts the occupied
\* slots: no key is lost only if the occupied slots of a bucket are its
\* first ones.
BucketsFillFromTheFront ==
  \A b \in Directory, s \in Slot : slots[<<b, s>>] # Sentinel <=> s < Count(b)

\* Kicking moves keys and neither copies nor loses one: the keys given to
\* the table are those stored, each once, and the one in hand; a failed
\* insertion loses exactly one key, not always the one it was called with.
KeysConserved ==
  status # "crashed" =>
    /\ Cardinality(Stored) = Cardinality(Occupied)
    /\ Stored \intersect Held = {}
    /\ status # "failed" => Stored \union Held = Given
    /\ status = "failed" =>
         Stored \subseteq Given /\ Cardinality(Given \ Stored) = 1

\* However long a cycle of kicks: the keys are conserved, at home, and fill
\* their buckets from the front.
CuckooInv == TypeOK /\ KeysAtHome /\ BucketsFillFromTheFront /\ KeysConserved

\* The constructor throws after all the kicks only, and when two buckets
\* are full: no list of fewer keys than that is ever refused, not even if
\* all its keys share their hash values (the neighbour rule of Secondary).
ThrowsOnlyWhenCrowded ==
  status = "failed" =>
    /\ kicks = MaxKickCycleLength + 1
    /\ Size > 1 => Cardinality(Stored) >= 2 * BucketSize

-----------------------------------------------------------------------------
(* The strengthening that makes the properties above inductive.            *)

\* No key is in two slots.
KeysApart == \A p, q \in Occupied : slots[p] = slots[q] => p = q

\* A kick finds both buckets of a key full, and takes nothing from them.
Crowded == Size > 1 => Cardinality(Occupied) >= 2 * BucketSize

\* insert() is called with an element of the list, for a directory that is
\* not empty, and its kicks are counted from the call on.
CallInv == hand # None => More /\ Defined /\ (kicks > 0 => Crowded)

\* A failed insertion leaves out one of the keys given so far, after all the
\* kicks.
FailInv ==
  status = "failed" =>
    /\ hand = None /\ kicks = MaxKickCycleLength + 1 /\ Crowded
    /\ Stored \subseteq Given
    /\ \E lost \in Given : Given \ Stored = {lost}

\* Without a failure the keys given so far are those stored and in hand.
GivenInv ==
  status # "failed" => Stored \union Held = Given /\ Stored \intersect Held = {}

KickInv ==
  /\ LoopInv /\ KeysAtHome /\ BucketsFillFromTheFront
  /\ KeysApart /\ CallInv /\ FailInv /\ GivenInv

-----------------------------------------------------------------------------
\* However unlucky the kicks, the constructor comes to an end.
Terminates == <>Stopped

-----------------------------------------------------------------------------
Promise == INSTANCE LookupTable WITH
  todo    <- Elements \ Given,
  content <- {k \in Key : Lookup(k)} \union Held,
  status  <- IF status \in {"ready", "failed"} THEN status ELSE "building"

\* lookup() answers 1 for exactly the keys inserted so far, save the key in
\* hand: the keys found together with it grow by one key with each insertion
\* and never lose one, but for the one a failed insertion loses.
ImplementsLookupTable == Promise!Spec
=============================================================================
