----------------------------- MODULE LinearTable ----------------------------
(***************************************************************************)
(* KapilLinearHashTable, KapilLinearExoticHashTable and                    *)
(* KapilLinearModelHashTable (probe.hpp, probe_exotic.hpp,                 *)
(* probe_model.hpp): linear probing from bucket to bucket, wrapping round  *)
(* the directory.  An insertion gives up after ProbeInsert buckets and     *)
(* throws; a lookup gives up after ProbeLookup buckets.                    *)
(*                                                                         *)
(* HASH is the hash function, the perfect hash or the learned model, all   *)
(* of which these tables reduce modulo the size of the directory.          *)
(***************************************************************************)
EXTENDS BulkLoad

CONSTANTS
  HASH(_),      \* hashfn(key), mmphf(key) or model(key)
  ProbeInsert,  \* 50000, and 5000000 in probe_model.hpp
  ProbeLookup   \* 50000

ASSUME LinearAssumption ==
  /\ ProbeInsert \in Nat /\ ProbeLookup \in Nat
  /\ \A k \in Key : HASH(k) \in Nat

VARIABLE keys  \* keys[] of the buckets: <<index, slot>> -> key or Sentinel

vars == <<load, keys>>

Directory == 0 .. Size - 1

Start(k) == HASH(k) % Size

\* The bucket one looks at after n steps.
\* (Mutant of Probe: the probe sequence does not wrap but stays at the end.)
Mutant_NoWrap(k, n) == IF Start(k) + n < Size THEN Start(k) + n ELSE Size - 1

Probe(k, n) == (Start(k) + n) % Size

Init ==
  /\ InitLoad
  /\ keys = [p \in Directory \X Slot |-> Sentinel]

-----------------------------------------------------------------------------
(* Insertion.                                                              *)

\* Bucket::insert writes the first slot that is free or holds the key.
Accepts(b, s, k) == keys[<<b, s>>] \in {Sentinel, k}
FirstAccepting(b, s, k) ==
  Accepts(b, s, k) /\ \A r \in Slot : Accepts(b, r, k) => s <= r
HasRoom(b, k) == \E s \in Slot : Accepts(b, s, k)

\* The first bucket with room along the probe sequence.
\* (Mutant of FirstRoom: the index is advanced before a bucket is looked at.)
Mutant_HomeSkipped(k, n) ==
  n > 0 /\ HasRoom(Probe(k, n), k) /\ \A m \in 1 .. n - 1 : ~HasRoom(Probe(k, m), k)

FirstRoom(k, n) ==
  HasRoom(Probe(k, n), k) /\ \A m \in 0 .. n - 1 : ~HasRoom(Probe(k, m), k)

Insert ==
  /\ More
  /\ Defined
  /\ \E n \in 0 .. ProbeInsert - 1, s \in Slot :
       /\ FirstRoom(Current, n)
       /\ FirstAccepting(Probe(Current, n), s, Current)
       /\ keys' = [keys EXCEPT ![<<Probe(Current, n), s>>] = Current]
  /\ Advance

\* (Mutant of Throw: the last bucket within the limit is not looked at.)
Mutant_OneShort ==
  /\ More
  /\ Defined
  /\ \A n \in 0 .. ProbeInsert - 2 : ~FirstRoom(Current, n)
  /\ status' = "failed"
  /\ UNCHANGED <<data, i, keys>>

\* "during probing, all buckets along the way are full"
Throw ==
  /\ More
  /\ Defined
  /\ \A n \in 0 .. ProbeInsert - 1 : ~FirstRoom(Current, n)
  /\ status' = "failed"
  /\ UNCHANGED <<data, i, keys>>

-----------------------------------------------------------------------------
(* operator[] of the built table: it ends at the first Sentinel.           *)

\* Slot s after n steps is reached: nothing before it ended the walk.
Reached(k, n, s) ==
  \A m \in 0 .. n, r \in Slot :
    (m < n \/ r < s) => keys[<<Probe(k, m), r>>] \notin {Sentinel, k}

\* (Mutant of Lookup: the walk ends at the home bucket.)
Mutant_HomeOnly(k) == \E s \in Slot : Reached(k, 0, s) /\ keys[<<Probe(k, 0), s>>] = k

Lookup(k) ==
  \E n \in 0 .. ProbeLookup - 1, s \in Slot :
    Reached(k, n, s) /\ keys[<<Probe(k, n), s>>] = k

-----------------------------------------------------------------------------
Load == (NextLoop \/ Finish \/ Crash) /\ UNCHANGED keys

Next == Insert \/ Throw \/ Load \/ (Stopped /\ UNCHANGED vars)

Spec == Init /\ [][Next]_vars
=============================================================================
