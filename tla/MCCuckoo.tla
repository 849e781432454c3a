------------------------------ MODULE MCCuckoo ------------------------------
(***************************************************************************)
(* Small instances of the cuckoo tables: every order of every list whose   *)
(* length is in Lengths, up to a renaming of keys with the same hashes.    *)
(***************************************************************************)
EXTENDS CuckooProperties

CONSTANT Lengths

\* Keys 3, 4 and 5 have the same hash values and are inserted in this order.
MCLists ==
  {s \in UNION {[1 .. n -> Key] : n \in Lengths} :
     /\ Cardinality({s[m] : m \in DOMAIN s}) = Len(s)
     /\ \A m, n \in DOMAIN s : m < n /\ s[m] > 2 => s[m] < s[n] \/ s[n] < 3}

\* Keys 3, 4 and 5 have the same hash values, both of them the last bucket
\* of three, so that their second bucket is bucket 0; there they have to
\* push away keys 0 and 1, which can still go to bucket 1.
MCH1(k) == <<0, 0, 1, 2, 2, 2>>[k + 1]
MCH2(k) == <<0, 1, 1, 2, 2, 2>>[k + 1]

\* The instance meets the premises of the theorems in CuckooProofs.
ASSUME PremisesHold == Directories
=============================================================================
