------------------------------ MODULE MCChained -----------------------------
(***************************************************************************)
(* Small instances of the chained tables: every list whose length is in    *)
(* Lengths, in every order up to a renaming of keys with the same hash.    *)
(***************************************************************************)
EXTENDS ChainedProperties, FiniteSetsExt, SequencesExt

CONSTANT Lengths

\* A hash with two lists, of up to five and three keys, and a learned model
\* that is exact for lists of the keys 1 .. n in as many buckets.
MCHash(k) == IF k < 6 THEN 4 ELSE 5
MCModel(k) == k - 1

\* The keys of S, those of the second list at the positions of P, the others
\* at the positions that remain; both in ascending order.
Merge(S, P) ==
  LET second == SetToSortSeq({k \in S : k >= 6}, <)
      first == SetToSortSeq({k \in S : k < 6}, <)
      rank(m) == Cardinality({q \in P : q <= m})
  IN  [m \in 1 .. Cardinality(S) |-> IF m \in P THEN second[rank(m)] ELSE first[m - rank(m)]]

MCLists ==
  UNION {{Merge(S, P) : P \in kSubset(Cardinality({k \in S : k >= 6}), 1 .. n)} :
           <<n, S>> \in {q \in Lengths \X SUBSET Key : Cardinality(q[2]) = q[1]}}

\* The instance meets the premises of the theorems in ChainedProofs.
ASSUME PremisesHold == Directories /\ ~ModelIndex
=============================================================================
