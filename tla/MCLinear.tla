------------------------------- MODULE MCLinear -----------------------------
(***************************************************************************)
(* Small instances of the linear probing tables: every order of every list *)
(* whose length is in Lengths.                                             *)
(***************************************************************************)
EXTENDS LinearProperties

CONSTANT Lengths

MCLists ==
  {s \in UNION {[1 .. n -> Key] : n \in Lengths} : Cardinality({s[m] : m \in DOMAIN s}) = Len(s)}

\* Two neighbouring home buckets near the end, so that probing wraps.
MCHash(k) == IF k % 2 = 0 THEN 1 ELSE 2

\* The instance meets the premises of the theorems in LinearProofs.
ASSUME PremisesHold == Directories /\ ProbeInsert <= ProbeLookup
=============================================================================
