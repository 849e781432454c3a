----------------------------- MODULE MCMonotone -----------------------------
(***************************************************************************)
(* Small instances: every sorted list of 1 to MaxLen keys, and a model     *)
(* that is a step, so that chains grow at both ends of the directory and   *)
(* the buckets between them stay empty.                                    *)
(***************************************************************************)
EXTENDS MonotoneTable, SequencesExt

CONSTANT MaxLen

MCLists == {SetToSortSeq(S, <) : S \in {T \in SUBSET Key : Cardinality(T) \in 1 .. MaxLen}}

MCModel(k, size) == IF k < 4 THEN 0 ELSE size - 1
=============================================================================
