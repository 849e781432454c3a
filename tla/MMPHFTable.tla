----------------------------- MODULE MMPHFTable -----------------------------
(***************************************************************************)
(* MMPHFTable (mmphf_table.hpp): a sorted array that a minimal monotone    *)
(* perfect hash function indexes, with an iterator in key order.           *)
(* OrderedTable adds the gaps of MonotoneTable to it.                      *)
(*                                                                         *)
(* A payload is the key's own and is left out.                             *)
(***************************************************************************)
EXTENDS Integers, Sequences

CONSTANTS Key, None

VARIABLES
  payloads,  \* the keys in ascending order
  built,     \* the constructor has returned
  it         \* index of the iterator in use, or None

vars == <<payloads, built, it>>

end == Len(payloads)

Ascending(s) == \A m, n \in DOMAIN s : m < n => s[m] < s[n]

Init ==
  /\ payloads \in Seq(Key)
  /\ Ascending(payloads)
  /\ built = FALSE
  /\ it = None

Construct ==
  /\ ~built
  /\ built' = TRUE
  /\ UNCHANGED <<payloads, it>>

\* operator[]: the hash function (external) maps the keys of the table to
\* their ranks and any other key to some index.
Find(k) ==
  /\ built
  /\ it \in {None, end}
  /\ \E index \in 0 .. end - 1 :
       /\ (\E n \in DOMAIN payloads : payloads[n] = k) => payloads[index + 1] = k
       /\ it' = IF payloads[index + 1] = k THEN index ELSE end
  /\ UNCHANGED <<payloads, built>>

\* operator++
Advance ==
  /\ it # None
  /\ it < end
  /\ it' = it + 1
  /\ UNCHANGED <<payloads, built>>

\* The caller has read as many elements as it wanted.
Drop ==
  /\ it # None
  /\ it' = None
  /\ UNCHANGED <<payloads, built>>

Next == Construct \/ (\E k \in Key : Find(k)) \/ Advance \/ Drop

Spec == Init /\ [][Next]_vars
=============================================================================
