----------------------------- MODULE LookupTable ----------------------------
(***************************************************************************)
(* What every hash table of code/include promises, whatever its collision  *)
(* strategy: it is built from a list of keys, a lookup then answers 1 for  *)
(* exactly the keys of the list, and it is only handed out if every key    *)
(* found a place.                                                          *)
(***************************************************************************)
CONSTANT Key

VARIABLES
  todo,     \* keys of the list that are not in the table yet
  content,  \* keys a lookup answers 1 for
  status    \* "building", "ready", or "failed": the constructor has thrown

vars == <<todo, content, status>>

Init ==
  /\ todo \in SUBSET Key
  /\ content = {}
  /\ status = "building"

Insert(k) ==
  /\ status = "building"
  /\ k \in todo
  /\ todo' = todo \ {k}
  /\ content' = content \union {k}
  /\ UNCHANGED status

Finish ==
  /\ status = "building"
  /\ todo = {}
  /\ status' = "ready"
  /\ UNCHANGED <<todo, content>>

\* The constructor gives up; one key may be lost with it.
Fail ==
  /\ status = "building"
  /\ status' = "failed"
  /\ \E lost \in SUBSET content :
       /\ \A x, y \in lost : x = y
       /\ content' = content \ lost
  /\ UNCHANGED todo

Next == (\E k \in Key : Insert(k)) \/ Finish \/ Fail

Spec == Init /\ [][Next]_vars
=============================================================================
