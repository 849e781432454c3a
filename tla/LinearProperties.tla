-------------------------- MODULE LinearProperties --------------------------
(***************************************************************************)
(* What the linear probing tables must keep true while they are built, and *)
(* the refinement of the promise LookupTable.                              *)
(***************************************************************************)
EXTENDS LinearTable, FiniteSets

TypeOK ==
  /\ data \in Seq(Key)
  /\ i \in 0 .. Len(data)
  /\ status \in {"first", "second", "ready", "failed", "crashed"}
  /\ keys \in [Directory \X Slot -> Key \union {Sentinel}]

PlacesOf(k) == {p \in Directory \X Slot : keys[p] = k}

\* k has one place, and a lookup of k gets there.
HasPath(k) ==
  \E n \in 0 .. ProbeInsert - 1, s \in Slot :
    /\ PlacesOf(k) = {<<Probe(k, n), s>>}
    /\ Reached(k, n, s)

\* A lookup stops at the first Sentinel, so every bucket from the home
\* bucket of a key to the one that holds it must be full, and every slot
\* before it in its own bucket; each key has one place.
ProbePathsFull == \A k \in Inserted : HasPath(k)

\* operator[] answers 1 for exactly the keys inserted so far; it takes the
\* hash value modulo the size of the directory.
AnswersMembership ==
  Size > 0 => \A k \in Key : Lookup(k) <=> k \in Inserted

\* The buckets an insertion of k may look at: ProbeInsert of them from the
\* home bucket on, round the directory, or all of them if there are fewer.
WithinLimit(k) == {b \in Directory : (b - Start(k)) % Size < ProbeInsert}

\* The constructor throws for want of room only when every bucket it may look
\* at for the element in hand is full, whether these are the whole directory or
\* the next ProbeInsert buckets of a longer one: a free slot within the limit
\* is found, over the end of the directory, too.
ThrowsOnlyWhenFull ==
  status = "failed" =>
    /\ i < Len(data)
    /\ \A b \in WithinLimit(Current), s \in Slot : keys[<<b, s>>] # Sentinel

-----------------------------------------------------------------------------
(* The strengthening that makes TypeOK and ProbePathsFull inductive.       *)

\* Nothing but inserted keys is in the table.
OnlyInserted == \A p \in Directory \X Slot : keys[p] \in Inserted \union {Sentinel}

\* While the constructors of the linear tables run, every inserted key lies at
\* the end of a full probe path of its own, nothing else is in the table, and
\* the second loop starts where the first one stops.
TableInv == LoopInv /\ OnlyInserted /\ ProbePathsFull

-----------------------------------------------------------------------------
Promise == INSTANCE LookupTable WITH
  todo    <- Elements \ Inserted,
  content <- {k \in Key : Lookup(k)},
  status  <- IF status \in {"ready", "failed"} THEN status ELSE "building"

\* Each insertion adds its key to the keys found and takes none away; the
\* table is ready only when every key of the list is found.
ImplementsLookupTable == Promise!Spec
=============================================================================
