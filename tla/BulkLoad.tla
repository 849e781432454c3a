------------------------------- MODULE BulkLoad -----------------------------
(***************************************************************************)
(* The part of the constructors that chained*.hpp, probe*.hpp and          *)
(* cuckoo*.hpp share: the size of the directory and the two loops that     *)
(* insert the shuffled data, the second of which inserts the last          *)
(* insert_count elements under a timer.                                    *)
(*                                                                         *)
(* The list is a sequence without duplicates (deduplicate_and_sort) in any *)
(* order (random_shuffle).  Sizes are size_t: they wrap at SizeT.          *)
(***************************************************************************)
EXTENDS Integers, Sequences

CONSTANTS
  Key,           \* keys a table may hold
  Sentinel,      \* marks a free slot: the largest value of the key type
  Lists,         \* the lists a table may be built from
  SizeT,         \* number of values of size_t
  insert_count,  \* elements of the timed loop, 1000000 in the source
  BucketSize,    \* slots in a bucket
  OverAlloc      \* over-allocation, see NumBuckets

\* load_cached removes the largest value from the data sets.
ASSUME BulkLoadAssumption ==
  /\ Sentinel \notin Key
  /\ SizeT \in Nat \ {0}
  /\ insert_count \in Nat
  /\ BucketSize \in Nat \ {0}
  /\ OverAlloc \in Nat
  /\ \A s \in Lists :
       /\ s \in Seq(Key)
       /\ Len(s) < SizeT
       /\ \A m, n \in DOMAIN s : s[m] = s[n] => m = n

VARIABLES
  data,   \* the keys to insert, in the order of insertion
  i,      \* index of the loops, from 0
  status  \* "first" or "second" loop, "ready", "failed" or "crashed"

load == <<data, i, status>>

Slot == 0 .. BucketSize - 1
Building == {"first", "second"}

\* A percentage of over-allocation below 10000, and above it a load factor.
\* Sizes are computed in double and truncated.
NumBuckets(n) ==
  IF OverAlloc < 10000
  THEN (100 + n * (100 + OverAlloc)) \div (100 * BucketSize)
  ELSE 1 + (n * (OverAlloc - 10000)) \div (100 * BucketSize)

Size == NumBuckets(Len(data))

\* data.size() - insert_count, an unsigned difference.
Split == (Len(data) - insert_count) % SizeT

Elements == {data[n] : n \in DOMAIN data}
Inserted == {data[n] : n \in 1 .. i}

InitLoad ==
  /\ data \in Lists
  /\ i = 0
  /\ status = "first"

\* (Mutant of More: the timed loop ends one element too late.)
Mutant_OneTooMany ==
  \/ status = "first"  /\ i < Split
  \/ status = "second" /\ i <= Len(data)

\* A loop goes on with element i.
More ==
  \/ status = "first"  /\ i < Split
  \/ status = "second" /\ i < Len(data)

\* What the loop reads is an element of the list and the directory is not
\* empty: otherwise the read or the modulo by zero is undefined.
Defined == i < Len(data) /\ Size > 0

Current == data[i + 1]

\* (Mutant of Advance: the index is incremented twice.)
Mutant_AdvanceTwice == i' = i + 2 /\ UNCHANGED <<data, status>>

\* One element was inserted.
Advance == i' = i + 1 /\ UNCHANGED <<data, status>>

\* Undefined behaviour: the program is stopped by the system at best.
Crash ==
  /\ More
  /\ ~Defined
  /\ status' = "crashed"
  /\ UNCHANGED <<data, i>>

\* (Mutant of NextLoop: the timed loop skips the element between the loops.)
Mutant_ElementSkipped ==
  /\ status = "first"
  /\ ~More
  /\ status' = "second"
  /\ i' = Split + 1
  /\ UNCHANGED data

\* The second loop starts at its own initial value, not where the first ended.
NextLoop ==
  /\ status = "first"
  /\ ~More
  /\ status' = "second"
  /\ i' = Split
  /\ UNCHANGED data

Finish ==
  /\ status = "second"
  /\ ~More
  /\ status' = "ready"
  /\ UNCHANGED <<data, i>>

Stopped == status \notin Building

-----------------------------------------------------------------------------
\* The index stays in the list and the first loop stops where the second one
\* starts, whatever a table does with the elements.
LoopInv ==
  /\ data \in Lists
  /\ i \in 0 .. Len(data)
  /\ status = "first" => i <= Split

\* No table is built with an empty directory.
Directories == \A s \in Lists : NumBuckets(Len(s)) > 0
=============================================================================
