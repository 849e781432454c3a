-------------------------- MODULE ChainedProperties -------------------------
(***************************************************************************)
(* What the chained tables must keep true while they are built, and the    *)
(* refinement of the promise LookupTable.                                  *)
(***************************************************************************)
EXTENDS ChainedTable

TapeBuckets == (1 .. tape.segments) \X (0 .. SegmentSize - 1)
BucketsInUse == {DirBucket(d) : d \in Directory}
                  \union UNION {{chain[d][n] : n \in DOMAIN chain[d]} : d \in Directory}

\* The overflow buckets in use are elements of an allocated segment, and
\* every bucket in use has all its slots.
TypeOK ==
  /\ data \in Seq(Key)
  /\ i \in 0 .. Len(data)
  /\ status \in {"first", "second", "ready", "crashed"}
  /\ tape \in [segments : Nat, index : 0 .. SegmentSize]
  /\ chain \in [Directory -> Seq(TapeBuckets)]
  /\ keys \in [BucketsInUse \X Slot -> Key \union {Sentinel}]

\* Why the early return is right: a list has a further bucket only when all
\* slots before it are taken, and a bucket is filled from slot 0 on.  Why an
\* insertion disturbs no other list: the tape never hands out a bucket twice.
ListsFillFromTheFront ==
  /\ \A d \in Directory : \A p, q \in Places(d) :
       Before(p, q) /\ KeyAt(d, q) # Sentinel => KeyAt(d, p) # Sentinel
  /\ \A d, e \in Directory : \A m \in DOMAIN chain[d], n \in DOMAIN chain[e] :
       chain[d][m] = chain[e][n] => d = e /\ m = n

\* The early return of the exotic table at a Sentinel
\* (chained_exotic.hpp:403) changes no answer of operator[].
EarlyReturnMissesNothing ==
  status # "crashed" => \A k \in Key : ExoticLookup(k) <=> Lookup(k)

\* While lists grow by buckets of one tape, each stays of its type, filled
\* from the front, apart from the others, and right to stop early in.
ChainInv == TypeOK /\ ListsFillFromTheFront /\ EarlyReturnMissesNothing

\* The constructor reads the elements of its list only, and divides by the
\* size of a directory that is not empty, if the list has insert_count keys:
\* data.size() - insert_count wraps for a shorter one.
NoUndefinedRead == status = "crashed" => Len(data) < insert_count

-----------------------------------------------------------------------------
(* The strengthening that makes the properties above inductive.            *)

\* Every bucket in use was handed out before what the tape hands out next.
TapeAhead ==
  \A d \in Directory : \A n \in DOMAIN chain[d] :
    \/ chain[d][n][1] < tape.segments
    \/ chain[d][n][1] = tape.segments /\ chain[d][n][2] < tape.index

\* The list of an inserted key holds it, and no list holds anything else.
Listed(k) ==
  \E d \in Directory :
    d = InsertIndex(k) /\ \E p \in Places(d) : KeyAt(d, p) = k
ListsHoldInserted ==
  /\ \A k \in Inserted : Listed(k)
  /\ \A p \in BucketsInUse \X Slot : keys[p] \in Inserted \union {Sentinel}

ListInv == LoopInv /\ ListsFillFromTheFront /\ TapeAhead /\ ListsHoldInserted

-----------------------------------------------------------------------------
Promise == INSTANCE LookupTable WITH
  todo    <- Elements \ Inserted,
  content <- {k \in Key : Lookup(k)},
  status  <- IF status = "ready" THEN "ready" ELSE "building"

\* Each insertion adds its key to the keys found and takes none away, and
\* the table is ready only when every key of the list is found.
ImplementsLookupTable == Promise!Spec
=============================================================================
