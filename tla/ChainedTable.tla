----------------------------- MODULE ChainedTable ---------------------------
(***************************************************************************)
(* KapilChainedHashTable, KapilChainedExoticHashTable and                  *)
(* KapilChainedModelHashTable (chained.hpp, chained_exotic.hpp,            *)
(* chained_model.hpp): a directory of buckets, each with a linked list of  *)
(* overflow buckets that a Tape (support.hpp) hands out.                   *)
(*                                                                         *)
(* HASH is the hash function, the perfect hash or the learned model, as    *)
(* the table calls it.  A bucket of the list is a place on the tape,       *)
(* <<segment, index>>; the directory's own buckets are <<0, index>>.       *)
(* Payloads are left out: operator[] answers 0 or 1.                       *)
(***************************************************************************)
EXTENDS BulkLoad

CONSTANTS
  HASH(_),      \* hashfn(key), mmphf(key) or model(key)
  SegmentSize,  \* next_tape_segment_size of Tape::alloc
  ModelIndex,   \* TRUE for the indices of KapilChainedModelHashTable
  ModelScale    \* 100000000 in KapilChainedModelHashTable::insert

ASSUME ChainedAssumption ==
  /\ SegmentSize \in Nat \ {0}
  /\ ModelScale \in Nat \ {0}
  /\ \A k \in Key : HASH(k) \in Nat

VARIABLES
  keys,   \* keys[] of the buckets in use: <<bucket, slot>> -> key or Sentinel
  chain,  \* directory index -> the buckets linked behind it
  tape    \* segments allocated, and index in the last one

vars == <<load, keys, chain, tape>>

Directory == 0 .. Size - 1
DirBucket(d) == <<0, d>>

\* The directory index at which a key is inserted and looked up.
InsertIndex(k) == IF ModelIndex THEN HASH(k) \div ModelScale ELSE HASH(k) % Size
LookupIndex(k) == IF ModelIndex THEN HASH(k) ELSE HASH(k) % Size

\* The buckets one reaches from a directory bucket along next.
Buckets(d) == <<DirBucket(d)>> \o chain[d]

Init ==
  /\ InitLoad
  /\ keys = [p \in {DirBucket(d) : d \in Directory} \X Slot |-> Sentinel]
  /\ chain = [d \in Directory |-> <<>>]
  /\ tape = [segments |-> 0, index |-> 0]

-----------------------------------------------------------------------------
(* Bucket::insert.                                                         *)

\* Places <<n, s>>, slot s of the n-th bucket of the list, in walking order.
Places(d) == (1 .. Len(Buckets(d))) \X Slot
Before(p, q) == p[1] < q[1] \/ (p[1] = q[1] /\ p[2] < q[2])
KeyAt(d, p) == keys[<<Buckets(d)[p[1]], p[2]>>]
Free(d) == {p \in Places(d) : KeyAt(d, p) = Sentinel}

\* Tape::alloc: a new segment when there is none or the last one is used up.
NeedSegment == tape.segments = 0 \/ tape.index = SegmentSize

\* (Mutant of Alloc: the index restarts at 0 behind the first bucket.)
Mutant_IndexRestarts ==
  IF NeedSegment
  THEN [segments |-> tape.segments + 1, index |-> 0]
  ELSE [tape EXCEPT !.index = @ + 1]

Alloc ==
  IF NeedSegment
  THEN [segments |-> tape.segments + 1, index |-> 1]
  ELSE [tape EXCEPT !.index = @ + 1]
Allocated == IF NeedSegment THEN <<tape.segments + 1, 0>> ELSE <<tape.segments, tape.index>>

FirstFree(d, p) == p \in Free(d) /\ \A q \in Free(d) \ {p} : Before(p, q)

InsertInList(d) ==
  \E p \in Free(d) :
    /\ FirstFree(d, p)
    /\ keys' = [keys EXCEPT ![<<Buckets(d)[p[1]], p[2]>>] = Current]
    /\ UNCHANGED <<chain, tape>>

\* previous->next = tape.alloc(), and the key goes to its first slot.
InsertInNew(d) ==
  /\ Free(d) = {}
  /\ tape' = Alloc
  /\ chain' = [chain EXCEPT ![d] = Append(@, Allocated)]
  /\ keys' = [p \in DOMAIN keys \union ({Allocated} \X Slot) |->
                IF p[1] # Allocated THEN keys[p]
                ELSE IF p[2] = 0 THEN Current ELSE Sentinel]

Insert ==
  /\ More
  /\ Defined
  /\ \/ InsertInList(InsertIndex(Current))
     \/ InsertInNew(InsertIndex(Current))
  /\ Advance

-----------------------------------------------------------------------------
(* operator[] of the built table.                                          *)

\* The slots one compares in a bucket: up to its first Sentinel.
Compared(d, p) == \A s \in 0 .. p[2] : KeyAt(d, <<p[1], s>>) # Sentinel

Lookup(k) ==
  \E p \in Places(LookupIndex(k)) :
    Compared(LookupIndex(k), p) /\ KeyAt(LookupIndex(k), p) = k

\* The exotic table gives up at the first Sentinel of any bucket.
ExoticLookup(k) ==
  LET d == LookupIndex(k) IN
  \E p \in Places(d) :
    /\ KeyAt(d, p) = k
    /\ \A q \in Places(d) : Before(q, p) => KeyAt(d, q) # Sentinel

-----------------------------------------------------------------------------
Load == (NextLoop \/ Finish \/ Crash) /\ UNCHANGED <<keys, chain, tape>>

Next == Insert \/ Load \/ (Stopped /\ UNCHANGED vars)

Spec == Init /\ [][Next]_vars
=============================================================================
