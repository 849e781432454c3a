---------------------------- MODULE MonotoneTable ---------------------------
(***************************************************************************)
(* MonotoneHashtable (monotone_hashtable.hpp): chained buckets filled in   *)
(* key order under a monotone learned model, so that an iterator can walk  *)
(* the slots in key order from any key.                                    *)
(***************************************************************************)
EXTENDS Integers, Sequences, FiniteSets

CONSTANTS
  Key,
  Sentinel,     \* marks a free slot
  Lists,        \* sorted lists of keys a table may be built from
  BucketSize,
  MODEL(_, _),  \* model(key) trained for a number of buckets
  None

ASSUME MonotoneAssumption ==
  /\ Key \subseteq Nat /\ Sentinel \notin Key \union {None}
  /\ BucketSize \in Nat \ {0}
  /\ None \notin Nat /\ None \notin [dir : Nat, bucket : Nat, slot : Nat]
  /\ \A s \in Lists :
       /\ s \in Seq(Key) /\ s # << >>
       /\ \A m, n \in DOMAIN s : m < n => s[m] < s[n]
  /\ \A k \in Key, size \in {1 + (Len(s) \div BucketSize) : s \in Lists} :
       /\ MODEL(k, size) \in 0 .. size - 1
       /\ \A l \in Key : k <= l => MODEL(k, size) <= MODEL(l, size)

VARIABLES
  data,  \* the sorted list
  i,     \* elements inserted
  chain, \* directory index -> the buckets of its chain, each slots -> key
  it     \* iterator [dir, bucket, slot], bucket 0 for nullptr; or None

vars == <<data, i, chain, it>>

Slot == 0 .. BucketSize - 1
Size == 1 + (Len(data) \div BucketSize)
Directory == 0 .. Size - 1

EmptyBucket == [s \in Slot |-> Sentinel]

Built == i = Len(data)

Init ==
  /\ data \in Lists
  /\ i = 0
  /\ chain = [d \in Directory |-> <<EmptyBucket>>]
  /\ it = None

-----------------------------------------------------------------------------
(* Construction.                                                           *)

\* Position <<bucket, slot>> of a chain comes before another one.
Before(p, q) == p[1] < q[1] \/ (p[1] = q[1] /\ p[2] < q[2])

Free(c, p) == c[p[1]][p[2]] = Sentinel
Positions(c) == (DOMAIN c) \X Slot

FirstFree(c, p) ==
  Free(c, p) /\ \A q \in Positions(c) : Free(c, q) => ~Before(q, p)

\* Bucket::insert: the first free slot of the chain, or of a new bucket.
Place(c, k) ==
  LET grown == IF \E p \in Positions(c) : Free(c, p) THEN c ELSE Append(c, EmptyBucket)
      p == CHOOSE q \in Positions(grown) : FirstFree(grown, q)
  IN  [grown EXCEPT ![p[1]][p[2]] = k]

Inserted == i' = i + 1

\* Keys are inserted in ascending order.
Insert ==
  /\ ~Built
  /\ LET k == data[i + 1]
     IN  chain' = [chain EXCEPT ![MODEL(k, Size)] = Place(@, k)]
  /\ Inserted
  /\ UNCHANGED <<data, it>>

-----------------------------------------------------------------------------
(* Lookup and iteration.                                                   *)

end == [dir |-> Size, bucket |-> 0, slot |-> 0]

\* The first bucket whose slots before the first Sentinel hold the key.
Holds(d, p, k) ==
  /\ chain[d][p[1]][p[2]] = k
  /\ \A s \in 0 .. p[2] - 1 : chain[d][p[1]][s] # Sentinel

Lookup(k, result) ==
  LET d == MODEL(k, Size)
  IN  \/ \E p \in Positions(chain[d]) :
           /\ Holds(d, p, k)
           /\ result = [dir |-> d, bucket |-> p[1], slot |-> p[2]]
      \/ /\ \A p \in Positions(chain[d]) : ~Holds(d, p, k)
         /\ result = end

\* The callers look a key up when they have done with the last iteration.
Find(k) ==
  /\ Built
  /\ it \in {None, end}
  /\ \E result \in
       {end} \union {[dir |-> d, bucket |-> b, slot |-> s] :
                       d \in Directory, b \in 1 .. Len(data), s \in Slot} :
       Lookup(k, result) /\ it' = result
  /\ UNCHANGED <<data, i, chain>>

\* The next slot of the same bucket is used.
InBucket == it.slot + 1 < BucketSize /\ chain[it.dir][it.bucket][it.slot + 1] # Sentinel

\* (Mutant of NextBucket: the chain of the directory bucket is not followed.)
Mutant_ChainSkipped ==
  IF it.dir + 1 < Size THEN [dir |-> it.dir + 1, bucket |-> 1, slot |-> 0] ELSE end

\* (Mutant of NextBucket: the directory index is not incremented.)
Mutant_DirectoryKept ==
  [it EXCEPT !.bucket = IF it.bucket < Len(chain[it.dir]) THEN @ + 1 ELSE 1, !.slot = 0]

\* The next bucket of the chain, or else the next directory bucket, whether
\* it holds a key or not.
NextBucket ==
  CASE it.bucket < Len(chain[it.dir]) -> [dir |-> it.dir, bucket |-> it.bucket + 1, slot |-> 0]
    [] it.bucket = Len(chain[it.dir]) /\ it.dir + 1 < Size ->
         [dir |-> it.dir + 1, bucket |-> 1, slot |-> 0]
    [] OTHER -> end

\* operator++
Advance ==
  /\ it # None
  /\ it # end
  /\ it' = IF InBucket THEN [it EXCEPT !.slot = @ + 1] ELSE NextBucket
  /\ UNCHANGED <<data, i, chain>>

\* The caller has read as many elements as it wanted.
Drop ==
  /\ it # None
  /\ it' = None
  /\ UNCHANGED <<data, i, chain>>

Next == Insert \/ (\E k \in Key : Find(k)) \/ Advance \/ Drop

\* The constructor and a range query are loops of one thread.
Fairness == WF_vars(Insert) /\ WF_vars(Advance)

Spec == Init /\ [][Next]_vars /\ Fairness

-----------------------------------------------------------------------------
(* What a range query over a MonotoneHashtable relies on.                  *)

\* The places that hold a key, <<directory index, position>>, and those
\* before an iterator.
Places ==
  UNION {{d} \X {p \in Positions(chain[d]) : ~Free(chain[d], p)} : d \in Directory}

Passed(x) ==
  {q \in Places : \/ q[1] < x.dir
                  \/ q[1] = x.dir /\ Before(q[2], <<x.bucket, x.slot>>)}

\* Number of keys stored before the iterator.
Rank(x) == Cardinality(Passed(x))

\* What key() of the iterator reads.
KeyRead == IF it \in {None, end} THEN None ELSE chain[it.dir][it.bucket][it.slot]

Ordered == INSTANCE OrderedTable WITH
  payloads <- data,
  built    <- Built,
  it       <- IF it = None THEN None ELSE Rank(it),
  read     <- KeyRead

\* Lookups and iterations are those of the sorted array with gaps: wherever an
\* iterator stands, key() is the next element of the sorted list, none skipped
\* and none twice, or else Sentinel, and then the element is still to come.
ImplementsOrderedTable == Ordered!SpecTable

\* The callers read key() and payload() of every iterator that is not end(), so
\* that each of them must be on an element: "since data was inserted in sorted
\* order, simply advancing to next slot does the trick".
IteratorsYieldElements == it \notin {None, end} => KeyRead # Sentinel

\* A range query comes to its end, by reaching end() or by being dropped.
IterationEnds == (it # None) ~> (it = None \/ it = end)
=============================================================================
