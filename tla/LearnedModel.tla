---------------------------- MODULE LearnedModel ----------------------------
(***************************************************************************)
(* The recursive model index of learned_sort_for_sort_merge.h: a root line *)
(* picks one of several leaf lines, and the leaf estimates the key's place *)
(* in the sorted order, a fraction of 1.                                   *)
(*                                                                         *)
(* A line is kept as a point and a direction, so that its values are exact *)
(* fractions; the code's doubles round them.  A leaf's y is in units of    *)
(* 1/size, the distance of two samples.  A vertical line (dx = 0) stands   *)
(* for the slope 1/0: its value at every key is inf - inf, not a number.   *)
(***************************************************************************)
EXTENDS Integers, Sequences, SequencesExt, FiniteSets

CONSTANTS
    DEFAULT_BATCH_SZ, DEFAULT_FANOUT, DEFAULT_THRESHOLD,
    DEFAULT_SAMPLING_RATE,      \* percent
    DEFAULT_ARCH,               \* number of leaves
    MIN_SORTING_SIZE            \* a sample is not smaller than this

ASSUME LearnedModelAssumption ==
    {DEFAULT_BATCH_SZ, DEFAULT_FANOUT, DEFAULT_THRESHOLD,
     DEFAULT_SAMPLING_RATE, DEFAULT_ARCH, MIN_SORTING_SIZE} \subseteq Nat \ {0}
-----------------------------------------------------------------------------
Least(a, b) == IF a <= b THEN a ELSE b
Most(a, b) == IF a >= b THEN a ELSE b
Clamp(last, i) == Most(0, Least(last, i))

Ascending(s) == SortSeq(s, LAMBDA a, b : a < b)

(* validate_params: a parameter that does not suit an input of n tuples    *)
(* goes back to its default, whether that suits the input or not.          *)
validate_params(hp, n) ==
    LET fanout == IF hp.fanout >= n THEN DEFAULT_FANOUT ELSE hp.fanout
    IN  [batch         |-> IF hp.batch >= n THEN DEFAULT_BATCH_SZ ELSE hp.batch,
         fanout        |-> fanout,
         sampling_rate |-> IF hp.sampling_rate \in 1..100 THEN hp.sampling_rate
                           ELSE DEFAULT_SAMPLING_RATE,
         threshold     |-> IF hp.threshold = 0 \/ hp.threshold >= n
                              \/ hp.threshold >= n \div fanout
                           THEN DEFAULT_THRESHOLD ELSE hp.threshold,
         arch          |-> IF hp.arch = 0 THEN DEFAULT_ARCH ELSE hp.arch]
-----------------------------------------------------------------------------
Through(p, q) == [x |-> p.x, y |-> p.y, dx |-> q.x - p.x, dy |-> q.y - p.y]
Level(height) == [x |-> 0, y |-> height, dx |-> 1, dy |-> 0]
Origin == [x |-> 0, y |-> 0]

(* A line that is not vertical at the key, rounded. *)
RoundedAt(line, key) ==
    (2 * (line.y * line.dx + line.dy * (key - line.x)) + line.dx) \div (2 * line.dx)

Untrained(leaves) ==
    [trained |-> FALSE, size |-> 1, root |-> Level(0),
     leaf |-> [i \in 0..(leaves - 1) |-> Level(0)]]

(* The sample: every offset-th tuple.  It may be longer than size. *)
SampleSize(hp, n) == Least(n, Most((hp.sampling_rate * n) \div 100, MIN_SORTING_SIZE))
Sample(keys, size) ==
    LET offset == Len(keys) \div size
    IN  [i \in 1..((Len(keys) + offset - 1) \div offset) |-> keys[(i - 1) * offset + 1]]

(* The training points of each leaf: the root line, rounded, places them.  *)
(* Only the first size samples are used, and they must not all be equal.   *)
RootLine(sorted, size, leaves) ==
    Through([x |-> sorted[1], y |-> 0], [x |-> sorted[size], y |-> leaves - 1])
TrainingData(sorted, size, leaves) ==
    LET points  == [i \in 1..size |-> [x |-> sorted[i], y |-> i - 1]]
        root    == RootLine(sorted, size, leaves)
        Rank(d) == Clamp(leaves - 1, RoundedAt(root, d.x))
    IN  [i \in 0..(leaves - 1) |-> SelectSeq(points, LAMBDA d : Rank(d) = i)]

(* The last point of each leaf.  A leaf without points repeats the one     *)
(* before it, and a first leaf with a single point ends in the origin.     *)
LastPoints(data) ==
    LET back[i \in DOMAIN data] ==
            CASE i = 0 /\ Len(data[0]) < 2 -> Origin
              [] i > 0 /\ data[i] = <<>>   -> back[i - 1]
              [] OTHER                     -> Last(data[i])
    IN  back

(* The lines of the leaves.  A leaf's line begins in the last point of the *)
(* leaf before it; the last leaf's line ends at height 1.                  *)
FirstLeaf(points) ==
    IF Len(points) < 2 THEN Level(0)
    ELSE [Through(points[1], Last(points)) EXCEPT !.dy = Last(points).y]
LastLeaf(points, before, size) ==
    IF points = <<>> THEN Level(size)
    ELSE Through(before, [x |-> Last(points).x, y |-> size])
InnerLeaf(points, before) ==
    IF points = <<>> THEN Level(before.y) ELSE Through(before, Last(points))

LeafLines(data, size) ==
    LET leaves == Cardinality(DOMAIN data)
        back   == LastPoints(data)
    IN  [i \in 0..(leaves - 1) |->
            CASE i = 0              -> FirstLeaf(data[0])
              [] i > 0 /\ i = leaves - 1 -> LastLeaf(data[i], back[i - 1], size)
              [] OTHER              -> InnerLeaf(data[i], back[i - 1])]

Fitted(sorted, size, leaves) ==
    IF sorted[1] = Last(sorted) THEN Untrained(leaves)
    ELSE [trained |-> TRUE, size |-> size, root |-> RootLine(sorted, size, leaves),
          leaf |-> LeafLines(TrainingData(sorted, size, leaves), size)]

(* train: the model, and the sorted sample of the relation. *)
train(hp, keys) ==
    LET size   == SampleSize(hp, Len(keys))
        sorted == Ascending(Sample(keys, size))
    IN  [model |-> Fitted(sorted, size, hp.arch), sample |-> sorted]

(* train on two relations: a sample of each, and the model of both. *)
train_two(hp, keysR, keysS) ==
    LET sizeR  == SampleSize(hp, Len(keysR))
        sizeS  == SampleSize(hp, Len(keysS))
        R      == Sample(keysR, sizeR)
        S      == Sample(keysS, sizeS)
    IN  [model    |-> Fitted(Ascending(R \o S), sizeR + sizeS, hp.arch),
         sample_R |-> Ascending(R), sample_S |-> Ascending(S)]
-----------------------------------------------------------------------------
(* scale * line(key) / size, limited to 0..last and then truncated: as     *)
(* many numbers of 1..last as are not greater, offset being subtracted.    *)
(* std::min and _mm512_min_pd both prefer last to a value that is not a    *)
(* number.                                                                 *)
Predicted(line, key, scale, size, offset, last) ==
    IF line.dx = 0 THEN last
    ELSE Cardinality({b \in 1..last :
            (offset + b) * line.dx * size <= (line.y * line.dx + line.dy * (key - line.x)) * scale})

(* The leaf of a key: the root line again, truncated this time. *)
LeafOf(m, key) == Predicted(m.root, key, 1, 1, 0, Cardinality(DOMAIN m.leaf) - 1)

(* The bucket of a key whose leaf is known: its estimated place among      *)
(* scale buckets, of which count buckets from offset on are in use.        *)
BucketIn(m, leaf, key, scale, offset, count) ==
    Predicted(m.leaf[leaf], key, scale, m.size, offset, count - 1)

Bucket(m, key, scale, offset, count) ==
    BucketIn(m, LeafOf(m, key), key, scale, offset, count)
=============================================================================
