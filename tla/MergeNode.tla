------------------------------ MODULE MergeNode ------------------------------
(***************************************************************************)
(* The inner queues of the multiway merges (struct MergeNode of            *)
(* eth_data_structures.h) and the operations of scalar_multiwaymerge.h and *)
(* avx_multiwaymerge.h on them.  A node is a ring of fifosize cells that   *)
(* begins at address buffer; head and tail are offsets in it, and the      *)
(* queue is full or empty when they are equal.                             *)
(*                                                                         *)
(* There are four implementations.  "scalar" and "avx" cut the rings into  *)
(* linear pieces, which the kernels of BitonicMerge merge; "modulo" and    *)
(* "bitand" move item by item, and wrap their offsets with % and &.        *)
(***************************************************************************)
EXTENDS BitonicMerge, FiniteSets, Bitwise

CONSTANTS
    impl,       \* "scalar", "avx", "modulo" or "bitand"
    fifosize

Node(buffer) == [buffer |-> buffer, count |-> 0, head |-> 0, tail |-> 0]

(* The next readable and the next writable piece that does not wrap. *)
Segment(n) == IF n.head >= n.tail THEN fifosize - n.head ELSE n.tail - n.head
Room(n)    == IF n.head > n.tail THEN n.head - n.tail ELSE fifosize - n.tail

(* All pieces, as direct_copy counts them. *)
Readable(n) == IF n.head >= n.tail THEN Segment(n) + n.tail ELSE Segment(n)
Writable(n) == IF n.head > n.tail THEN Room(n) ELSE Room(n) + n.head

Wrap(i) == IF impl = "bitand" THEN i & (fifosize - 1) ELSE i % fifosize

Queued(m, n) == [i \in 1..n.count |-> At(m, n.buffer + ((n.head + i - 1) % fifosize))]
Peek(m, n, k) == [i \in 1..k |-> At(m, n.buffer + Wrap(n.head + i - 1))]

(* Items to a ring's tail, and from its head. *)
Put(m, n, items) ==
    LET Slot(addr) == Wrap((addr - n.buffer) + fifosize - n.tail)
    IN  [i \in DOMAIN m |->
            IF i - 1 \in n.buffer .. (n.buffer + fifosize - 1) /\ Slot(i - 1) < Len(items)
            THEN items[Slot(i - 1) + 1] ELSE m[i]]
Grow(n, k)   == [n EXCEPT !.tail = Wrap(@ + k), !.count = @ + k]
Shrink(n, k) == [n EXCEPT !.head = Wrap(@ + k), !.count = @ - k]

Lesser(a, b) == IF a < b THEN a ELSE b

(* The state of an operation: memory, the node written (or the output's    *)
(* address), and the two nodes (or the two addresses) read.                *)
direct_copy(m, dest, src) ==
    LET k == Lesser(Writable(dest), Readable(src))
    IN  [m |-> Put(m, dest, Peek(m, src, k)), node |-> Grow(dest, k), src |-> Shrink(src, k)]

direct_copy_avx(m, dest, src) == direct_copy(m, dest, src)

direct_copy_to_output(m, out, src) ==
    LET k == Readable(src)
    IN  [m |-> Store(m, out, Peek(m, src, k)), out |-> out + k, src |-> Shrink(src, k)]

direct_copy_to_output_avx(m, out, src) == direct_copy_to_output(m, out, src)
-----------------------------------------------------------------------------
(* The merge of two sequences until one of them or the room is used up;    *)
(* a tie goes to y, the left node or part B.                               *)
RECURSIVE MergeSeqs(_, _, _, _)
MergeSeqs(x, y, room, merged) ==
    IF room = 0 \/ x = <<>> \/ y = <<>> THEN merged
    ELSE IF Head(x) < Head(y) THEN MergeSeqs(Tail(x), y, room - 1, Append(merged, <<"x", Head(x)>>))
    ELSE MergeSeqs(x, Tail(y), room - 1, Append(merged, <<"y", Head(y)>>))

Taken(merged, from) == Cardinality({i \in DOMAIN merged : merged[i][1] = from})
Values(merged) == [i \in DOMAIN merged |-> merged[i][2]]

LinearKernel(m, a, b, out, endA, endB, slots) ==
    IF impl = "avx" THEN merge16kernel(m, a, b, out, endA, endB, slots)
    ELSE serialmergekernel(m, a, b, out, endA, endB, slots)

LinearStoreKernel(m, a, b, out, endA, endB) ==
    IF impl = "avx" THEN mergestore16kernel(m, a, b, out, endA, endB)
    ELSE serialmergestorekernel(m, a, b, out, endA, endB)
-----------------------------------------------------------------------------
(* Leaves: from two parts into a ring.  The result names the items taken   *)
(* from each part.                                                         *)

(* The rest of one part, when the other is used up, goes round the ring.   *)
ReadRest(m, n, a, endA, b, endB) ==
    LET fromA == a < endA
        k == Lesser(fifosize - n.count, IF fromA THEN endA - a ELSE endB - b)
    IN  [m |-> Put(m, n, Load(m, IF fromA THEN a ELSE b, k)), node |-> Grow(n, k),
         a |-> IF fromA THEN a + k ELSE a, b |-> IF fromA THEN b ELSE b + k]

(* (Mutant of SecondPiece: also if the free cells did not wrap.) *)
Mutant_AlwaysSecond(n, out) == out = n.buffer + n.tail + Room(n) /\ n.head # 0
SecondPiece(n, out) == out = n.buffer + n.tail + Room(n) /\ n.head <= n.tail /\ n.head # 0

(* The first piece of free cells, then the one at the ring's start. *)
Piece(n, from, kernel) ==
    [m |-> kernel.m, node |-> Grow(n, kernel.out - from), a |-> kernel.a, b |-> kernel.b]

ReadSecond(n, first, endA, endB) ==
    IF SecondPiece(n, n.buffer + n.tail + (first.node.count - n.count))
    THEN Piece(first.node, n.buffer,
               LinearKernel(first.m, first.a, first.b, n.buffer, endA, endB, n.head))
    ELSE first

FillUp(s, endA, endB) ==
    IF s.node.count < fifosize THEN ReadRest(s.m, s.node, s.a, endA, s.b, endB) ELSE s

readmerge_decomposed(m, n, a, endA, b, endB) ==
    LET tail == n.buffer + n.tail
    IN  FillUp(ReadSecond(n, Piece(n, tail, LinearKernel(m, a, b, tail, endA, endB, Room(n))),
                          endA, endB),
               endA, endB)

readmerge_scalar_decomposed(m, n, a, endA, b, endB)   == readmerge_decomposed(m, n, a, endA, b, endB)
readmerge_parallel_decomposed(m, n, a, endA, b, endB) == readmerge_decomposed(m, n, a, endA, b, endB)

readmerge_scalar_modulo(m, n, a, endA, b, endB) ==
    LET Read(merged) == ReadRest(Put(m, n, Values(merged)), Grow(n, Len(merged)),
                                 a + Taken(merged, "x"), endA, b + Taken(merged, "y"), endB)
    IN  Read(MergeSeqs(Load(m, a, endA - a), Load(m, b, endB - b), fifosize - n.count, <<>>))

readmerge_scalar_bitand(m, n, a, endA, b, endB) == readmerge_scalar_modulo(m, n, a, endA, b, endB)

readmerge(m, n, a, endA, b, endB) ==
    CASE impl = "scalar" -> readmerge_scalar_decomposed(m, n, a, endA, b, endB)
      [] impl = "avx"    -> readmerge_parallel_decomposed(m, n, a, endA, b, endB)
      [] impl = "modulo" -> readmerge_scalar_modulo(m, n, a, endA, b, endB)
      [] impl = "bitand" -> readmerge_scalar_bitand(m, n, a, endA, b, endB)
-----------------------------------------------------------------------------
(* Inner nodes and the root.  If one child will get no more items and is   *)
(* empty, and the other is neither, the other's items are copied.          *)
CopiesLeft(right, left, rdone, ldone)  == rdone /\ right.count = 0 /\ ~ldone /\ left.count > 0
CopiesRight(right, left, rdone, ldone) == ldone /\ left.count = 0 /\ ~rdone /\ right.count > 0

RECURSIVE MergeSegments(_)
MergeSegments(s) ==
    IF s.node.count < fifosize /\ s.right.count > 0 /\ s.left.count > 0
    THEN LET R == s.right.buffer + s.right.head
             L == s.left.buffer + s.left.head
             O == s.node.buffer + s.node.tail
             After(k) == [m |-> k.m, node |-> Grow(s.node, k.out - O),
                          right |-> Shrink(s.right, k.a - R), left |-> Shrink(s.left, k.b - L)]
         IN  MergeSegments(After(LinearKernel(s.m, R, L, O, R + Segment(s.right),
                                              L + Segment(s.left), Room(s.node))))
    ELSE s

(* Both children done: the rest of one of them, as far as the free cells   *)
(* up to the ring's end go (the pieces), or all free cells (item by item). *)
RestOfChild(s, room) ==
    LET k == Lesser(room, IF s.right.count > 0 THEN s.right.count ELSE s.left.count)
    IN  IF s.right.count > 0
        THEN [s EXCEPT !.m = Put(s.m, s.node, Peek(s.m, s.right, k)),
                       !.node = Grow(@, k), !.right = Shrink(@, k)]
        ELSE [s EXCEPT !.m = Put(s.m, s.node, Peek(s.m, s.left, k)),
                       !.node = Grow(@, k), !.left = Shrink(@, k)]

(* (Mutant of NothingToCome: one child is done.) *)
Mutant_OneDone(rdone, ldone) == rdone \/ ldone
NothingToCome(rdone, ldone) == rdone /\ ldone

merge_decomposed(s, rdone, ldone) ==
    LET Finish(t) == IF NothingToCome(rdone, ldone) /\ t.node.count < fifosize
                     THEN RestOfChild(t, Lesser(fifosize - t.node.count, fifosize - t.node.tail))
                     ELSE t
    IN  Finish(MergeSegments(s))

merge_scalar_decomposed(s, rdone, ldone)   == merge_decomposed(s, rdone, ldone)
merge_parallel_decomposed(s, rdone, ldone) == merge_decomposed(s, rdone, ldone)

merge_scalar_modulo(s, rdone, ldone) ==
    LET After(merged) == [m |-> Put(s.m, s.node, Values(merged)), node |-> Grow(s.node, Len(merged)),
                          right |-> Shrink(s.right, Taken(merged, "x")),
                          left |-> Shrink(s.left, Taken(merged, "y"))]
        Finish(t) == IF NothingToCome(rdone, ldone) THEN RestOfChild(t, fifosize - t.node.count) ELSE t
    IN  Finish(After(MergeSeqs(Peek(s.m, s.right, s.right.count), Peek(s.m, s.left, s.left.count),
                               fifosize - s.node.count, <<>>)))

merge_scalar_bitand(s, rdone, ldone) == merge_scalar_modulo(s, rdone, ldone)

(* The bit-and implementation's loop calls the modulo merge on its nodes. *)
merge(m, node, right, left, rdone, ldone) ==
    IF CopiesLeft(right, left, rdone, ldone)
    THEN LET c == direct_copy(m, node, left)
         IN  [m |-> c.m, node |-> c.node, right |-> right, left |-> c.src]
    ELSE IF CopiesRight(right, left, rdone, ldone)
    THEN LET c == direct_copy(m, node, right)
         IN  [m |-> c.m, node |-> c.node, right |-> c.src, left |-> left]
    ELSE LET s == [m |-> m, node |-> node, right |-> right, left |-> left]
         IN  CASE impl = "scalar" -> merge_scalar_decomposed(s, rdone, ldone)
               [] impl = "avx"    -> merge_parallel_decomposed(s, rdone, ldone)
               [] OTHER           -> merge_scalar_modulo(s, rdone, ldone)
-----------------------------------------------------------------------------
(* The root: from nodes 0 (right) and 1 (left) to the output. *)
RECURSIVE StoreSegments(_)
StoreSegments(s) ==
    IF s.right.count > 0 /\ s.left.count > 0
    THEN LET R == s.right.buffer + s.right.head
             L == s.left.buffer + s.left.head
             After(k) == [m |-> k.m, out |-> k.out,
                          right |-> Shrink(s.right, k.a - R), left |-> Shrink(s.left, k.b - L)]
         IN  StoreSegments(After(LinearStoreKernel(s.m, R, L, s.out, R + Segment(s.right),
                                                   L + Segment(s.left))))
    ELSE s

(* Both done: all that is left of one of them. *)
StoreRest(s) ==
    IF s.right.count > 0
    THEN [s EXCEPT !.m = Store(s.m, s.out, Peek(s.m, s.right, s.right.count)),
                   !.out = @ + s.right.count, !.right = Shrink(@, s.right.count)]
    ELSE [s EXCEPT !.m = Store(s.m, s.out, Peek(s.m, s.left, s.left.count)),
                   !.out = @ + s.left.count, !.left = Shrink(@, s.left.count)]

mergestore_decomposed(s, rdone, ldone) ==
    LET Finish(t) == IF NothingToCome(rdone, ldone) THEN StoreRest(t) ELSE t
    IN  Finish(StoreSegments(s))

mergestore_scalar_decomposed(s, rdone, ldone)   == mergestore_decomposed(s, rdone, ldone)
mergestore_parallel_decomposed(s, rdone, ldone) == mergestore_decomposed(s, rdone, ldone)

mergestore_scalar_modulo(s, rdone, ldone) ==
    LET After(merged) == [m |-> Store(s.m, s.out, Values(merged)), out |-> s.out + Len(merged),
                          right |-> Shrink(s.right, Taken(merged, "x")),
                          left |-> Shrink(s.left, Taken(merged, "y"))]
        Finish(t) == IF NothingToCome(rdone, ldone) THEN StoreRest(t) ELSE t
    IN  Finish(After(MergeSeqs(Peek(s.m, s.right, s.right.count), Peek(s.m, s.left, s.left.count),
                               Unlimited, <<>>)))

mergestore_scalar_bitand(s, rdone, ldone) == mergestore_scalar_modulo(s, rdone, ldone)

mergestore(m, out, right, left, rdone, ldone) ==
    IF CopiesLeft(right, left, rdone, ldone)
    THEN LET c == direct_copy_to_output(m, out, left)
         IN  [m |-> c.m, out |-> c.out, right |-> right, left |-> c.src]
    ELSE IF CopiesRight(right, left, rdone, ldone)
    THEN LET c == direct_copy_to_output(m, out, right)
         IN  [m |-> c.m, out |-> c.out, right |-> c.src, left |-> left]
    ELSE LET s == [m |-> m, out |-> out, right |-> right, left |-> left]
         IN  CASE impl = "scalar" -> mergestore_scalar_decomposed(s, rdone, ldone)
               [] impl = "avx"    -> mergestore_parallel_decomposed(s, rdone, ldone)
               [] impl = "modulo" -> mergestore_scalar_modulo(s, rdone, ldone)
               [] impl = "bitand" -> mergestore_scalar_bitand(s, rdone, ldone)
=============================================================================
