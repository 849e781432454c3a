----------------------------- MODULE SortInputs -----------------------------
(***************************************************************************)
(* The calls that MCSorts makes of the sorts' programs: of the kernels, of *)
(* the vector sort, of the multiway merges and of the sort that uses them. *)
(* Registers are of V items; the sizes below are for V = 1.                *)
(***************************************************************************)
EXTENDS BitonicMerge

-----------------------------------------------------------------------------
(* Kernels.  The networks get all pairs of sorted 0-1 blocks, and the      *)
(* in-register sort all columns of 0-1 items for one lane against another  *)
(* column in the other lanes: a compare-exchange network that sorts these  *)
(* sorts everything.  The merges get all pairs of sorted lists over three  *)
(* values, which is enough for ties and for every order of the block       *)
(* heads, in three placements.                                             *)

(* n items: i zeros, then j - i ones, then twos. *)
Steps(n, i, j) == [k \in 1..n |-> IF k <= i THEN 0 ELSE IF k <= j THEN 1 ELSE 2]
SortedLists(n) == {Steps(n, i, j) : <<i, j>> \in {p \in (0..n) \X (0..n) : p[1] <= p[2]}}
Bits(n) == {Steps(n, i, n) : i \in 0..n}

NetworkCalls(kernel, n) == {[kernel |-> kernel, a |-> x, b |-> y] : x \in Bits(n), y \in Bits(n)}

Columns == [1..4 -> 0..1]
Spread(n, lane, p, q) ==
    [i \in 1..(4 * n) |-> IF (i - 1) % n = lane THEN p[1 + ((i - 1) \div n)] ELSE q[1 + ((i - 1) \div n)]]
InregisterCalls(n) ==
    {[kernel |-> "inregister_sort_keyval32", a |-> Spread(n, lane, p, q)] :
        lane \in 0..(n - 1), p \in Columns, q \in {[k \in 1..4 |-> 0], <<1, 0, 1, 0>>, <<0, 1, 1, 0>>}}

(* Two guard cells on each side; the lists and the output apart, from an   *)
(* aligned address or from the next one, or the output running into B.     *)
Guard(n) == [k \in 1..n |-> 999]
Pad(n) == Guard((Line - (n % Line)) % Line)

Apart(kernel, x, y, shift) ==
    LET a == 2 + shift
        b == a + Len(x \o Pad(Len(x)))
        o == b + Len(y \o Pad(Len(y)))
    IN  [kernel |-> kernel, a |-> a, b |-> b, out |-> o, lenA |-> Len(x), lenB |-> Len(y),
         mem |-> Guard(a) \o x \o Pad(Len(x)) \o y \o Pad(Len(y)) \o Guard(Len(x \o y) + 2)]

InPlace(kernel, x, y) ==
    LET o == 2 + Len(x) + 1
    IN  [kernel |-> kernel, a |-> 2, b |-> o + Len(x), out |-> o,
         lenA |-> Len(x), lenB |-> Len(y),
         mem |-> Guard(2) \o x \o Guard(1 + Len(x)) \o y \o Guard(2)]

Pairs(n, k) == SortedLists(n) \X SortedLists(k)
AllPairs(lengths) == UNION {Pairs(l[1], l[2]) : l \in lengths}

Slotted(c, k) == [kernel |-> c.kernel, a |-> c.a, b |-> c.b, out |-> c.out, lenA |-> c.lenA,
                  lenB |-> c.lenB, mem |-> c.mem, slots |-> k]
WithSlots(kernel, lengths, slots) ==
    {Slotted(Apart(kernel, p[1], p[2], 0), k) : p \in AllPairs(lengths), k \in slots}

ApartEach(kernel, lengths, shift) == {Apart(kernel, p[1], p[2], shift) : p \in AllPairs(lengths)}
InPlaceEach(kernel, lengths) == {InPlace(kernel, p[1], p[2]) : p \in AllPairs(lengths)}

KernelCallSets == <<
    NetworkCalls("BITONIC_MERGE4", 4), NetworkCalls("BITONIC_MERGE4_avx512", 4),
    NetworkCalls("BITONIC_MERGE8", 8), NetworkCalls("BITONIC_MERGE8_avx512", 8),
    NetworkCalls("BITONIC_MERGE16", 16), NetworkCalls("BITONIC_MERGE16_avx512", 16),
    InregisterCalls(4), InregisterCalls(8),
    ApartEach("merge4_eqlen", {<<1, 1>>, <<2, 2>>, <<4, 4>>}, 1),
    ApartEach("merge8_eqlen", {<<2, 2>>, <<4, 4>>, <<6, 6>>}, 1),
    ApartEach("merge16_eqlen", {<<4, 4>>}, 1), ApartEach("merge16_eqlen", {<<8, 8>>}, 1),
    ApartEach("merge4_varlen", {<<3, 2>>, <<4, 5>>}, 1),
    InPlaceEach("merge4_varlen", {<<3, 2>>, <<4, 5>>}),
    ApartEach("merge8_varlen", {<<4, 5>>, <<7, 4>>}, 1),
    InPlaceEach("merge8_varlen", {<<7, 4>>, <<3, 6>>}),
    ApartEach("merge16_varlen", {<<8, 9>>}, 1), InPlaceEach("merge16_varlen", {<<12, 8>>}),
    ApartEach("merge4_varlen_aligned", {<<2, 3>>, <<4, 4>>}, 0),
    ApartEach("avx_merge_tuples", {<<8, 8>>}, 0), ApartEach("avx_merge_tuples", {<<5, 9>>}, 1),
    InPlaceEach("avx_merge_tuples", {<<8, 8>>}),
    ApartEach("scalar_merge_int64", {<<0, 2>>, <<3, 3>>}, 1),
    InPlaceEach("scalar_merge_int64", {<<0, 2>>, <<3, 3>>}),
    ApartEach("scalar_merge_tuples", {<<3, 0>>, <<3, 3>>}, 1),
    InPlaceEach("scalar_merge_tuples", {<<3, 0>>, <<3, 3>>}),
    WithSlots("merge16kernel", {<<8, 9>>}, {3, 10}), WithSlots("merge16kernel", {<<8, 9>>}, {4, 17}),
    WithSlots("merge8kernel", {<<4, 5>>}, {1, 6}), WithSlots("merge8kernel", {<<7, 4>>}, {4, 6, 12}),
    WithSlots("mergestore16kernel", {<<9, 8>>}, {Unlimited}) >>
-----------------------------------------------------------------------------
(* The vector sort.  Blocks of 64 items, remainders by blocks of more than *)
(* 8: with up to 4 blocks and a remainder every loop of the code takes     *)
(* several rounds, odd chunks are carried over, and chunks of both arrays  *)
(* meet in a merge.  Inputs: a permutation with long strides, ties,        *)
(* descending, and sorted.                                                 *)
Shuffled(n)   == [i \in 1..n |-> (i * 89) % 257]
Ties(n)       == [i \in 1..n |-> (i * 5) % 3]
Descending(n) == [i \in 1..n |-> n - i]
Rising(n, first, stride) == [k \in 1..n |-> first + (k * stride) \div 2]

(* The arrays begin at an aligned address or at the one after it. *)
Arrays(items, sa, sb) ==
    LET n   == Len(items)
        inp == Line + sa
        out == inp + n + (n % 2) + (IF sa = sb THEN 0 ELSE 1)
    IN  [inp |-> inp, out |-> out, n |-> n,
         mem |-> Guard(inp) \o items \o Guard(out - inp - n) \o Guard(n) \o Guard(1)]

VectorSizes == {1, 7, 64, 79, 103, 128, 151, 177, 192, 255, 256}

VectorSortCalls ==
    {Arrays(Shuffled(n), sa, sb) : n \in VectorSizes, sa \in {0, 1}, sb \in {0, 1}}
    \cup {Arrays(Ties(n), s, s) : n \in {111, 191}, s \in {0, 1}}
    \cup {Arrays(Descending(n), s, s) : n \in {126, 319}, s \in {0, 1}}
    \cup {Arrays(Rising(n, 0, 2), s, s) : n \in {95, 130}, s \in {0, 1}}
-----------------------------------------------------------------------------
(* The multiway merges and the sort that uses them.  Blocks of 4, rings of *)
(* 5 to 16 items: a ring wraps in the middle of a block, and a block phase *)
(* needs more than two blocks in both lists.                               *)
RECURSIVE Layout(_, _)
Layout(lists, from) ==
    IF lists = <<>> THEN <<>>
    ELSE <<[a |-> from, num_tuples |-> Len(lists[1])]>>
         \o Layout(Tail(lists), from + Len(lists[1]))
RECURSIVE Flatten(_)
Flatten(lists) == IF lists = <<>> THEN <<>> ELSE lists[1] \o Flatten(Tail(lists))

Blank(n) == [k \in 1..n |-> 0]

MergeCall(impl, f, lists) ==
    LET n == Len(Flatten(lists))
    IN  [tree |-> [impl |-> impl, fifosize |-> f, out |-> n, fifobuffer |-> 2 * n,
                   parts |-> Layout(lists, 0)],
         mem  |-> Flatten(lists) \o Blank(n) \o Blank(f * (Len(lists) - 2))]

(* Eight or sixteen parts: of one length, one much longer, some empty, all *)
(* small items in one part, many ties.                                     *)
Lists(shape, np) ==
    [i \in 1..np |->
        CASE shape = "even"   -> Rising(12, i, 3)
          [] shape = "skewed" -> IF i = 3 THEN Rising(40, 1, 4) ELSE Rising(i % 5, 10 * i, 1)
          [] shape = "holes"  -> IF i % 3 = 0 THEN Rising(9 + i, 50 - 2 * i, 2) ELSE <<>>
          [] shape = "blocks" -> Rising(17, 100 * i, 2)
          [] shape = "ties"   -> Rising(10 + i, 1 + (i % 2), 1)]

Shapes == {"even", "skewed", "holes", "blocks", "ties"}
Trees == {<<"scalar", 7>>, <<"avx", 11>>, <<"avx", 16>>, <<"modulo", 5>>, <<"bitand", 8>>}

MergeCalls ==
    {MergeCall(t[1], t[2], Lists(s, 8)) : t \in Trees, s \in Shapes}
    \cup {MergeCall(t[1], t[2], Lists("even", 16)) : t \in Trees}

SortCall(n, fullIn, restIn) ==
    [inp |-> 0, out |-> n, fifobuffer |-> 2 * n, n |-> n, fullIn |-> fullIn, restIn |-> restIn,
     mem |-> Shuffled(n) \o Blank(n) \o Blank(60)]

(* All but 25 to 40 items, whose four or five blocks make a tree of four   *)
(* parts: see FourPartsCalls.                                              *)
MultiwaySortCalls ==
    {SortCall(n, fullIn, restIn) : n \in {1, 8, 19, 24, 47, 51, 60, 64, 68},
                                   fullIn \in BOOLEAN, restIn \in BOOLEAN}

RingSizes == [p \in {4, 8, 16} |-> 10]
MultiwayCalls == MergeCalls \cup MultiwaySortCalls

FourPartsCalls == {SortCall(28, TRUE, TRUE)}
=============================================================================
