---------------------------- MODULE BitonicMerge ----------------------------
(***************************************************************************)
(* The two-way merge kernels of avxsort_core.h and their dispatch in       *)
(* merge.h, as functions from a memory to a memory.  A memory is a         *)
(* sequence of 64-bit items; an address a >= 0 denotes its item a + 1.     *)
(*                                                                         *)
(* V is the number of items in a 256-bit register.  The code's is 4; its   *)
(* blocks of 4, 8 and 16 items are V, 2V and 4V here, so that the block    *)
(* phase of a kernel is reached with short inputs.  What the networks do   *)
(* inside the registers is AvxRegister's subject: here a network turns two *)
(* sorted blocks into the lower and the upper half of their sorted union.  *)
(***************************************************************************)
EXTENDS Integers, Sequences, TLC

CONSTANT V
ASSUME VAssumption == V \in Nat \ {0}

W4  == V
W8  == 2 * V
W16 == 4 * V

(* CACHE_LINE_SIZE, in items: one 512-bit register. *)
Line == 2 * V
-----------------------------------------------------------------------------
At(m, a) == m[a + 1]
Load(m, a, n) == SubSeq(m, a + 1, a + n)
Store(m, a, s) == SubSeq(m, 1, a) \o s \o SubSeq(m, a + Len(s) + 1, Len(m))

Least(s) == s[1]
Greatest(s) == s[Len(s)]
SortedSeq(s) == SortSeq(s, <)

(* Both outputs of BITONIC_MERGE4, 8 and 16. *)
BITONIC_MERGE(a, b) ==
    LET s == SortedSeq(a \o b)
    IN  [lo |-> SubSeq(s, 1, Len(a)), hi |-> SubSeq(s, Len(a) + 1, Len(s))]

(* The list with the smaller next item; on a tie it is B. *)
IFELSECONDMOVE(s) == IF At(s.m, s.a) < At(s.m, s.b) THEN "A" ELSE "B"

(* One pass through a network: the next block against the register, the    *)
(* lower half to the output.  s is [m, a, b, out, reg].                    *)
Pass(s, next, w) ==
    LET o == BITONIC_MERGE(s.reg, Load(s.m, IF next = "A" THEN s.a ELSE s.b, w))
    IN  [m   |-> Store(s.m, s.out, o.lo),
         a   |-> IF next = "A" THEN s.a + w ELSE s.a,
         b   |-> IF next = "B" THEN s.b + w ELSE s.b,
         out |-> s.out + w,
         reg |-> o.hi]

FirstPass(m, a, b, out, w) ==
    Pass([m |-> m, a |-> a + w, b |-> b, out |-> out, reg |-> Load(m, a, w)], "B", w)

RECURSIVE Passes(_, _, _, _)
Passes(s, endA, endB, w) ==
    IF s.a < endA /\ s.b < endB THEN Passes(Pass(s, IFELSECONDMOVE(s), w), endA, endB, w)
    ELSE s

RECURSIVE Drain(_, _, _, _)
Drain(s, endA, endB, w) ==
    IF s.a < endA THEN Drain(Pass(s, "A", w), endA, endB, w)
    ELSE IF s.b < endB THEN Drain(Pass(s, "B", w), endA, endB, w)
    ELSE s

(* (Mutant of Flush: the register's least item is compared.) *)
Mutant_FlushByLeast(s, w) ==
    IF At(s.m, s.a) >= Least(s.reg)
    THEN [s EXCEPT !.m = Store(s.m, s.a - w, s.reg), !.a = @ - w]
    ELSE [s EXCEPT !.m = Store(s.m, s.b - w, s.reg), !.b = @ - w]

(* The register goes back in front of the rest of one of the inputs.       *)
Flush(s, w) ==
    IF At(s.m, s.a) >= Greatest(s.reg)
    THEN [s EXCEPT !.m = Store(s.m, s.a - w, s.reg), !.a = @ - w]
    ELSE [s EXCEPT !.m = Store(s.m, s.b - w, s.reg), !.b = @ - w]

RECURSIVE SerialMerge(_, _, _)
SerialMerge(s, endA, endB) ==
    IF s.a < endA /\ s.b < endB
    THEN SerialMerge(IF At(s.m, s.a) < At(s.m, s.b)
                     THEN [s EXCEPT !.m = Store(s.m, s.out, Load(s.m, s.a, 1)),
                                    !.a = @ + 1, !.out = @ + 1]
                     ELSE [s EXCEPT !.m = Store(s.m, s.out, Load(s.m, s.b, 1)),
                                    !.b = @ + 1, !.out = @ + 1],
                     endA, endB)
    ELSE s

(* Copying upwards, in blocks while a block of items is left; a memory that *)
(* has faulted (see below) stays what it is.                               *)
RECURSIVE CopyUp(_, _, _, _)
CopyUp(m, from, to, n) ==
    IF n = 0 \/ m = <<>> THEN m
    ELSE LET k == IF n >= W8 THEN W8 ELSE 1
         IN  CopyUp(Store(m, to, Load(m, from, k)), from + k, to + k, n - k)

CopyRest(s, endA, endB) ==
    IF s.a < endA THEN CopyUp(s.m, s.a, s.out, endA - s.a)
    ELSE CopyUp(s.m, s.b, s.out, endB - s.b)
-----------------------------------------------------------------------------
(* The kernels for two lists of one length: the register is stored last. *)
MergeEqlen(m, a, b, out, len, w) ==
    LET s == Drain(Passes(FirstPass(m, a, b, out, w), a + len, b + len, w), a + len, b + len, w)
    IN  Store(s.m, s.out, s.reg)

(* The block phase of the kernels for two lengths. *)
BlockPhase(m, a, b, out, lenA, lenB, w) ==
    Flush(Passes(FirstPass(m, a, b, out, w), a + lenA - w, b + lenB - w, w), w)

(* lenA & ~(w - 1) > w *)
TwoBlocks(len, w) == (len \div w) * w > w

MergeVarlen(m, a, b, out, lenA, lenB, w) ==
    LET s == IF TwoBlocks(lenA, w) /\ TwoBlocks(lenB, w)
             THEN BlockPhase(m, a, b, out, lenA, lenB, w)
             ELSE [m |-> m, a |-> a, b |-> b, out |-> out, reg |-> <<>>]
    IN  CopyRest(SerialMerge(s, a + lenA, b + lenB), a + lenA, b + lenB)

merge4_eqlen(m, a, b, out, len)  == MergeEqlen(m, a, b, out, len, W4)
merge8_eqlen(m, a, b, out, len)  == MergeEqlen(m, a, b, out, len, W8)
merge16_eqlen(m, a, b, out, len) == MergeEqlen(m, a, b, out, len, W16)

merge4_varlen(m, a, b, out, lenA, lenB)  == MergeVarlen(m, a, b, out, lenA, lenB, W4)
merge8_varlen(m, a, b, out, lenA, lenB)  == MergeVarlen(m, a, b, out, lenA, lenB, W8)
merge16_varlen(m, a, b, out, lenA, lenB) == MergeVarlen(m, a, b, out, lenA, lenB, W16)
-----------------------------------------------------------------------------
(* The aligned kernels move whole registers with instructions that fault   *)
(* at an address that is not a multiple of the register's size; a fault    *)
(* ends the program and is the empty memory here.  Their copying of the    *)
(* rest is unaligned.                                                      *)
Fault == <<>>

Aligned(addr) == addr % Line = 0

(* The register a kernel of width w moves: 256 or 512 bits. *)
RegisterOf(w) == IF w = W4 THEN W4 ELSE Line

AlignedEqlen(m, a, b, out, len, w) ==
    IF m # Fault /\ \A addr \in {a, b, out} : addr % RegisterOf(w) = 0
    THEN MergeEqlen(m, a, b, out, len, w) ELSE Fault

AlignedVarlen(m, a, b, out, lenA, lenB, w) ==
    IF /\ TwoBlocks(lenA, w) /\ TwoBlocks(lenB, w)
       /\ \E addr \in {a, b, out} : addr % RegisterOf(w) # 0
    THEN Fault ELSE MergeVarlen(m, a, b, out, lenA, lenB, w)

merge4_eqlen_aligned(m, a, b, out, len)  == AlignedEqlen(m, a, b, out, len, W4)
merge8_eqlen_aligned(m, a, b, out, len)  == AlignedEqlen(m, a, b, out, len, W8)
merge16_eqlen_aligned(m, a, b, out, len) == AlignedEqlen(m, a, b, out, len, W16)

merge4_varlen_aligned(m, a, b, out, lenA, lenB) ==
    AlignedVarlen(m, a, b, out, lenA, lenB, W4)
merge8_varlen_aligned(m, a, b, out, lenA, lenB) ==
    AlignedVarlen(m, a, b, out, lenA, lenB, W8)
merge16_varlen_aligned(m, a, b, out, lenA, lenB) ==
    AlignedVarlen(m, a, b, out, lenA, lenB, W16)
-----------------------------------------------------------------------------
(* merge.h.  MERGEBITONICWIDTH is 16; the dispatch to the eqlen kernels is *)
(* switched off in the code (iseqlen is 0).                                *)
ScalarMerge(m, a, b, out, lenA, lenB) ==
    LET s == SerialMerge([m |-> m, a |-> a, b |-> b, out |-> out], a + lenA, b + lenB)
    IN  CopyRest(s, a + lenA, b + lenB)

scalar_merge_int64(m, a, b, out, lenA, lenB)  == ScalarMerge(m, a, b, out, lenA, lenB)
scalar_merge_tuples(m, a, b, out, lenA, lenB) == ScalarMerge(m, a, b, out, lenA, lenB)

avx_merge_int64(m, a, b, out, lenA, lenB) ==
    IF Aligned(a) /\ Aligned(b) /\ Aligned(out)
    THEN merge16_varlen_aligned(m, a, b, out, lenA, lenB)
    ELSE merge16_varlen(m, a, b, out, lenA, lenB)

avx_merge_tuples(m, a, b, out, lenA, lenB) == avx_merge_int64(m, a, b, out, lenA, lenB)
-----------------------------------------------------------------------------
(* The kernels of the multiway merges: they stop when a list or the room   *)
(* for the output is used up, and return how far they came.  w = 0 stands  *)
(* for the scalar kernels, which have no block phase.                      *)
Unlimited == 2^20

RECURSIVE SerialSlots(_, _, _, _)
SerialSlots(s, endA, endB, endOut) ==
    IF s.m # Fault /\ s.a < endA /\ s.b < endB /\ s.out < endOut
    THEN SerialSlots(IF At(s.m, s.a) < At(s.m, s.b)
                     THEN [s EXCEPT !.m = Store(s.m, s.out, Load(s.m, s.a, 1)),
                                    !.a = @ + 1, !.out = @ + 1]
                     ELSE [s EXCEPT !.m = Store(s.m, s.out, Load(s.m, s.b, 1)),
                                    !.b = @ + 1, !.out = @ + 1],
                     endA, endB, endOut)
    ELSE s

RECURSIVE SlotPasses(_, _, _, _, _)
SlotPasses(s, endA, endB, endOut, w) ==
    IF s.out < endOut /\ s.a < endA /\ s.b < endB
    THEN SlotPasses(Pass(s, IFELSECONDMOVE(s), w), endA, endB, endOut, w)
    ELSE s

(* (Mutant of BlockSlots: a block that does not quite fit.) *)
Mutant_RoundedUp(slots, w) == IF w = 0 THEN 0 ELSE ((slots + w - 1) \div w) * w

(* The room that whole blocks fill. *)
BlockSlots(slots, w) == IF w = 0 THEN 0 ELSE (slots \div w) * w

SlotKernel(m, a, b, out, endA, endB, slots, w) ==
    LET blocks == BlockSlots(slots, w)
        s == IF blocks > 0 /\ TwoBlocks(endA - a, w) /\ TwoBlocks(endB - b, w)
             THEN Flush(SlotPasses(FirstPass(m, a, b, out, w), endA - w, endB - w, out + blocks, w), w)
             ELSE [m |-> m, a |-> a, b |-> b, out |-> out, reg |-> <<>>]
    IN  SerialSlots(s, endA, endB, out + slots)

merge16kernel(m, a, b, out, endA, endB, slots) == SlotKernel(m, a, b, out, endA, endB, slots, W16)
merge8kernel(m, a, b, out, endA, endB, slots)  == SlotKernel(m, a, b, out, endA, endB, slots, W8)
mergestore16kernel(m, a, b, out, endA, endB) ==
    SlotKernel(m, a, b, out, endA, endB, Unlimited, W16)

serialmergekernel(m, a, b, out, endA, endB, slots) == SlotKernel(m, a, b, out, endA, endB, slots, 0)
serialmergestorekernel(m, a, b, out, endA, endB) ==
    SlotKernel(m, a, b, out, endA, endB, Unlimited, 0)
=============================================================================
