---------------------------- MODULE SortKernels ----------------------------
(***************************************************************************)
(* A call of one of the sort's kernels: the bitonic networks and the       *)
(* in-register sort on registers (AvxRegister), the merge kernels and      *)
(* their dispatch on memory (BitonicMerge).  A behaviour makes one call.   *)
(***************************************************************************)
EXTENDS BitonicMerge

Reg == INSTANCE AvxRegister

(* Sets of calls: of a network, [kernel, a, b] with two sequences of lanes; *)
(* of a merge, [kernel, a, b, out, lenA, lenB, mem] with addresses and the  *)
(* memory, and slots for the kernels of the multiway merges.                *)
CONSTANT CallSets

VARIABLES
    call,       \* the call
    result,     \* what it returned: registers, or the memory after it
    pc          \* "called", "returned"

vars == <<call, result, pc>>
-----------------------------------------------------------------------------
Flat(regs) == IF Len(regs) = 2 THEN regs[1] \o regs[2]
              ELSE (regs[1] \o regs[2]) \o (regs[3] \o regs[4])
Flat8(regs) == Flat(SubSeq(regs, 1, 4)) \o Flat(SubSeq(regs, 5, 8))

R4(s, k) == Reg!Register(s, k, 4)
R8(s, k) == Reg!Register(s, k, 8)
Quad(s)  == [k \in 1..4 |-> R4(s, k)]

(* A network applied to the lanes of its input registers, as the lanes of  *)
(* its output registers.                                                   *)
ApplyNetwork(c) ==
    CASE c.kernel = "BITONIC_MERGE4"  -> Flat(Reg!BITONIC_MERGE4(c.a, c.b))
      [] c.kernel = "BITONIC_MERGE8"  ->
             Flat(Reg!BITONIC_MERGE8(R4(c.a, 1), R4(c.a, 2), R4(c.b, 1), R4(c.b, 2)))
      [] c.kernel = "BITONIC_MERGE16" -> Flat8(Reg!BITONIC_MERGE16(Quad(c.a), Quad(c.b)))
      [] c.kernel = "BITONIC_MERGE4_avx512"  -> Flat(Reg!BITONIC_MERGE4_avx512(c.a, c.b))
      [] c.kernel = "BITONIC_MERGE8_avx512"  -> Flat(Reg!BITONIC_MERGE8_avx512(c.a, c.b))
      [] c.kernel = "BITONIC_MERGE16_avx512" ->
             Flat(Reg!BITONIC_MERGE16_avx512(R8(c.a, 1), R8(c.a, 2), R8(c.b, 1), R8(c.b, 2)))
      [] c.kernel = "inregister_sort_keyval32" -> Reg!inregister_sort_keyval32(c.a)

ApplyMerge(c) ==
    CASE c.kernel = "merge4_eqlen"   -> merge4_eqlen(c.mem, c.a, c.b, c.out, c.lenA)
      [] c.kernel = "merge8_eqlen"   -> merge8_eqlen(c.mem, c.a, c.b, c.out, c.lenA)
      [] c.kernel = "merge16_eqlen"  -> merge16_eqlen(c.mem, c.a, c.b, c.out, c.lenA)
      [] c.kernel = "merge4_varlen"  -> merge4_varlen(c.mem, c.a, c.b, c.out, c.lenA, c.lenB)
      [] c.kernel = "merge8_varlen"  -> merge8_varlen(c.mem, c.a, c.b, c.out, c.lenA, c.lenB)
      [] c.kernel = "merge16_varlen" -> merge16_varlen(c.mem, c.a, c.b, c.out, c.lenA, c.lenB)
      [] c.kernel = "merge4_varlen_aligned" ->
             merge4_varlen_aligned(c.mem, c.a, c.b, c.out, c.lenA, c.lenB)
      [] c.kernel = "avx_merge_tuples" ->
             avx_merge_tuples(c.mem, c.a, c.b, c.out, c.lenA, c.lenB)
      [] c.kernel = "scalar_merge_int64" ->
             scalar_merge_int64(c.mem, c.a, c.b, c.out, c.lenA, c.lenB)
      [] c.kernel = "scalar_merge_tuples" ->
             scalar_merge_tuples(c.mem, c.a, c.b, c.out, c.lenA, c.lenB)

(* The kernels of the multiway merges, in a record: see SlotKernel. *)
ApplySlots(c) ==
    LET endA == c.a + c.lenA
        endB == c.b + c.lenB
    IN  CASE c.kernel = "merge16kernel" -> merge16kernel(c.mem, c.a, c.b, c.out, endA, endB, c.slots)
          [] c.kernel = "merge8kernel"  -> merge8kernel(c.mem, c.a, c.b, c.out, endA, endB, c.slots)
          [] c.kernel = "mergestore16kernel" ->
                 mergestore16kernel(c.mem, c.a, c.b, c.out, endA, endB)
-----------------------------------------------------------------------------
HasSlots(c) == "slots" \in DOMAIN c
OnMemory(c) == "mem" \in DOMAIN c /\ ~HasSlots(c)

Init == /\ \E i \in DOMAIN CallSets : call \in CallSets[i]
        /\ result = <<>>
        /\ pc = "called"

ReturnNetwork == /\ pc = "called"
                 /\ ~OnMemory(call) /\ ~HasSlots(call)
                 /\ result' = ApplyNetwork(call)
                 /\ pc' = "returned"
                 /\ UNCHANGED call

ReturnMerge == /\ pc = "called"
               /\ OnMemory(call)
               /\ result' = ApplyMerge(call)
               /\ pc' = "returned"
               /\ UNCHANGED call

ReturnSlots == /\ pc = "called"
               /\ HasSlots(call)
               /\ result' = ApplySlots(call)
               /\ pc' = "returned"
               /\ UNCHANGED call

Returned == pc = "returned" /\ UNCHANGED vars

Next == ReturnNetwork \/ ReturnMerge \/ ReturnSlots \/ Returned

Spec == Init /\ [][Next]_vars
-----------------------------------------------------------------------------
Cells(a, n) == a .. (a + n - 1)

(* Column k of the registers, of n lanes each, that hold the items s. *)
Column(s, k, n) == [r \in 1..4 |-> s[(r - 1) * n + k]]

(* The networks of avxcommon.h, in the AVX2 and in the AVX-512 build, turn *)
(* two sorted blocks into their sorted union; the in-register sort of      *)
(* avxsort_core.h turns its registers' columns, four items each, into      *)
(* sorted runs, one after another.                                         *)
NetworksSort ==
    pc = "returned" /\ "mem" \notin DOMAIN call =>
        IF call.kernel = "inregister_sort_keyval32"
        THEN LET n == Len(call.a) \div 4
             IN  \A k \in 1..n :
                    SubSeq(result, 4 * (k - 1) + 1, 4 * k) = SortedSeq(Column(call.a, k, n))
        ELSE result = SortedSeq(call.a \o call.b)

(* A merge leaves the sorted union of its two lists in the output, also    *)
(* where the output runs into the second list; it writes nowhere else but  *)
(* over its inputs; and an aligned kernel is given only lists and outputs  *)
(* at addresses that its instructions accept.                              *)
MergesIntoOutput ==
    pc = "returned" /\ OnMemory(call) =>
        LET merged == SortedSeq(Load(call.mem, call.a, call.lenA)
                                \o Load(call.mem, call.b, call.lenB))
            touched == Cells(call.a, call.lenA) \cup Cells(call.b, call.lenB)
                       \cup Cells(call.out, call.lenA + call.lenB)
        IN  /\ Len(result) = Len(call.mem)
            /\ Load(result, call.out, call.lenA + call.lenB) = merged
            /\ \A addr \in 0..(Len(result) - 1) \ touched : At(result, addr) = At(call.mem, addr)

(* A kernel of the multiway merges stops when the room or one of its lists *)
(* is used up; it has then stored the least items, and what it has not     *)
(* consumed of the lists, including the block it held in registers and     *)
(* wrote back over consumed items, is all the rest, still in order.        *)
KernelsMergeAPrefix ==
    pc = "returned" /\ HasSlots(call) =>
        LET merged == SortedSeq(Load(call.mem, call.a, call.lenA)
                                \o Load(call.mem, call.b, call.lenB))
            k     == result.out - call.out
            restA == Load(result.m, result.a, call.a + call.lenA - result.a)
            restB == Load(result.m, result.b, call.b + call.lenB - result.b)
            apart == Cells(call.a, call.lenA) \cup Cells(call.b, call.lenB) \cup Cells(call.out, k)
        IN  /\ k = call.slots \/ restA = <<>> \/ restB = <<>>
            /\ k <= call.slots
            /\ Load(result.m, call.out, k) = SubSeq(merged, 1, k)
            /\ SortedSeq(restA \o restB) = SubSeq(merged, k + 1, Len(merged))
            /\ restA = SortedSeq(restA) /\ restB = SortedSeq(restB)
            /\ \A addr \in 0..(Len(call.mem) - 1) \ apart :
                  At(result.m, addr) = At(call.mem, addr)
=============================================================================
