------------------------------ MODULE AvxSort ------------------------------
(***************************************************************************)
(* The single-threaded vector sort of avxsort.h and avxsort_core.h:        *)
(* blocks of BLOCKSIZE items are sorted by merging runs of doubling length *)
(* back and forth between two arrays, the remainder by blocks of falling   *)
(* powers of two, and the sorted chunks are then merged pairwise.  Every   *)
(* chunk keeps track of which of the two arrays holds it.                  *)
(*                                                                         *)
(* The scale is BitonicMerge's: a register holds V items, a run of the     *)
(* first level is V long.  The parity of a level decides the array it      *)
(* reads; the code's first level, 2, is even, so level 0 here is the       *)
(* level of runs of V.                                                     *)
(***************************************************************************)
EXTENDS BitonicMerge, FiniteSets

CONSTANTS
    BLOCKSIZE,  \* items of a block, a power of two times V
    RemLimit,   \* blocks of the remainder are longer than this: 128 in the code
    Calls       \* sets of arguments: [inp, out, n, mem]

(* What the scale has to keep of the code's sizes. *)
AvxSortParameters ==
    /\ RemLimit \in Nat /\ RemLimit >= 8 * V
    /\ BLOCKSIZE \in Nat /\ BLOCKSIZE >= RemLimit

VARIABLES
    call,       \* the arguments, and the memory when the call was made
    mem,        \* the memory
    pc,         \* "blocks", "rest", "restmerge", "merge", "done"
    chunks,     \* sorted chunks: [src, tmp, size], ptrs[i][0], ptrs[i][1], sizes[i]
    rest,       \* avxsort_rem: [pos, n, pow, parts]
    itr         \* the merge loop's counter

vars == <<call, mem, pc, chunks, rest, itr>>
-----------------------------------------------------------------------------
RECURSIVE log2(_)
log2(n) == IF n < 2 THEN 0 ELSE 1 + log2(n \div 2)
CeilLog2(n) == IF 2^log2(n) = n THEN log2(n) ELSE log2(n) + 1

(* avxsort_int64: the aligned implementation if both arrays are aligned. *)
UseAligned == Aligned(call.inp) /\ Aligned(call.out)

(* Every V * V items become V sorted runs, the columns of V registers. *)
InRegisterSort(m, a, size) ==
    LET Item(i) == LET block == (i \div (V * V)) * V * V
                       run   == (i % (V * V)) \div V
                       col   == [r \in 1..V |-> At(m, a + block + (r - 1) * V + run)]
                   IN  SortedSeq(col)[1 + (i % V)]
    IN  IF V = 1 THEN m ELSE Store(m, a, [i \in 1..size |-> Item(i - 1)])

EqlenKernel(m, a, b, out, len, level) ==
    IF UseAligned
    THEN CASE level = 0 -> merge4_eqlen_aligned(m, a, b, out, len)
           [] level = 1 -> merge8_eqlen_aligned(m, a, b, out, len)
           [] OTHER     -> merge16_eqlen_aligned(m, a, b, out, len)
    ELSE CASE level = 0 -> merge4_eqlen(m, a, b, out, len)
           [] level = 1 -> merge8_eqlen(m, a, b, out, len)
           [] OTHER     -> merge16_eqlen(m, a, b, out, len)

(* Merging all pairs of runs of a level, from position pos on. *)
RECURSIVE Level(_, _, _, _, _, _)
Level(m, from, to, level, pos, size) ==
    IF m = Fault \/ pos >= size THEN m
    ELSE LET len == V * 2^level
         IN  Level(EqlenKernel(m, from + pos, from + pos + len, to + pos, len, level),
                   from, to, level, pos + 2 * len, size)

(* Levels up to the last: even ones read p[1], odd ones p[2]. *)
RECURSIVE Levels(_, _, _, _)
Levels(m, p, level, size) ==
    IF m = Fault \/ V * 2^level = size THEN m
    ELSE Levels(Level(m, p[1 + (level % 2)], p[2 - (level % 2)], level, 0, size),
                p, level + 1, size)

(* (Mutant of WrittenToOutput: the parity of the number of levels.) *)
Mutant_ParityOfLevels(size) == log2(size \div V) % 2 = 0

(* The array that the last level has written. *)
WrittenToOutput(size) == (log2(size \div V) - 1) % 2 = 0

(* After the caller's swap: the array the last level wrote holds the block. *)
avxsort_block(m, inp, out, size) ==
    [mem   |-> Levels(InRegisterSort(m, inp, size), <<inp, out>>, 0, size),
     chunk |-> IF WrittenToOutput(size) THEN [src |-> out, tmp |-> inp, size |-> size]
               ELSE [src |-> inp, tmp |-> out, size |-> size]]

(* The same with the aligned kernels, see EqlenKernel. *)
avxsort_block_aligned(m, inp, out, size) == avxsort_block(m, inp, out, size)

SortBlock(m, inp, out, size) ==
    IF UseAligned THEN avxsort_block_aligned(m, inp, out, size)
    ELSE avxsort_block(m, inp, out, size)
-----------------------------------------------------------------------------
NextPow2(n) == 2^CeilLog2(n)

RECURSIVE Halve(_, _)
Halve(pow, n) == IF n < pow THEN Halve(pow \div 2, n) ELSE pow

Remainder == call.n % BLOCKSIZE

Init == /\ call \in Calls
        /\ mem = call.mem
        /\ pc = IF call.n = 0 THEN "done" ELSE "blocks"
        /\ chunks = <<>>
        /\ rest = [pos |-> 0, n |-> 0, pow |-> 0, parts |-> <<>>]
        /\ itr = 0

SortChunk ==
    LET pos == Len(chunks) * BLOCKSIZE
        s   == SortBlock(mem, call.inp + pos, call.out + pos, BLOCKSIZE)
    IN  /\ pc = "blocks"
        /\ Len(chunks) < call.n \div BLOCKSIZE
        /\ mem' = s.mem
        /\ chunks' = Append(chunks, s.chunk)
        /\ UNCHANGED <<call, pc, rest, itr>>

(* All blocks are sorted: the remainder's turn, or the merges'. *)
BlocksDone ==
    /\ pc = "blocks"
    /\ Len(chunks) = call.n \div BLOCKSIZE
    /\ IF Remainder > 0
       THEN /\ pc' = "rest"
            /\ rest' = [pos |-> call.n - Remainder, n |-> Remainder,
                        pow |-> Halve(NextPow2(Remainder), Remainder), parts |-> <<>>]
       ELSE pc' = "merge" /\ UNCHANGED rest
    /\ itr' = log2(BLOCKSIZE)
    /\ UNCHANGED <<call, mem, chunks>>

(* One round of the loop over blocks in avxsort_rem. *)
RemBlock ==
    LET s == SortBlock(mem, call.inp + rest.pos, call.out + rest.pos, rest.pow)
    IN  /\ pc = "rest"
        /\ rest.pow > RemLimit
        /\ mem' = s.mem
        /\ rest' = [pos |-> rest.pos + rest.pow, n |-> rest.n - rest.pow,
                    pow |-> Halve(rest.pow, rest.n - rest.pow),
                    parts |-> Append(rest.parts, s.chunk)]
        /\ UNCHANGED <<call, pc, chunks, itr>>

(* The last items, if any, are sorted in place. *)
RemScalar ==
    /\ pc = "rest"
    /\ rest.pow <= RemLimit
    /\ pc' = "restmerge"
    /\ IF rest.n > 0
       THEN /\ mem' = Store(mem, call.inp + rest.pos,
                            SortedSeq(Load(mem, call.inp + rest.pos, rest.n)))
            /\ rest' = [rest EXCEPT !.n = 0,
                            !.parts = Append(@, [src  |-> call.inp + rest.pos,
                                                 tmp  |-> call.out + rest.pos,
                                                 size |-> rest.n])]
       ELSE UNCHANGED <<mem, rest>>
    /\ UNCHANGED <<call, chunks, itr>>

(* avxsort_rem merges with width 16; of the outer loops the unaligned one  *)
(* uses width 16, the aligned one width 8.                                 *)
VarlenKernel(m, A, B, loop) ==
    IF ~UseAligned THEN merge16_varlen(m, A.src, B.src, A.tmp, A.size, B.size)
    ELSE IF loop = "rem" THEN merge16_varlen_aligned(m, A.src, B.src, A.tmp, A.size, B.size)
    ELSE merge8_varlen_aligned(m, A.src, B.src, A.tmp, A.size, B.size)

(* (Mutants of Joined: the pointers are not swapped, and those of the      *)
(* second chunk are taken.)                                                *)
Mutant_NotSwapped(A, B) == [src |-> A.src, tmp |-> A.tmp, size |-> A.size + B.size]
Mutant_OfSecond(A, B) == [src |-> A.tmp, tmp |-> B.tmp, size |-> A.size + B.size]
Joined(A, B) == [src |-> A.tmp, tmp |-> A.src, size |-> A.size + B.size]

(* A round: every chunk with its right neighbour, into the first one's     *)
(* other array; an odd last chunk keeps its pointers.                      *)
RECURSIVE MergeRound(_, _, _)
MergeRound(m, cs, loop) ==
    IF Len(cs) < 2 \/ m = Fault THEN [mem |-> m, chunks |-> cs]
    ELSE LET A == cs[1]
             B == cs[2]
             more == MergeRound(VarlenKernel(m, A, B, loop), SubSeq(cs, 3, Len(cs)), loop)
         IN  [mem    |-> more.mem,
              chunks |-> <<Joined(A, B)>> \o more.chunks]

RemMerge ==
    LET r == MergeRound(mem, rest.parts, "rem")
    IN  /\ pc = "restmerge"
        /\ Len(rest.parts) > 1
        /\ mem' = r.mem
        /\ rest' = [rest EXCEPT !.parts = r.chunks]
        /\ UNCHANGED <<call, pc, chunks, itr>>

RemDone ==
    /\ pc = "restmerge"
    /\ Len(rest.parts) = 1
    /\ chunks' = Append(chunks, rest.parts[1])
    /\ rest' = [rest EXCEPT !.parts = <<>>]
    /\ pc' = "merge"
    /\ UNCHANGED <<call, mem, itr>>

(* (Mutant of NextPower: the counter goes down.) *)
Mutant_CountsDown == itr - 1
NextPower == itr + 1

(* One round for each power of two from the block's to the input's. *)
Merge ==
    LET r == MergeRound(mem, chunks, "outer")
    IN  /\ pc = "merge"
        /\ itr < CeilLog2(call.n)
        /\ mem' = r.mem
        /\ chunks' = r.chunks
        /\ itr' = NextPower
        /\ UNCHANGED <<call, pc, rest>>

(* The output pointer becomes the first chunk's. *)
Return ==
    /\ pc = "merge"
    /\ itr >= CeilLog2(call.n)
    /\ pc' = "done"
    /\ UNCHANGED <<call, mem, chunks, rest, itr>>

Returned == pc = "done" /\ UNCHANGED vars

Next == \/ SortChunk \/ BlocksDone
        \/ RemBlock \/ RemScalar \/ RemMerge \/ RemDone
        \/ Merge \/ Return \/ Returned

Spec == Init /\ [][Next]_vars

-----------------------------------------------------------------------------
(* Properties of the vector sort.                                          *)

Done == pc = "done"
Sorted == IF chunks = <<>> THEN call.inp ELSE chunks[1].src

(* avxsort_int64 and avxsort_tuples return one of the two arrays with the  *)
(* sorted input, and change nothing outside the arrays (avxsort.h's        *)
(* "inputptr and outputptr might be swapped internally").                  *)
Abstract == INSTANCE SortedArray WITH
    state  <- IF Done THEN "sorted" ELSE "sorting",
    result <- IF Done THEN Sorted ELSE call.inp
ImplementsSortedArray == Abstract!Spec

AllChunks == chunks \o rest.parts
RECURSIVE SizeOf(_)
SizeOf(cs) == IF cs = <<>> THEN 0 ELSE cs[1].size + SizeOf(Tail(cs))
Offset(k) == SizeOf(SubSeq(AllChunks, 1, k - 1))

RECURSIVE Contents(_)
Contents(cs) == IF cs = <<>> THEN <<>> ELSE Load(mem, cs[1].src, cs[1].size) \o Contents(Tail(cs))

(* Merging out of place into an array that still holds the next chunk's    *)
(* items, and flushing registers into the inputs, loses and duplicates     *)
(* nothing: at every step the sorted chunks and the items not yet sorted   *)
(* are the input's items, and every chunk is ascending.  No aligned load   *)
(* from the arrays and no aligned store into them has met an unaligned     *)
(* address (the local buffer that a flush goes through is not in mem).     *)
ChunksKeepTheItems ==
    LET covered == SizeOf(AllChunks)
        unsorted == Load(mem, call.inp + covered, call.n - covered)
    IN  /\ mem # Fault
        /\ SortedSeq(Contents(AllChunks) \o unsorted)
            = SortedSeq(Load(call.mem, call.inp, call.n))
        /\ \A k \in DOMAIN AllChunks :
              LET c == Load(mem, AllChunks[k].src, AllChunks[k].size) IN c = SortedSeq(c)

(* The two pointers of a chunk stay at its offset in the two arrays,       *)
(* whatever array the parity of its levels and merges has left it in; this *)
(* is what makes it legal to merge a chunk of one array with one of the    *)
(* other.                                                                  *)
ChunksInPlace ==
    \A k \in DOMAIN AllChunks :
        {AllChunks[k].src, AllChunks[k].tmp} = {call.inp + Offset(k), call.out + Offset(k)}

(* The sort ends: until it returns it can take a step (no deadlock), and   *)
(* every step uses up items to sort, chunks to merge, rounds or phases.    *)
Phase == CASE pc = "blocks" -> 4 [] pc = "rest" -> 3 [] pc = "restmerge" -> 2
           [] pc = "merge" -> 1 [] pc = "done" -> 0
RoundsLeft == IF pc = "merge" /\ itr < CeilLog2(call.n) THEN CeilLog2(call.n) - itr ELSE 0
Work == 2 * (call.n - SizeOf(AllChunks)) + Len(chunks) + Len(rest.parts)
        + (1 + CeilLog2(call.n)) * Phase + RoundsLeft
EveryStepProgresses == [][Work' < Work]_vars
=============================================================================
