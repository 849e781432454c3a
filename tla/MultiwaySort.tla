---------------------------- MODULE MultiwaySort ----------------------------
(***************************************************************************)
(* avxsort_multiway.h: the input is cut into blocks of the size of the L3  *)
(* cache, each is sorted by avxsort_int64, and the sorted blocks are       *)
(* merged: more than three by a multiway merge, fewer in two-way rounds.   *)
(* A behaviour is one call, of the sort or of one of the multiway merges.  *)
(*                                                                         *)
(* Of avxsort_int64 only SortedArray's promise is used: a block ends up    *)
(* sorted in one of the arrays, full blocks all in the same one, and the   *)
(* block's place in the other array holds anything.                        *)
(***************************************************************************)
EXTENDS MultiwayMerge

CONSTANTS
    L3BLOCKSIZE,    \* items of a block, a power of two
    Fifosize,       \* fifosize of the sort's multiway merge, by number of parts
    Calls           \* [tree, mem], or [inp, out, fifobuffer, n, mem, fullIn, restIn]

VARIABLES
    call,
    blocks,         \* sorted blocks: [src, tmp, size], ptrs[i][0], ptrs[i][1], sizes[i]
    itr,            \* the two-way merge's loop counter
    pc,             \* "sort", "merge", "rounds", "tree", "done"
    owed            \* auxiliary: StepsLeft when the tree's round began

vars == <<mergeVars, call, blocks, itr, pc, owed>>

RECURSIVE log2(_)
log2(k) == IF k < 2 THEN 0 ELSE 1 + log2(k \div 2)
CeilLog2(k) == IF 2^log2(k) = k THEN log2(k) ELSE log2(k) + 1

IsSort(c) == "n" \in DOMAIN c
Junk == 0

Init ==
    /\ call \in Calls
    /\ pc = IF IsSort(call) THEN "sort" ELSE "merge"
    /\ mem = call.mem
    /\ blocks = <<>> /\ itr = 0 /\ owed = 0
    /\ tree = <<>> /\ parts = <<>> /\ nodes = <<>> /\ done = <<>>
    /\ m = -1 /\ finished = FALSE /\ output = 0 /\ state = "idle"
-----------------------------------------------------------------------------
(* 1) A block, or the remainder, is sorted into one of the arrays. *)
SortBlock ==
    LET pos  == Len(blocks) * L3BLOCKSIZE
        size == IF call.n - pos < L3BLOCKSIZE THEN call.n - pos ELSE L3BLOCKSIZE
        in   == call.inp + pos
        out  == call.out + pos
        stays == IF size = L3BLOCKSIZE THEN call.fullIn ELSE call.restIn
        items == SortedSeq(Load(mem, in, size))
        junk  == [i \in 1..size |-> Junk]
    IN  /\ pc = "sort"
        /\ pos < call.n
        /\ mem' = Store(Store(mem, in, IF stays THEN items ELSE junk),
                        out, IF stays THEN junk ELSE items)
        /\ blocks' = Append(blocks, [src |-> IF stays THEN in ELSE out,
                                     tmp |-> IF stays THEN out ELSE in, size |-> size])
        /\ UNCHANGED <<call, itr, pc, tree, parts, nodes, done, m, finished, output, state, owed>>

Merged(a, b) == avx_merge_int64(mem, a.src, b.src, a.tmp, a.size, b.size)
Joined(a, b) == [src |-> a.tmp, tmp |-> a.src, size |-> a.size + b.size]

(* 2) With more than three blocks the last of an odd number is merged into *)
(* the one before it; otherwise the two-way rounds begin.                  *)
Choose ==
    LET last == Len(blocks)
        odd  == last > 3 /\ last % 2 = 1
        a == blocks[last - 1]
        b == blocks[last]
    IN  /\ pc = "sort"
        /\ Len(blocks) * L3BLOCKSIZE >= call.n
        /\ pc' = IF last > 3 THEN "merge" ELSE "rounds"
        /\ itr' = log2(L3BLOCKSIZE)
        /\ IF odd THEN /\ mem' = Merged(a, b)
                       /\ blocks' = SubSeq(blocks, 1, last - 2) \o <<Joined(a, b)>>
           ELSE UNCHANGED <<mem, blocks>>
        /\ UNCHANGED <<call, tree, parts, nodes, done, m, finished, output, state, owed>>

(* The steps up the tree that the items still have to make, and the nodes  *)
(* that are not yet done.                                                  *)
Level(k) == log2(k + 2)
RECURSIVE Total(_, _)
Total(f, i) == IF i = 0 THEN 0 ELSE f[i] + Total(f, i - 1)
StepsLeft ==
    Total([i \in 1..nparts |-> parts[i].num_tuples], nparts) * log2(nparts)
    + Total([i \in 1..nfifos |-> node(i - 1).count * Level(i - 1)], nfifos)
    + Cardinality({k \in 1..nfifos : ~done[k]})

(* The parts of the tree: the blocks, padded to a power of two. *)
BlockParts ==
    [i \in 1..(2^CeilLog2(Len(blocks))) |->
        IF i <= Len(blocks) THEN [a |-> blocks[i].src, num_tuples |-> blocks[i].size]
        ELSE [a |-> 0, num_tuples |-> 0]]

StartTree ==
    /\ pc = "merge"
    /\ Start(IF IsSort(call)
             THEN [impl |-> "avx", fifosize |-> Fifosize[Len(BlockParts)],
                   fifobuffer |-> call.fifobuffer, out |-> blocks[1].tmp, parts |-> BlockParts]
             ELSE call.tree)
    /\ pc' = "tree"
    /\ owed' = StepsLeft'
    /\ UNCHANGED <<mem, call, blocks, itr>>

Tree == /\ pc = "tree"
        /\ MergeStep
        /\ owed' = IF m = -1 THEN StepsLeft' ELSE owed
        /\ UNCHANGED <<call, blocks, itr, pc>>

(* The output pointer becomes the tree's output. *)
TreeDone == /\ pc = "tree" /\ state = "merged"
            /\ pc' = "done"
            /\ UNCHANGED <<mergeVars, call, blocks, itr, owed>>

(* A two-way round over at most three blocks. *)
Round ==
    /\ pc = "rounds"
    /\ itr < CeilLog2(call.n)
    /\ itr' = itr + 1
    /\ IF Len(blocks) > 1
       THEN /\ mem' = Merged(blocks[1], blocks[2])
            /\ blocks' = <<Joined(blocks[1], blocks[2])>> \o SubSeq(blocks, 3, Len(blocks))
       ELSE UNCHANGED <<mem, blocks>>
    /\ UNCHANGED <<call, pc, tree, parts, nodes, done, m, finished, output, state, owed>>

RoundsDone == /\ pc = "rounds"
              /\ itr >= CeilLog2(call.n)
              /\ pc' = "done"
              /\ UNCHANGED <<mergeVars, call, blocks, itr, owed>>

Returned == pc = "done" /\ UNCHANGED vars

avxsortmultiway_int64 == SortBlock \/ Choose \/ StartTree \/ Tree \/ TreeDone \/ Round \/ RoundsDone

Next == avxsortmultiway_int64 \/ Returned

Spec == Init /\ [][Next]_vars

-----------------------------------------------------------------------------
(* Properties of the multiway merges and of the sort that uses them.       *)

(* What the call is to sort or merge. *)
RECURSIVE Concat(_, _)
Concat(from, ps) ==
    IF ps = <<>> THEN <<>>
    ELSE Load(from, ps[1].a, ps[1].num_tuples) \o Concat(from, Tail(ps))

Inputs == IF IsSort(call) THEN Load(call.mem, call.inp, call.n)
          ELSE Concat(call.mem, call.tree.parts)

Outputs == IF state = "idle" THEN <<>> ELSE Load(mem, tree.out, output - tree.out)

InTree == pc = "tree"

Below(k) == {Right(k), Left(k)}

(* The queue of node k, in order. *)
Content(k) == Queue(tree.impl, tree.fifosize)!Queued(mem, node(k))
PartContent(i) == Load(mem, parts[i].a, parts[i].num_tuples)

Ascending(s) == \A i \in 1..(Len(s) - 1) : s[i] <= s[i + 1]

(* The last item of a queue is not above the first one of those it is      *)
(* filled from.                                                            *)
Before(s, t) == s = <<>> \/ t = <<>> \/ s[Len(s)] <= t[1]

(* When the call returns, the output is the sorted input, all of it        *)
(* (avx_multiwaymerge.h's "@param output resulting merged runs").          *)
Complete == pc = "done" =>
    IF state = "merged" THEN Outputs = SortedSeq(Inputs)
    ELSE Load(mem, blocks[1].src, call.n) = SortedSeq(Inputs)

(* Every path from the output to a part is ascending: along it the items   *)
(* come in the order in which they were or will be written, although full  *)
(* and empty rings, pieces that wrap and blocks flushed back into consumed *)
(* cells all look alike to the indices.                                    *)
PathsSorted ==
    InTree =>
        /\ \A k \in 0..(nfifos - 1) :
              /\ Ascending(Content(k))
              /\ IF IsLeaf(k)
                 THEN \A i \in {PartsOf(k).A, PartsOf(k).B} :
                         /\ Ascending(PartContent(i))
                         /\ Before(Content(k), PartContent(i))
                 ELSE \A c \in Below(k) : Before(Content(k), Content(c))
        /\ \A k \in {0, 1} : Before(Outputs, Content(k))

RECURSIVE AllQueued(_)
AllQueued(k) == IF k = nfifos THEN <<>> ELSE Content(k) \o AllQueued(k + 1)
RECURSIVE AllParts(_)
AllParts(i) == IF i > nparts THEN <<>> ELSE PartContent(i) \o AllParts(i + 1)

(* No item is lost or duplicated on the way up: parts, queues and output   *)
(* hold the input's items, and the offsets of a ring agree with its count. *)
ItemsConserved ==
    InTree =>
        /\ SortedSeq(Outputs \o AllQueued(0) \o AllParts(1)) = SortedSeq(Inputs)
        /\ \A k \in 0..(nfifos - 1) :
              /\ node(k).count \in 0..tree.fifosize
              /\ (node(k).head + node(k).count) % tree.fifosize = node(k).tail

(* The loop ends: every round that is not the last moves items up the tree *)
(* or marks a node as done, though a node is passed over when it has       *)
(* enough, is full, or waits for one child while the other has plenty.     *)
RoundsMakeProgress == [][StoreRoot /\ state' = "merging" => StepsLeft' < owed]_vars
=============================================================================
