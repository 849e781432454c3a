------------------------------ MODULE MCSorts ------------------------------
(***************************************************************************)
(* The sorts of the sort-merge joins, for TLC: a behaviour is one call of  *)
(* one of them, of a kernel (SortKernels), of the vector sort (AvxSort) or *)
(* of the multiway merges and the sort that uses them (MultiwaySort).      *)
(***************************************************************************)
EXTENDS SortInputs

CONSTANTS
    Programs,           \* of "kernels", "vector", "multiway": those that are called
    MultiwayCallsMade   \* of "multiway"

VARIABLES
    program,        \* the one this behaviour calls
    call, pc, mem, itr,
    result,                                                       \* SortKernels
    chunks, rest,                                                 \* AvxSort
    tree, parts, nodes, done, m, finished, output, state, blocks, owed  \* MultiwaySort, MultiwayMerge

kernelVars   == <<result>>
vectorVars   == <<chunks, rest>>
multiwayVars == <<tree, parts, nodes, done, m, finished, output, state, blocks, owed>>
vars == <<program, call, pc, mem, itr, kernelVars, vectorVars, multiwayVars>>

Kernels  == INSTANCE SortKernels WITH CallSets <- KernelCallSets
Vector   == INSTANCE AvxSort WITH BLOCKSIZE <- 64, RemLimit <- 8, Calls <- VectorSortCalls
Multiway == INSTANCE MultiwaySort WITH L3BLOCKSIZE <- 8, Fifosize <- RingSizes,
                                       Calls <- MultiwayCallsMade

ASSUME VectorParameters == Vector!AvxSortParameters
-----------------------------------------------------------------------------
(* The variables of the programs that are not called. *)
NoKernel   == result = <<>>
NoVector   == chunks = <<>> /\ rest = <<>>
NoMultiway == /\ tree = <<>> /\ parts = <<>> /\ nodes = <<>> /\ done = <<>>
              /\ m = -1 /\ finished = FALSE /\ output = 0 /\ state = "idle"
              /\ blocks = <<>> /\ owed = 0
NoMemory   == mem = <<>> /\ itr = 0

Init ==
    /\ program \in Programs
    /\ \/ program = "kernels"  /\ Kernels!Init  /\ NoVector /\ NoMultiway /\ NoMemory
       \/ program = "vector"   /\ Vector!Init   /\ NoKernel /\ NoMultiway
       \/ program = "multiway" /\ Multiway!Init /\ NoKernel /\ NoVector

CallKernel ==
    /\ program = "kernels"
    /\ Kernels!Next
    /\ UNCHANGED <<program, mem, itr, vectorVars, multiwayVars>>

CallVectorSort ==
    /\ program = "vector"
    /\ Vector!Next
    /\ UNCHANGED <<program, kernelVars, multiwayVars>>

CallMultiway ==
    /\ program = "multiway"
    /\ Multiway!Next
    /\ UNCHANGED <<program, kernelVars, vectorVars>>

Next == CallKernel \/ CallVectorSort \/ CallMultiway

Spec == Init /\ [][Next]_vars
-----------------------------------------------------------------------------
(* The properties of the programs, each while it runs; what they say is at *)
(* their definitions, in the programs' modules.                            *)

(* The bitonic networks of avxcommon.h, in both builds, and the in-register*)
(* sort of avxsort_core.h sort their blocks.                               *)
NetworksSort == program = "kernels" => Kernels!NetworksSort

(* The merge kernels of avxsort_core.h and merge.h leave the sorted union  *)
(* of their lists in the output, also where the output runs into the       *)
(* second list, and write nowhere else but over the lists.                 *)
MergesIntoOutput == program = "kernels" => Kernels!MergesIntoOutput

(* A kernel of avx_multiwaymerge.h with limited room stores the least items*)
(* and hands back all the others, still in order.                          *)
KernelsMergeAPrefix == program = "kernels" => Kernels!KernelsMergeAPrefix

(* At every step of avxsort_int64 its ascending chunks and the items not   *)
(* yet sorted are the input's items.                                       *)
ChunksKeepTheItems == program = "vector" => Vector!ChunksKeepTheItems

(* The two pointers that avxsort_int64 swaps with every merge of a chunk   *)
(* stay at the chunk's offset in the two arrays.                           *)
ChunksInPlace == program = "vector" => Vector!ChunksInPlace

(* Every step of avxsort_int64 uses up items, chunks, rounds or phases, so *)
(* that its loops, which count powers of two, end.                         *)
EveryStepProgresses == [][program = "vector" => Vector!Work' < Vector!Work]_vars

(* avxsort_int64 and avxsort_tuples return one of the two arrays with the  *)
(* sorted input and change no other memory, as SortedArray promises.       *)
ImplementsSortedArray ==
    /\ program = "vector" => Vector!Abstract!Init
    /\ [][program = "vector" => Vector!Abstract!Next \/ UNCHANGED Vector!Abstract!vars]_vars

(* When a multiway merge or avxsort_multiway.h's sort returns, its output  *)
(* is the sorted input, all of it.                                         *)
Complete == program = "multiway" => Multiway!Complete

(* While the merge tree of avx_multiwaymerge.h or scalar_multiwaymerge.h   *)
(* runs, every path from the output to a part is ascending.                *)
PathsSorted == program = "multiway" => Multiway!PathsSorted

(* Meanwhile the parts, the rings and the output hold the input's items,   *)
(* each once.                                                              *)
ItemsConserved == program = "multiway" => Multiway!ItemsConserved

(* Every round over a merge tree but the last one moves items up the tree  *)
(* or marks a node as done, although nodes wait for one another.           *)
RoundsMakeProgress ==
    [][program = "multiway" /\ Multiway!StoreRoot /\ state' = "merging"
        => Multiway!StepsLeft' < owed]_vars
=============================================================================
