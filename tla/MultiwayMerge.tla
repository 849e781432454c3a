--------------------------- MODULE MultiwayMerge ---------------------------
(***************************************************************************)
(* The multiway merges of scalar_multiwaymerge.h and avx_multiwaymerge.h:  *)
(* a binary tree of queues.  Leaves read from two of the parts each, inner *)
(* nodes from their two children, and nodes 0 and 1 are merged to the      *)
(* output.  The tree is walked in rounds, from the last node to the first, *)
(* and a node that has enough is passed over.                              *)
(*                                                                         *)
(* Parts, queues and output are in one memory, since the output may lie in *)
(* the array of some of the parts.                                         *)
(***************************************************************************)
EXTENDS BitonicMerge, FiniteSets

VARIABLES
    tree,       \* what the merge was called with: [impl, fifosize, out, parts]
    mem,        \* the memory
    parts,      \* the parts: [a, num_tuples], the rest of each
    nodes,      \* nodes[m + 1]: a MergeNode
    done,       \* done[m + 1]
    m,          \* the node visited next; -1: the root's turn
    finished,   \* the loop's flag
    output,     \* where the next item goes
    state       \* "idle", "merging", "merged"

mergeVars == <<tree, mem, parts, nodes, done, m, finished, output, state>>

Queue(impl, fifosize) == INSTANCE MergeNode
-----------------------------------------------------------------------------
nparts == Len(tree.parts)
nfifos == nparts - 2
readthreshold == tree.fifosize \div 2

(* Nodes nfifos - nparts/2 .. nfifos - 1 are the leaves. *)
IsLeaf(k) == k >= nfifos - nparts \div 2
PartsOf(k) == [A |-> 2 * (nfifos - 1 - k) + 1, B |-> 2 * (nfifos - 1 - k) + 2]
Right(k) == 2 * k + 2
Left(k)  == 2 * k + 3

node(k) == nodes[k + 1]
isDone(k) == done[k + 1]

(* The call: t is a tree, whose rings begin at address t.fifobuffer. *)
Start(t) ==
    /\ tree' = t
    /\ parts' = t.parts
    /\ nodes' = [k \in 1..(Len(t.parts) - 2) |->
                    Queue(t.impl, t.fifosize)!Node(t.fifobuffer + (k - 1) * t.fifosize)]
    /\ done' = [k \in 1..(Len(t.parts) - 2) |-> FALSE]
    /\ m' = Len(t.parts) - 3
    /\ finished' = TRUE
    /\ output' = t.out
    /\ state' = "merging"

Visits(k) == state = "merging" /\ m = k /\ m >= 0

ReadInto(k) ==
    LET A == parts[PartsOf(k).A]
        B == parts[PartsOf(k).B]
    IN  Queue(tree.impl, tree.fifosize)!readmerge(mem, node(k), A.a, A.a + A.num_tuples,
                                                  B.a, B.a + B.num_tuples)

ReadLeaf ==
    \E k \in 0..(nfifos - 1) :
        /\ Visits(k)
        /\ IsLeaf(k) /\ ~isDone(k) /\ node(k).count < readthreshold
        /\ \E r \in {ReadInto(k)} :
            LET A == PartsOf(k).A
                B == PartsOf(k).B
                nread == (r.a - parts[A].a) + (r.b - parts[B].a)
                left  == (parts[A].num_tuples + parts[B].num_tuples) - nread
            IN
            /\ mem' = r.m
            /\ nodes' = [nodes EXCEPT ![k + 1] = r.node]
            /\ parts' = [parts EXCEPT
                            ![A] = [a |-> r.a, num_tuples |-> @.num_tuples - (r.a - @.a)],
                            ![B] = [a |-> r.b, num_tuples |-> @.num_tuples - (r.b - @.a)]]
            /\ done' = [done EXCEPT ![k + 1] = nread = 0 \/ left = 0]
            /\ finished' = (finished /\ done'[k + 1])
            /\ m' = k - 1
            /\ UNCHANGED <<tree, output, state>>

(* A leaf that has enough, or will get no more, is passed over. *)
PassLeaf ==
    \E k \in 0..(nfifos - 1) :
        /\ Visits(k)
        /\ IsLeaf(k) /\ (isDone(k) \/ node(k).count >= readthreshold)
        /\ m' = k - 1
        /\ UNCHANGED <<tree, mem, parts, nodes, done, finished, output, state>>

ChildDone(k) == isDone(Right(k)) \/ isDone(Left(k))
HasRoom(k) == (ChildDone(k) \/ node(k).count < readthreshold) /\ node(k).count < tree.fifosize
(* (Mutant of ChildrenReady: a child that is done need not have enough.) *)
Mutant_BothFull(k) == node(Right(k)).count >= readthreshold /\ node(Left(k)).count >= readthreshold

ChildrenReady(k) ==
    ChildDone(k) \/ (node(Right(k)).count >= readthreshold /\ node(Left(k)).count >= readthreshold)

(* (Mutant of UsedUp: what is left in the children is not asked for.) *)
Mutant_ChildrenDone(k, after) == isDone(Right(k)) /\ isDone(Left(k))

(* Node k will get no more items, its children being what they are after. *)
UsedUp(k, after) ==
    /\ isDone(Right(k)) /\ isDone(Left(k))
    /\ after[Right(k) + 1].count = 0 /\ after[Left(k) + 1].count = 0

(* An inner node: with room and ready children it merges, and with room    *)
(* and children that are done and empty it is done.                        *)
MergeInto(k) ==
    Queue(tree.impl, tree.fifosize)!merge(mem, node(k), node(Right(k)), node(Left(k)),
                                          isDone(Right(k)), isDone(Left(k)))

VisitInner ==
    \E k \in 0..(nfifos - 1) :
        /\ Visits(k)
        /\ ~IsLeaf(k)
        /\ IF ~isDone(k) /\ HasRoom(k) /\ ChildrenReady(k)
           THEN \E r \in {MergeInto(k)} :
                   /\ mem' = r.m
                   /\ nodes' = [nodes EXCEPT ![k + 1] = r.node, ![Right(k) + 1] = r.right,
                                             ![Left(k) + 1] = r.left]
           ELSE UNCHANGED <<mem, nodes>>
        /\ done' = IF ~isDone(k) /\ HasRoom(k)
                   THEN [done EXCEPT ![k + 1] = UsedUp(k, nodes')]
                   ELSE done
        /\ finished' = (finished /\ done'[k + 1])
        /\ m' = k - 1
        /\ UNCHANGED <<tree, parts, output, state>>

(* The end of a round. *)
StoreOutput ==
    Queue(tree.impl, tree.fifosize)!mergestore(mem, output, node(0), node(1), isDone(0), isDone(1))

StoreRoot ==
    /\ state = "merging" /\ m = -1
    /\ \E r \in {StoreOutput} :
          /\ mem' = r.m
          /\ output' = r.out
          /\ nodes' = [nodes EXCEPT ![1] = r.right, ![2] = r.left]
    /\ IF finished THEN state' = "merged" /\ UNCHANGED <<m, finished>>
       ELSE state' = state /\ m' = nfifos - 1 /\ finished' = TRUE
    /\ UNCHANGED <<tree, parts, done>>

scalar_multiway_merge        == tree.impl = "scalar" /\ (ReadLeaf \/ PassLeaf \/ VisitInner \/ StoreRoot)
scalar_multiway_merge_modulo == tree.impl = "modulo" /\ (ReadLeaf \/ PassLeaf \/ VisitInner \/ StoreRoot)
scalar_multiway_merge_bitand == tree.impl = "bitand" /\ (ReadLeaf \/ PassLeaf \/ VisitInner \/ StoreRoot)
avx_multiway_merge           == tree.impl = "avx" /\ (ReadLeaf \/ PassLeaf \/ VisitInner \/ StoreRoot)

MergeStep == scalar_multiway_merge \/ scalar_multiway_merge_modulo
             \/ scalar_multiway_merge_bitand \/ avx_multiway_merge
=============================================================================
