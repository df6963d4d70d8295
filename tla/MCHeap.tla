------------------------------- MODULE MCHeap -------------------------------
(* Model-checking instance of Heap: a heap with room for five small blocks, *)
(* so that first fit skips, splits, whole-block hand-outs and every kind of *)
(* merge occur, and sizes on both sides of each rounding and split limit.   *)
EXTENDS Heap

MCHeapSize == 5 * (Overhead + 32)
MCRequests == {0, 16, 33, 100, MaxRequest + 1}
=============================================================================
