------------------------------- MODULE MCHeap -------------------------------
(* A small instance of Heap for TLC.  All blocks are interchangeable.      *)
EXTENDS Heap, TLC

Symmetry == Permutations(Stacks) \cup Permutations(Tealets \ {Main})
=============================================================================
