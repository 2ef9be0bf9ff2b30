----------------------------- MODULE MCSlicing -----------------------------
(* Small instances of StackSlicing for TLC. *)
EXTENDS SlicingImplements, TLC

Symmetry == Permutations(Tealets \ {Main}) \cup Permutations(Stacks)
=============================================================================
