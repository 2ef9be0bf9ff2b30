----------------------------- MODULE MCLocking -----------------------------
(* Small instances of Locking for TLC.  Heap blocks are interchangeable,   *)
(* but symmetry is not used where liveness is checked.                     *)
EXTENDS Locking, TLC

Symmetry == Permutations(Stacks) \cup Permutations(Tealets \ {Main})
=============================================================================
