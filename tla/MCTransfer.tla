----------------------------- MODULE MCTransfer -----------------------------
(* Small instances of Transfer for TLC. *)
EXTENDS TransferImplements, TLC

Symmetry == Permutations(Tealets \ {Main})
=============================================================================
