--------------------------- MODULE MCRestoreSwap ---------------------------
(* Small instances of RestoreSwap. *)
EXTENDS RestoreSwap, TLC

Symmetry == Permutations(Restore)
=============================================================================
