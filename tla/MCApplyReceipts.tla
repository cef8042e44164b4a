-------------------------- MODULE MCApplyReceipts --------------------------
(* Small instances of ApplyReceipts. *)
EXTENDS ApplyReceipts, TLC

Symmetry == Permutations(Op) \cup Permutations(Device) \cup Permutations(Handler)
              \cup Permutations(Request)
==============================================================================
