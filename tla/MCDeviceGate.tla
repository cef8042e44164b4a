---------------------------- MODULE MCDeviceGate ----------------------------
(* Small instances of DeviceGate. *)
EXTENDS DeviceGate, TLC

Symmetry == Permutations(Proc) \cup Permutations(Mac) \cup Permutations(Op)
==============================================================================
