------------------------------- MODULE MCFleet -------------------------------
(* A small instance of Fleet: two routers that hold one id in turn. *)
EXTENDS Fleet, TLC

Symmetry == Permutations(Routers)
=============================================================================
