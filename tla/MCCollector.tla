---------------------------- MODULE MCCollector ----------------------------
(* A router with one radio: its configuration gives it the access point 1,   *)
(* or the access point 3 beside the mesh point 2.                            *)
EXTENDS Collector, TLC

CONSTANTS o1, o2

OneTwo == {o1, o2}
RadioShapes == {{1}, {2, 3}}
Modes == [i \in 1..3 |-> IF i = 2 THEN "mesh" ELSE "ap"]
TwoTargets == {[key |-> "k1", wired |-> FALSE], [key |-> "k2", wired |-> TRUE]}
Symmetry == Permutations(OneTwo)

=============================================================================
