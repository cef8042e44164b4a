--------------------------- MODULE MCApplyEngine ---------------------------
(* Plans for TLC: the options of a plan, their files and their batches.    *)
EXTENDS ApplyEngine

CONSTANTS o1, o2

TwoFiles == [o \in Option |-> IF o = o1 THEN "network" ELSE "wireless"]

ChunkPerFile == <<{o1}, Option \ {o1}>>

\* The hypothesis of the theorems about this instance.
ASSUME BatchAssumption == OneBatchPerFile
=============================================================================
