----------------------------- MODULE MCRegistry -----------------------------
(* Small instances of Registry for TLC.                                    *)
EXTENDS Registry, TLC

CONSTANTS a, b, i1, i2, i3, main

EveryName == [t \in Tasks |-> Names]

Interchangeable == Permutations(Entries)
=============================================================================
